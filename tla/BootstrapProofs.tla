--------------------------- MODULE BootstrapProofs ---------------------------
(***************************************************************************)
(* What holds of Bootstrap for every registry, set of accounts and bound:  *)
(* the type invariant, one core per controller, what the descriptor cache  *)
(* holds, why a collection is degraded, that no cipher goes back to fewer  *)
(* epochs, and what a declaration carries forward.                         *)
(***************************************************************************)
EXTENDS Bootstrap, SequenceTheorems, TLAPS

(***************************************************************************)
(* The inductive invariant, part by part                                   *)
(***************************************************************************)
LogType    == log \in [Governed -> Seq(Head0)] /\ \A c \in Governed : Len(log[c]) <= MaxHeads
MetaType   == meta \in [Registry -> Objects \cup {None}]
StoreType  == store \in [record : Accounts \cup {None}, owner : Accounts \cup {None},
                         heads : [Private -> Heads]]
ActType    == act \in Session
ColType    == col \in [Collections -> Bring]
GotType    == got \in [Private -> Heads]
Trust      == [owner : {"none", "pending", "known"}, pins : [Governed -> Heads]]
TrustType  == trust \in Trust
CipherType == cipher \in [Private -> Heads] /\ schema \subseteq Private
ReaderType == reader \in [Shared -> Reader]
PutsType   == puts \subseteq Put
Ctl        == [stopped : BOOLEAN, imports : SUBSET Calls, held : Calls \cup {None},
               starting : SUBSET Calls, live : 0..2]
CtlType    == ctl \in Ctl
PinsInv    == \A c \in Governed : trust.pins[c] <= Len(log[c])
SettledInv == act.at \in {"out", "caching", "open", "start", "up", "failed", "expired"} => Settled

Types == LogType /\ MetaType /\ StoreType /\ ActType /\ ColType /\ GotType /\ TrustType
         /\ CipherType /\ ReaderType /\ PutsType /\ CtlType /\ PinsInv /\ SettledInv
IInv  == Types /\ BringUpInv

LEMMA TypeParts == TypeOK <=> Types
BY DEF TypeOK, Types, LogType, MetaType, StoreType, ActType, ColType, GotType, Trust, TrustType,
   CipherType, ReaderType, PutsType, Ctl, CtlType, PinsInv, SettledInv

(***************************************************************************)
(* The values the actions build                                            *)
(***************************************************************************)
LEMMA Bounds == MaxHeads \in Nat /\ MaxHeads >= 1 /\ MaxEvents \in Nat /\ MaxPasses \in Nat
BY ConstantsOK

\* Each collection is of one kind.
LEMMA Kinds ==
  /\ Private \subseteq Registry /\ Public \subseteq Registry /\ Registry \subseteq Collections
  /\ Shared \subseteq Collections /\ Private \subseteq Governed /\ Shared \subseteq Governed
  /\ Governed \subseteq Collections
  /\ \A c \in Collections : c \in Private \/ c \in Public \/ c \in Shared
  /\ \A c \in Registry : c \in Private \/ c \in Public
  /\ \A c \in Private : c \notin Public /\ c \notin Shared
  /\ \A c \in Public : c \notin Shared
BY ConstantsOK DEF Registry, Governed, Collections

\* What each kind of collection must have when it is brought up.
LEMMA CompleteIs ==
  /\ \A c \in Private : Complete(c) <=>
       ~Replaces(c) /\ (got[c] # 0 /\ meta[c] # None /\ meta[c].indexes = "ours" => c \in schema)
  /\ \A c \in Public : Complete(c) <=> meta[c] # None /\ meta[c].indexes = "ours"
  /\ \A c \in Shared : Complete(c) <=> reader[c].head # 0
BY Kinds DEF Complete

\* A head of a log lists epochs, and names accounts.
LEMMA HeadNames ==
  ASSUME LogType, NEW c \in Governed
  PROVE  /\ Len(log[c]) \in Nat /\ Len(log[c]) <= MaxHeads
         /\ \A k \in 1..Len(log[c]) : log[c][k] \in Head0
<1>1. log[c] \in Seq(Head0) /\ Len(log[c]) <= MaxHeads
  BY DEF LogType
<1>2. Len(log[c]) \in Nat
  BY <1>1, LenProperties
<1>3. ASSUME NEW k \in 1..Len(log[c]) PROVE log[c][k] \in Head0
  BY <1>1, <1>3, ElementOfSeq
<1> QED BY <1>1, <1>2, <1>3

\* A head is one of a log's, or none: it lists no epoch, or the first ones.
LEMMA HeadEpochs ==
  ASSUME LogType, NEW c \in Governed, NEW k \in 0..Len(log[c])
  PROVE  Epochs(c, k) \in Nat /\ (k # 0 => Epochs(c, k) >= 1)
<1>1. Len(log[c]) \in Nat /\ (k # 0 => log[c][k] \in Head0)
  BY HeadNames
<1> QED BY <1>1 DEF Epochs, Head0

\* No cipher is replaced by the head it is built from, or by no head.
LEMMA HeldReplacesNot == \A c \in Private : got[c] \in {0, cipher[c]} => ~Replaces(c)
BY DEF Replaces, HoldsOrPostdates

LEMMA HeldReplacesNotNext == \A c \in Private : got'[c] \in {0, cipher'[c]} => ~Replaces(c)'
BY DEF Replaces, HoldsOrPostdates

LEMMA SameReplaces ==
  ASSUME log' = log, NEW c, got'[c] = got[c], cipher'[c] = cipher[c]
  PROVE  Replaces(c)' <=> Replaces(c)
BY DEF Replaces, HoldsOrPostdates, Postdates, Lists, Epochs

\* A head that replaces the cipher's lists no fewer epochs.
LEMMA ReplacesForward ==
  ASSUME LogType, NEW c \in Governed, Replaces(c),
         {got[c], cipher[c]} \subseteq 0..Len(log[c])
  PROVE  Epochs(c, got[c]) >= Epochs(c, cipher[c])
<1>1. /\ Epochs(c, got[c]) \in Nat /\ Epochs(c, cipher[c]) \in Nat /\ Epochs(c, got[c]) >= 1
      /\ cipher[c] = 0 => Epochs(c, cipher[c]) = 0
  BY HeadEpochs DEF Replaces, Epochs
<1>2. \A i, j \in Nat : j \in 1..i <=> j >= 1 /\ j <= i
  OBVIOUS
<1> QED BY <1>1, <1>2 DEF Replaces, HoldsOrPostdates, Postdates, Lists

\* The bring-up of a collection that failed, and of one that is over.
LEMMA Ends ==
  ASSUME ColType, NEW c \in Collections
  PROVE  /\ Fail(c) \in [Collections -> Bring] /\ \A d \in Collections \ {c} : Fail(c)[d] = col[d]
         /\ Fail(c)[c].at = "failed" /\ Fail(c)[c].cur = None /\ Fail(c)[c].hit
         /\ \A hit \in BOOLEAN :
              /\ Done(c, hit) \in [Collections -> Bring]
              /\ \A d \in Collections \ {c} : Done(c, hit)[d] = col[d]
              /\ Done(c, hit)[c].at = "done" /\ Done(c, hit)[c].cur = None
              /\ Done(c, hit)[c].hit = hit
<1>1. Idle \in Bring /\ Idle.cur = None
  BY DEF Idle, Bring
<1>2. \A hit \in BOOLEAN, at \in {"done", "failed"} :
        LET b == [Idle EXCEPT !.at = at, !.hit = hit] IN
        b \in Bring /\ b.at = at /\ b.cur = None /\ b.hit = hit
  BY <1>1 DEF Bring
<1> QED BY <1>2 DEF ColType, Fail, Done

\* A bring-up begins with reads, or with its hook.
LEMMA Begins ==
  ASSUME NEW was \in [Collections -> Bring], NEW cs, NEW wanted,
         \A c \in Collections : wanted[c] \subseteq {"head", "meta"}
  PROVE  /\ Begin(was, cs, wanted) \in [Collections -> Bring]
         /\ \A c \in Collections :
              /\ c \notin cs => Begin(was, cs, wanted)[c] = was[c]
              /\ c \in cs => Begin(was, cs, wanted)[c] =
                   [at |-> IF wanted[c] = {} THEN "hook" ELSE "read", wants |-> wanted[c],
                    cur |-> None, base |-> None, wrote |-> FALSE, hit |-> FALSE]
BY DEF Begin, Idle, Bring

LEMMA AllIdleIs ==
  /\ AllIdle \in [Collections -> Bring]
  /\ \A c \in Collections : AllIdle[c].at = "idle" /\ AllIdle[c].cur = None
BY DEF AllIdle, Idle, Bring

\* Asking for the owner's log pins nothing.
LEMMA Asks ==
  ASSUME NEW t \in Trust, NEW cs, NEW wanted
  PROVE  Asking(t, cs, wanted) \in Trust /\ Asking(t, cs, wanted).pins = t.pins
BY DEF Asking, Trust

LEMMA News ==
  /\ NewTrust \in Trust /\ \A c \in Governed : NewTrust.pins[c] = 0
  /\ NoHeads \in [Private -> Heads] /\ \A c \in Private : NoHeads[c] = 0
  /\ NoCtl \in Ctl /\ NewCtl \in Ctl
  /\ [c \in Shared |-> Unread] \in [Shared -> Reader]
  /\ Out \in Session
  /\ Empty \in [record : Accounts \cup {None}, owner : Accounts \cup {None}, heads : [Private -> Heads]]
<1>1. 0 \in Heads
  BY Bounds DEF Heads
<1>2. NewTrust \in Trust /\ \A c \in Governed : NewTrust.pins[c] = 0
  BY <1>1 DEF NewTrust, Trust
<1>3. NoHeads \in [Private -> Heads] /\ \A c \in Private : NoHeads[c] = 0
  BY <1>1 DEF NoHeads
<1>4. NoCtl \in Ctl /\ NewCtl \in Ctl
  <2>1. NoCtl \in Ctl
    BY DEF NoCtl, Ctl
  <2> QED BY <2>1 DEF NewCtl, Ctl
<1>5. [c \in Shared |-> Unread] \in [Shared -> Reader]
  BY <1>1 DEF Unread, Reader
<1>6. Out \in Session
  BY <1>3 DEF Out, Session
<1>7. Empty \in [record : Accounts \cup {None}, owner : Accounts \cup {None}, heads : [Private -> Heads]]
  BY <1>3 DEF Empty
<1> QED BY <1>2, <1>3, <1>4, <1>5, <1>6, <1>7

\* An answer moves a bring-up on.
LEMMA Answers ==
  ASSUME ColType, NEW c \in Collections, NEW w, col[c].at = "read"
  PROVE  /\ Answered(c, w) \in Bring
         /\ Answered(c, w).wants = col[c].wants \ {w}
         /\ Answered(c, w).cur = col[c].cur /\ Answered(c, w).base = col[c].base
         /\ Answered(c, w).hit = col[c].hit
         /\ Answered(c, w).wrote = col[c].wrote
         /\ Answered(c, w).at \in {"read", "hook", "done"}
         /\ Answered(c, w).at = "done" => act.at # "pass"
         /\ Answered(c, w).at = "hook" => act.at = "pass"
<1>1. col[c] \in Bring
  BY DEF ColType
<1> QED BY <1>1 DEF Answered, Bring

\* A part of the invariant stands while what it speaks of does.
LEMMA Frames ==
  /\ LogType /\ log' = log => LogType'
  /\ MetaType /\ meta' = meta => MetaType'
  /\ StoreType /\ store' = store => StoreType'
  /\ ActType /\ act' = act => ActType'
  /\ ColType /\ col' = col => ColType'
  /\ GotType /\ got' = got => GotType'
  /\ TrustType /\ trust' = trust => TrustType'
  /\ CipherType /\ cipher' = cipher /\ schema' = schema => CipherType'
  /\ ReaderType /\ reader' = reader => ReaderType'
  /\ PutsType /\ puts' = puts => PutsType'
  /\ CtlType /\ ctl' = ctl => CtlType'
  /\ PinsInv /\ log' = log /\ trust' = trust => PinsInv'
  /\ SettledInv /\ act' = act /\ col' = col => SettledInv'
  /\ CtlInv /\ act' = act /\ ctl' = ctl => CtlInv'
  /\ PutInv /\ act' = act /\ puts' = puts => PutInv'
  /\ LogInv /\ log' = log /\ got' = got /\ cipher' = cipher /\ store' = store /\ act' = act
       /\ puts' = puts => LogInv'
  /\ AcctInv /\ act' = act => AcctInv'
  /\ SpentInv /\ spent' = spent /\ meta' = meta => SpentInv'
  /\ PrepareInv /\ act' = act /\ col' = col /\ got' = got => PrepareInv'
  /\ MetaInv /\ col' = col /\ meta' = meta => MetaInv'
  /\ BringInv /\ log' = log /\ act' = act /\ col' = col /\ got' = got /\ cipher' = cipher
       /\ schema' = schema /\ meta' = meta /\ reader' = reader => BringInv'
  /\ CipherInv /\ act' = act /\ cipher' = cipher /\ log' = log => CipherInv'
  /\ CacheInv /\ store' = store /\ puts' = puts /\ log' = log /\ unopened' = unopened => CacheInv'
  /\ ReaderInv /\ act' = act /\ trust' = trust /\ reader' = reader => ReaderInv'
<1>1. /\ LogType /\ log' = log => LogType'
      /\ MetaType /\ meta' = meta => MetaType'
      /\ StoreType /\ store' = store => StoreType'
      /\ ActType /\ act' = act => ActType'
      /\ ColType /\ col' = col => ColType'
      /\ GotType /\ got' = got => GotType'
      /\ TrustType /\ trust' = trust => TrustType'
      /\ CipherType /\ cipher' = cipher /\ schema' = schema => CipherType'
      /\ ReaderType /\ reader' = reader => ReaderType'
      /\ PutsType /\ puts' = puts => PutsType'
      /\ CtlType /\ ctl' = ctl => CtlType'
  BY DEF LogType, MetaType, StoreType, ActType, ColType, GotType, TrustType, CipherType,
     ReaderType, PutsType, CtlType
<1>2. /\ PinsInv /\ log' = log /\ trust' = trust => PinsInv'
      /\ SettledInv /\ act' = act /\ col' = col => SettledInv'
      /\ CtlInv /\ act' = act /\ ctl' = ctl => CtlInv'
      /\ PutInv /\ act' = act /\ puts' = puts => PutInv'
  BY DEF PinsInv, SettledInv, Settled, CtlInv, OneCore, PutInv
<1>3. /\ LogInv /\ log' = log /\ got' = got /\ cipher' = cipher /\ store' = store /\ act' = act
           /\ puts' = puts => LogInv'
      /\ AcctInv /\ act' = act => AcctInv'
      /\ SpentInv /\ spent' = spent /\ meta' = meta => SpentInv'
      /\ PrepareInv /\ act' = act /\ col' = col /\ got' = got => PrepareInv'
      /\ MetaInv /\ col' = col /\ meta' = meta => MetaInv'
  BY DEF LogInv, AcctInv, SpentInv, PrepareInv, MetaInv
<1>4. BringInv /\ log' = log /\ act' = act /\ col' = col /\ got' = got /\ cipher' = cipher
        /\ schema' = schema /\ meta' = meta /\ reader' = reader => BringInv'
  BY SameReplaces DEF BringInv, Complete, Waits
<1>5. /\ CipherInv /\ act' = act /\ cipher' = cipher /\ log' = log => CipherInv'
      /\ CacheInv /\ store' = store /\ puts' = puts /\ log' = log /\ unopened' = unopened => CacheInv'
      /\ ReaderInv /\ act' = act /\ trust' = trust /\ reader' = reader => ReaderInv'
  BY DEF CipherInv, Opens, CacheInv, Keeps, ReaderInv
<1> QED BY <1>1, <1>2, <1>3, <1>4, <1>5

\* A reader that stays is no later than pins that stay or advance.
LEMMA ReaderKeeps ==
  ASSUME IInv, reader' = reader, TrustType',
         \A c \in Shared : trust'.pins[c] >= trust.pins[c],
         act'.at = "out" => act.at = "out"
  PROVE  ReaderInv'
<1>1. \A c \in Shared : reader[c].head \in Nat /\ trust.pins[c] \in Nat /\ trust'.pins[c] \in Nat
  BY Kinds, Bounds DEF IInv, Types, ReaderType, Reader, TrustType, Trust, Heads
<1> QED BY <1>1 DEF IInv, BringUpInv, ReaderInv

\* The pins a session starts with are no later than its readers are when all are unread.
LEMMA UnreadKeeps ==
  ASSUME TrustType', \A c \in Shared : reader'[c] = Unread
  PROVE  ReaderInv'
<1>1. \A c \in Shared : trust'.pins[c] \in Nat
  BY Kinds, Bounds DEF TrustType, Trust, Heads
<1> QED BY <1>1 DEF ReaderInv, Unread

(***************************************************************************)
(* The steps                                                               *)
(***************************************************************************)
LEMMA SamePins ==
  ASSUME IInv, reader' = reader, TrustType', trust'.pins = trust.pins,
         act'.at = "out" => act.at = "out"
  PROVE  ReaderInv'
<1>1. \A c \in Shared : trust'.pins[c] \in Nat
  BY Kinds, Bounds DEF TrustType, Trust, Heads
<1>2. \A c \in Shared : trust'.pins[c] >= trust.pins[c]
  BY <1>1
<1> QED BY <1>2, ReaderKeeps

LEMMA OwnerKnownKeeps == ASSUME IInv, OwnerKnown PROVE IInv'
<1>1. TrustType' /\ PinsInv' /\ trust'.pins = trust.pins
  BY DEF IInv, Types, OwnerKnown, TrustType, Trust, PinsInv, space
<1>2. ReaderInv'
  BY <1>1, SamePins DEF OwnerKnown
<1> QED BY <1>1, <1>2, Frames DEF IInv, Types, BringUpInv, OwnerKnown, space, session, replica

\* An event is one of the bounded number.
LEMMA Events ==
  ASSUME SpentInv, Event
  PROVE  /\ spent' \in [events : 0..MaxEvents, passes : 0..MaxPasses]
         /\ spent'.events = spent.events + 1
BY Bounds DEF SpentInv, Event

\* Objects that no other app changes stay within the bound.
LEMMA EditsKept ==
  ASSUME MetaType, SpentInv,
         \/ spent' = spent \/ Event
         \/ spent' \in [events : 0..MaxEvents, passes : 0..MaxPasses] /\ spent'.events >= spent.events,
         \A c \in Registry : meta'[c] # None =>
           /\ meta[c] # None /\ meta'[c].edits = meta[c].edits
           /\ meta'[c].plain = meta[c].plain \/ meta'[c].plain \in 0..meta[c].plain
  PROVE  SpentInv'
<1>1. \A c \in Registry : meta[c] # None => meta[c].edits \in Nat /\ meta[c].plain \in Nat
  BY Bounds DEF MetaType, Objects
<1>2. /\ spent' \in [events : 0..MaxEvents, passes : 0..MaxPasses]
      /\ spent'.events >= spent.events
  BY Events, Bounds DEF SpentInv
<1>3. spent.events \in Nat /\ spent'.events \in Nat
  BY <1>2, Bounds DEF SpentInv
<1>4. \A c \in Registry : meta'[c] # None =>
        /\ meta[c] # None /\ meta[c].edits <= spent.events /\ meta[c].plain <= spent.events
        /\ meta'[c].edits = meta[c].edits /\ meta'[c].plain \in Nat /\ meta'[c].plain <= meta[c].plain
  BY <1>1 DEF SpentInv
<1>5. \A c \in Registry : meta'[c] # None => meta'[c].edits <= spent'.events /\ meta'[c].plain <= spent'.events
  BY <1>1, <1>2, <1>3, <1>4
<1> QED BY <1>2, <1>5 DEF SpentInv

\* A collection that fails, with nothing fetched for it, disturbs no one.
LEMMA FailKeeps ==
  ASSUME IInv, UNCHANGED <<log, act, cipher, schema, meta, reader>>,
         NEW cs \in SUBSET Collections,
         \A c \in cs : col[c].at \in Working,
         col' \in [Collections -> Bring],
         \A c \in Collections \ cs : col'[c] = col[c],
         \A c \in cs : col'[c].at = "failed" /\ col'[c].cur = None /\ col'[c].hit,
         got' \in [Private -> Heads],
         \A c \in Private : got'[c] = 0 \/ (got'[c] = got[c] /\ act.at = "prepare") \/ c \notin cs,
         \A c \in Private : c \notin cs => got'[c] = got[c]
  PROVE  ColType' /\ GotType' /\ SettledInv' /\ PrepareInv' /\ MetaInv' /\ BringInv'
<1>1. ColType' /\ GotType'
  BY DEF ColType, GotType
<1>2. SettledInv'
  BY DEF IInv, Types, SettledInv, Settled, Working
<1>3. PrepareInv'
  BY Kinds DEF IInv, BringUpInv, PrepareInv
<1>4. MetaInv'
  BY Kinds DEF IInv, BringUpInv, MetaInv
<1>5. BringInv'
  <2> SUFFICES ASSUME act.at \in {"pass", "shared", "start", "up"} PROVE BringInv'
    BY DEF BringInv
  <2>1. \A c \in Collections : c \notin cs => (Complete(c)' <=> Complete(c))
    BY Kinds, SameReplaces DEF Complete
  <2>2. /\ \A c \in act.granted : c \in Registry \/ act.at # "pass" => col'[c].at # "idle"
        /\ act.at = "pass" => \A c \in Shared : col'[c].at = "idle"
        /\ act.at = "shared" => \A c \in Registry : col'[c].at \notin Working
    BY Kinds DEF IInv, Types, BringUpInv, BringInv, Working, ActType, Session
  <2>3. \A c \in Collections :
          /\ col'[c].at = "failed" => col'[c].hit
          /\ col'[c].at = "done" => col'[c].hit \/ Complete(c)'
    BY <2>1 DEF IInv, BringUpInv, BringInv
  <2>4. \A c \in Private :
          /\ Waits(c)' => got'[c] = 0
          /\ col'[c].at \in {"applied", "declared"} => ~Replaces(c)'
          /\ Replaces(c)' => col'[c].at \in {"read", "hook"}
    <3>1. \A c \in Private : c \in cs => ~Replaces(c)'
      BY HeldReplacesNotNext
    <3>2. \A c \in Private : c \notin cs => (Replaces(c)' <=> Replaces(c))
      BY SameReplaces
    <3> QED BY <3>1, <3>2, Kinds DEF IInv, BringUpInv, BringInv, Waits
  <2> QED BY <2>2, <2>3, <2>4 DEF BringInv
<1> QED BY <1>1, <1>2, <1>3, <1>4, <1>5

LEMMA OwnerFailsKeeps == ASSUME IInv, OwnerFails PROVE IInv'
<1> DEFINE cs == {c \in Collections : Waits(c)}
<1>1. TrustType' /\ PinsInv' /\ trust'.pins = trust.pins
  BY DEF IInv, Types, OwnerFails, TrustType, Trust, PinsInv, space
<1>2. SpentInv'
  BY EditsKept DEF IInv, Types, BringUpInv, OwnerFails, space
<1>3. col' \in [Collections -> Bring] /\ \A c \in Collections \ cs : col'[c] = col[c]
  BY Ends DEF IInv, Types, OwnerFails, ColType
<1>4. \A c \in cs : col'[c].at = "failed" /\ col'[c].cur = None /\ col'[c].hit /\ col[c].at \in Working
  BY Ends DEF IInv, Types, OwnerFails, Waits, Working
<1>5. \A c \in Private : got'[c] = 0 \/ (got'[c] = got[c] /\ act.at = "prepare") \/ c \notin cs
  <2>1. ASSUME NEW c \in Private, c \in cs, act.at # "prepare" PROVE got[c] = 0
    <3>1. act.at \in {"pass", "shared"}
      BY <2>1, Kinds DEF IInv, Types, SettledInv, Settled, Working, Waits, ActType, Session
    <3> QED BY <2>1, <3>1 DEF IInv, BringUpInv, BringInv
  <2> QED BY <2>1 DEF OwnerFails
<1>6. ColType' /\ GotType' /\ SettledInv' /\ PrepareInv' /\ MetaInv' /\ BringInv'
  <2>1. /\ got' = got /\ cs \in SUBSET Collections
        /\ UNCHANGED <<log, act, cipher, schema, meta, reader>>
    BY DEF OwnerFails, space, replica
  <2> HIDE DEF cs
  <2> QED BY <1>3, <1>4, <1>5, <2>1, FailKeeps DEF IInv, Types, GotType, OwnerFails, space, replica
<1>7. ReaderInv'
  BY <1>1, SamePins DEF OwnerFails
<1> QED BY <1>1, <1>2, <1>6, <1>7, Frames DEF IInv, Types, BringUpInv, OwnerFails, space, replica

LEMMA ReadFailsKeeps == ASSUME IInv, NEW c \in Collections, ReadFails(c) PROVE IInv'
<1>1. SpentInv'
  BY EditsKept DEF IInv, Types, BringUpInv, ReadFails, space
<1>2. /\ col' \in [Collections -> Bring] /\ \A d \in Collections \ {c} : col'[d] = col[d]
      /\ col'[c].at = "failed" /\ col'[c].cur = None /\ col'[c].hit
      /\ col[c].at \in Working
  BY Ends DEF IInv, Types, ReadFails, Working
<1>3. /\ got' \in [Private -> Heads]
      /\ \A d \in Private : IF d = c THEN got'[d] = 0 ELSE got'[d] = got[d]
  BY Bounds DEF IInv, Types, GotType, Heads, ReadFails, Withdrawn
<1>4. ColType' /\ GotType' /\ SettledInv' /\ PrepareInv' /\ MetaInv' /\ BringInv'
  <2>1. UNCHANGED <<log, act, cipher, schema, meta, reader>>
    BY DEF ReadFails, space, replica
  <2> DEFINE cs == {c}
  <2>2. /\ cs \in SUBSET Collections
        /\ \A d \in cs : col[d].at \in Working
        /\ \A d \in Collections \ cs : col'[d] = col[d]
        /\ \A d \in cs : col'[d].at = "failed" /\ col'[d].cur = None /\ col'[d].hit
    BY <1>2
  <2>3. /\ \A d \in Private : got'[d] = 0 \/ (got'[d] = got[d] /\ act.at = "prepare") \/ d \notin cs
        /\ \A d \in Private : d \notin cs => got'[d] = got[d]
    BY <1>3
  <2> HIDE DEF cs
  <2> QED BY <1>2, <1>3, <2>1, <2>2, <2>3, FailKeeps
<1>5. LogInv'
  BY <1>3, Kinds, HeadNames DEF IInv, Types, BringUpInv, LogInv, ReadFails, space, replica
<1> QED BY <1>1, <1>4, <1>5, Frames DEF IInv, Types, BringUpInv, ReadFails, space, replica

\* An answer to a read disturbs no other collection.
LEMMA AnswerKeeps ==
  ASSUME IInv, UNCHANGED <<log, act, cipher, schema, meta>>,
         NEW c \in Collections, col[c].at = "read", NEW b \in Bring, col' = [col EXCEPT ![c] = b],
         b.at \in {"read", "hook", "done"}, b.at = "done" => act.at # "pass",
         b.wants \subseteq col[c].wants,
         \/ b.cur = None
         \/ c \in Registry /\ b.cur = meta[c] /\ b.base = meta[c]
         \/ b.cur = col[c].cur /\ b.base = col[c].base /\ b.hit = col[c].hit,
         got' \in [Private -> Heads], \A d \in Private \ {c} : got'[d] = got[d],
         c \in Private => got'[c] = got[c] \/ "head" \notin b.wants,
         \A d \in Shared \ {c} : reader'[d] = reader[d],
         c \in Shared => reader'[c].head # 0
  PROVE  ColType' /\ GotType' /\ SettledInv' /\ PrepareInv' /\ MetaInv' /\ BringInv'
<1>1. ColType' /\ GotType'
  BY DEF IInv, Types, ColType, GotType
<1>2. /\ \A d \in Collections \ {c} : col'[d] = col[d]
      /\ col'[c] = b
  BY DEF IInv, Types, ColType
<1>3. act.at \in {"prepare", "pass", "shared"}
  BY DEF IInv, Types, SettledInv, Settled, Working, ActType, Session
<1>4. SettledInv'
  BY <1>3 DEF SettledInv
<1>5. PrepareInv'
  BY <1>2, Kinds DEF IInv, BringUpInv, PrepareInv
<1>6. MetaInv'
  <2>1. \A d \in Registry : meta[d] # None => meta[d].plain \in Nat
    BY Bounds DEF IInv, Types, MetaType, Objects
  <2>2. \A d \in Registry : d # c => col'[d] = col[d]
    BY <1>2, Kinds
  <2>3. c \in Registry /\ b.cur = meta[c] /\ b.cur # None => b.cur.plain <= meta[c].plain
    BY <2>1
  <2> QED BY <1>2, <2>2, <2>3 DEF IInv, BringUpInv, MetaInv
<1>7. BringInv'
  <2> SUFFICES ASSUME act.at \in {"pass", "shared"} PROVE BringInv'
    BY <1>3 DEF BringInv
  <2>0. \/ act.at = "pass" /\ c \in Registry
        \/ act.at = "shared" /\ c \in Shared
    BY Kinds DEF IInv, BringUpInv, BringInv, Working
  <2>1. /\ \A d \in act.granted : d \in Registry \/ act.at # "pass" => col'[d].at # "idle"
        /\ act.at = "pass" => \A d \in Shared : col'[d].at = "idle"
        /\ act.at = "shared" => \A d \in Registry : col'[d].at \notin Working
    BY <1>2, <2>0, Kinds DEF IInv, Types, BringUpInv, BringInv, Working, ActType, Session
  <2>2. \A d \in Collections \ {c} : Complete(d)' <=> Complete(d)
    BY Kinds, SameReplaces DEF Complete
  <2>3. c \in Shared => Complete(c)'
    BY Kinds DEF Complete
  <2>4. \A d \in Collections :
          /\ col'[d].at = "failed" => col'[d].hit
          /\ col'[d].at = "done" => col'[d].hit \/ Complete(d)'
    BY <1>2, <2>0, <2>2, <2>3, Kinds DEF IInv, BringUpInv, BringInv
  <2>5. \A d \in Private :
          /\ Waits(d)' => got'[d] = 0
          /\ col'[d].at \in {"applied", "declared"} => ~Replaces(d)'
          /\ Replaces(d)' => col'[d].at \in {"read", "hook"}
    <3>1. ASSUME NEW d \in Private, d # c
          PROVE  /\ Waits(d)' => got'[d] = 0
                 /\ col'[d].at \in {"applied", "declared"} => ~Replaces(d)'
                 /\ Replaces(d)' => col'[d].at \in {"read", "hook"}
      <4>1. col'[d] = col[d] /\ got'[d] = got[d] /\ (Replaces(d)' <=> Replaces(d))
        BY <1>2, <3>1, Kinds, SameReplaces
      <4> QED BY <3>1, <4>1 DEF IInv, BringUpInv, BringInv, Waits
    <3>2. c \in Private => col'[c].at \in {"read", "hook"} /\ (Waits(c)' => got'[c] = 0)
      BY <1>2, <2>0, Kinds DEF IInv, BringUpInv, BringInv, Waits
    <3> QED BY <3>1, <3>2
  <2> QED BY <2>1, <2>4, <2>5 DEF BringInv
<1> QED BY <1>1, <1>4, <1>5, <1>6, <1>7

LEMMA MetaReadKeeps == ASSUME IInv, NEW c \in Registry, MetaRead(c) PROVE IInv'
<1>1. PICK cur \in {meta[c], None} :
        /\ IF cur = meta[c] THEN UNCHANGED spent ELSE Event
        /\ col' = [col EXCEPT ![c] = [Answered(c, "meta") EXCEPT !.cur = cur, !.base = cur, !.hit = cur # meta[c]]]
  BY DEF MetaRead
<1> DEFINE b == [Answered(c, "meta") EXCEPT !.cur = cur, !.base = cur, !.hit = cur # meta[c]]
<1>2. SpentInv'
  BY <1>1, EditsKept DEF IInv, Types, BringUpInv, MetaRead, space
<1>3. /\ b \in Bring /\ b.cur = cur /\ b.base = cur /\ b.at \in {"read", "hook", "done"}
      /\ b.at = "done" => act.at # "pass"
      /\ b.wants \subseteq col[c].wants
  <2>1. cur \in Objects \cup {None} /\ c \in Collections /\ ColType /\ col[c].at = "read"
    BY Kinds DEF IInv, Types, MetaType, MetaRead
  <2> DEFINE a == Answered(c, "meta")
  <2>2. /\ a \in Bring /\ a.wants \subseteq col[c].wants /\ a.at \in {"read", "hook", "done"}
        /\ a.at = "done" => act.at # "pass"
    BY <2>1, Answers
  <2> HIDE DEF a
  <2> DEFINE a1 == [a EXCEPT !.cur = cur]
             a2 == [a1 EXCEPT !.base = cur]
  <2>3. a1 \in Bring /\ a1.cur = cur /\ a1.at = a.at /\ a1.wants = a.wants
    BY <2>1, <2>2 DEF Bring
  <2> HIDE DEF a1
  <2>4. a2 \in Bring /\ a2.cur = cur /\ a2.base = cur /\ a2.at = a.at /\ a2.wants = a.wants
    BY <2>1, <2>3 DEF Bring
  <2>5. [a2 EXCEPT !.hit = cur # meta[c]] = [a EXCEPT !.cur = cur, !.base = cur, !.hit = cur # meta[c]]
    BY DEF a1
  <2> HIDE DEF a2
  <2>6. LET r == [a2 EXCEPT !.hit = cur # meta[c]] IN
          r \in Bring /\ r.cur = cur /\ r.base = cur /\ r.at = a.at /\ r.wants = a.wants
    BY <2>4 DEF Bring
  <2> QED BY <2>2, <2>5, <2>6 DEF a
<1>4. /\ UNCHANGED <<log, act, cipher, schema, meta>> /\ c \in Collections /\ col[c].at = "read"
      /\ got' = got /\ reader' = reader /\ got \in [Private -> Heads] /\ c \notin Shared
    BY Kinds DEF IInv, Types, GotType, MetaRead, space, replica
<1>5. b.cur = None \/ (c \in Registry /\ b.cur = meta[c] /\ b.base = meta[c])
  BY <1>3
<1>6. ColType' /\ GotType' /\ SettledInv' /\ PrepareInv' /\ MetaInv' /\ BringInv'
  <2>1. col' = [col EXCEPT ![c] = b]
    BY <1>1
  <2> HIDE DEF b
  <2> QED BY <1>3, <1>4, <1>5, <2>1, AnswerKeeps
<1> QED BY <1>2, <1>6, Frames DEF IInv, Types, BringUpInv, MetaRead, space, replica

LEMMA ServedKeeps == ASSUME IInv, NEW c \in Collections, Served(c) PROVE IInv'
<1>1. PICK k \in Heads :
        /\ Serves(c, k) /\ SpendHead(c, k)
        /\ trust' = [trust EXCEPT !.pins[c] = k]
        /\ IF c \in Shared THEN UNCHANGED got /\ SharedOpened(c, k)
           ELSE /\ got' = [got EXCEPT ![c] = k] /\ UNCHANGED reader
                /\ col' = [col EXCEPT ![c] = Answered(c, "head")]
  BY DEF Served
<1> DEFINE b == Answered(c, "head")
<1>2. SpentInv'
  BY <1>1, EditsKept DEF IInv, Types, BringUpInv, Served, SpendHead, space
<1>3. /\ UNCHANGED <<act, cipher, schema, meta, log, store, puts, ctl, unopened>>
      /\ Waits(c) /\ col[c].at = "read" /\ ColType
  BY DEF Served, Waits, space, replica, IInv, Types
<1>4. /\ b \in Bring /\ b.at \in {"read", "hook", "done"}
      /\ b.at = "done" => act.at # "pass"
      /\ b.wants \subseteq col[c].wants /\ "head" \notin b.wants
      /\ b.cur = col[c].cur /\ b.base = col[c].base /\ b.hit = col[c].hit
  BY <1>3, Answers
<1>5. c \in Governed => k <= Len(log[c])
  BY <1>1, HeadNames, Bounds DEF Serves, Heads, IInv, Types, TrustType, Trust
<1>6. TrustType' /\ PinsInv'
  BY <1>1, <1>3, <1>5 DEF IInv, Types, TrustType, Trust, PinsInv
<1>10. \A d \in Shared : /\ trust.pins[d] \in Nat /\ trust'.pins[d] >= trust.pins[d]
                         /\ d = c => trust'.pins[d] = k
  <2>1. \A d \in Shared : trust.pins[d] \in Nat /\ d \in Governed
    BY Kinds, Bounds DEF IInv, Types, TrustType, Trust, Heads
  <2>2. c \in Shared => k >= trust.pins[c]
    BY <1>1, <2>1, HeadNames, Bounds DEF Serves, Heads, IInv, Types
  <2> QED BY <1>1, <2>1, <2>2 DEF IInv, Types, TrustType, Trust
<1>11. act.at # "out"
  BY <1>3 DEF IInv, Types, SettledInv, Settled, Working
<1> HIDE DEF b
<1>7. CASE c \notin Shared
  <2>1. /\ got' \in [Private -> Heads] /\ \A d \in Private \ {c} : got'[d] = got[d]
        /\ c \in Private => got'[c] = k
    BY <1>1, <1>7 DEF IInv, Types, GotType
  <2>2. reader' = reader /\ col' = [col EXCEPT ![c] = b]
    BY <1>1, <1>7 DEF b
  <2>3. ColType' /\ GotType' /\ SettledInv' /\ PrepareInv' /\ MetaInv' /\ BringInv'
    BY <1>3, <1>4, <1>7, <2>1, <2>2, AnswerKeeps
  <2>4. LogInv'
    BY <1>3, <1>5, <2>1, Kinds, Bounds DEF IInv, BringUpInv, LogInv, Heads
  <2>5. ReaderInv'
    BY <1>3, <1>6, <1>10, <2>2, ReaderKeeps
  <2> QED BY <1>2, <1>3, <1>6, <2>2, <2>3, <2>4, <2>5, Frames DEF IInv, Types, BringUpInv
<1>8. CASE c \in Shared /\ ~SharedBuilds(c, k)
  <2>1. reader' = reader /\ got' = got /\ col' = Fail(c)
    BY <1>1, <1>8 DEF SharedOpened
  <2>2. ColType' /\ GotType' /\ SettledInv' /\ PrepareInv' /\ MetaInv' /\ BringInv'
    <3> DEFINE cs == {c}
    <3>1. /\ cs \in SUBSET Collections
          /\ \A d \in cs : col[d].at \in Working
          /\ col' \in [Collections -> Bring]
          /\ \A d \in Collections \ cs : col'[d] = col[d]
          /\ \A d \in cs : col'[d].at = "failed" /\ col'[d].cur = None /\ col'[d].hit
      BY <1>3, <2>1, Ends DEF Working
    <3>2. /\ got' \in [Private -> Heads] /\ \A d \in Private : got'[d] = got[d] /\ d \notin cs
      BY <1>8, <2>1, Kinds DEF IInv, Types, GotType
    <3> HIDE DEF cs
    <3> QED BY <1>3, <2>1, <3>1, <3>2, FailKeeps
  <2>3. ReaderInv'
    BY <1>3, <1>6, <1>10, <2>1, ReaderKeeps
  <2> QED BY <1>2, <1>3, <1>6, <2>1, <2>2, <2>3, Frames DEF IInv, Types, BringUpInv
<1>9. CASE c \in Shared /\ SharedBuilds(c, k)
  <2>1. /\ reader' = [reader EXCEPT ![c].head = k] /\ got' = got /\ col' = [col EXCEPT ![c] = b]
        /\ k # 0
    BY <1>1, <1>9 DEF SharedOpened, SharedBuilds, Opens, b
  <2>2. ReaderType' /\ reader'[c].head = k /\ (reader'[c].missed # {} => reader'[c].refreshed)
        /\ \A d \in Shared \ {c} : reader'[d] = reader[d]
    BY <1>9, <2>1 DEF IInv, Types, BringUpInv, ReaderType, Reader, ReaderInv
  <2>4. ReaderInv'
    <3>1. k \in Nat /\ \A d \in Shared : reader[d].head \in Nat
      BY Bounds DEF IInv, Types, ReaderType, Reader, Heads
    <3>2. \A d \in Shared : trust'.pins[d] \in Nat
      BY <1>6, Kinds, Bounds DEF TrustType, Trust, Heads
    <3>3. \A d \in Shared : reader'[d].head <= trust'.pins[d]
      BY <1>9, <1>10, <2>2, <3>1, <3>2 DEF IInv, BringUpInv, ReaderInv
    <3> QED BY <1>3, <1>11, <2>2, <3>3 DEF IInv, BringUpInv, ReaderInv
  <2>3. ColType' /\ GotType' /\ SettledInv' /\ PrepareInv' /\ MetaInv' /\ BringInv'
    <3>1. got' \in [Private -> Heads] /\ c \notin Private /\ \A d \in Private \ {c} : got'[d] = got[d]
      BY <1>9, <2>1, Kinds DEF IInv, Types, GotType
    <3> QED BY <1>3, <1>4, <2>1, <2>2, <3>1, AnswerKeeps
  <2> QED BY <1>2, <1>3, <1>6, <2>1, <2>2, <2>3, <2>4, Frames DEF IInv, Types, BringUpInv
<1> QED BY <1>7, <1>8, <1>9

\* A collection that is idle is not at work, and a bring-up closed holds no head.
LEMMA ClosedKeeps ==
  ASSUME IInv, Closed, UNCHANGED log
  PROVE  /\ ActType' /\ ColType' /\ GotType' /\ TrustType' /\ CipherType' /\ ReaderType' /\ PinsInv'
         /\ SettledInv' /\ PrepareInv' /\ MetaInv' /\ BringInv' /\ CipherInv' /\ ReaderInv' /\ AcctInv'
<1>1. ActType' /\ GotType' /\ TrustType' /\ CipherType' /\ ReaderType'
  BY News DEF Closed, ActType, GotType, TrustType, CipherType, ReaderType
<1>2. ColType' /\ \A c \in Collections : col'[c].at = "idle" /\ col'[c].cur = None
  BY AllIdleIs DEF Closed, ColType
<1>3. PinsInv'
  BY News, HeadNames, Kinds DEF IInv, Types, Closed, PinsInv
<1>4. act'.at = "out"
  BY DEF Closed, Out
<1>5. SettledInv'
  BY <1>2 DEF SettledInv, Settled, Working
<1>6. PrepareInv' /\ BringInv' /\ CipherInv' /\ AcctInv'
  BY <1>4 DEF PrepareInv, BringInv, CipherInv, Rests, AcctInv
<1>7. MetaInv'
  BY <1>2, Kinds DEF MetaInv
<1>8. ReaderInv'
  BY <1>1, UnreadKeeps DEF Closed
<1> QED BY <1>1, <1>2, <1>3, <1>5, <1>6, <1>7, <1>8

\* Closed leaves no head but those of the store and of the cache writes.
LEMMA ClosedHeads ==
  ASSUME IInv, Closed, UNCHANGED log, store' = store \/ store' = Empty, puts' \subseteq puts
  PROVE  StoreType' /\ PutsType' /\ LogInv'
<1>1. StoreType' /\ PutsType'
  BY News DEF IInv, Types, StoreType, PutsType
<1>2. \A c \in Private : Len(log[c]) \in Nat
  BY HeadNames, Kinds DEF IInv, Types
<1>3. \A c \in Private : store'.heads[c] \in 0..Len(log[c])
  BY <1>2, News DEF IInv, BringUpInv, LogInv, Empty
<1>4. \A c \in Private : got'[c] = 0 /\ cipher'[c] = 0 /\ act'.cached[c] = 0
  BY News DEF Closed, Out
<1> QED BY <1>1, <1>2, <1>3, <1>4 DEF IInv, BringUpInv, LogInv

\* The cache keeps what it is excused, and what an older head opens to.
LEMMA CacheKeeps ==
  ASSUME CacheInv, UNCHANGED log, unopened \subseteq unopened',
         store' = store \/ store' = Empty, puts' \subseteq puts
  PROVE  CacheInv'
<1>1. \A a, heads : Keeps(a, heads) => Keeps(a, heads)'
  BY DEF Keeps
<1>2. Keeps(store.owner, store.heads)'
  BY News DEF CacheInv, Keeps, Empty
<1> QED BY <1>1, <1>2 DEF CacheInv

LEMMA ReadAllIs ==
  ASSUME StoreType, NEW a
  PROVE  ReadAll(a) \in [Private -> Heads]
BY News DEF StoreType, ReadAll

LEMMA PrepareKeeps ==
  ASSUME IInv, act.at = "out", NEW a \in Accounts, NEW kind \in {"login", "live", "expired"},
         NEW granted \in SUBSET Collections, Prepare(a, kind, granted)
  PROVE  IInv'
<1>1. PICK unread \in BOOLEAN :
        LET cached  == IF unread THEN NoHeads ELSE ReadAll(a)
            missing == IF kind = "expired" THEN {} ELSE {c \in Private \cap granted : cached[c] = 0}
            wanted  == [c \in Collections |-> {"head"}]
        IN /\ spent.passes < MaxPasses /\ (unread => spent.events < MaxEvents)
           /\ spent' = [spent EXCEPT !.passes = @ + 1, !.events = IF unread THEN @ + 1 ELSE @]
           /\ act' = [at |-> IF missing = {} THEN "open" ELSE "prepare",
                      acct |-> a, kind |-> kind, granted |-> granted, cached |-> cached]
           /\ col' = Begin(AllIdle, missing, wanted)
           /\ trust' = Asking(NewTrust, missing, wanted)
           /\ got' = NoHeads
           /\ UNCHANGED <<space, store, replica, reader, puts, ctl, unopened>>
  BY DEF Prepare
<1> DEFINE cached  == IF unread THEN NoHeads ELSE ReadAll(a)
           missing == IF kind = "expired" THEN {} ELSE {c \in Private \cap granted : cached[c] = 0}
           wanted  == [c \in Collections |-> {"head"}]
<1>2. cached \in [Private -> Heads] /\ \A c \in Private : cached[c] \in 0..Len(log[c])
  <2>1. ReadAll(a) \in [Private -> Heads] /\ NoHeads \in [Private -> Heads]
    BY ReadAllIs, News DEF IInv, Types
  <2>2. ASSUME NEW c \in Private
        PROVE  Len(log[c]) \in Nat /\ ReadAll(a)[c] \in 0..Len(log[c]) /\ NoHeads[c] = 0
    BY HeadNames, Kinds, News DEF IInv, Types, BringUpInv, LogInv, ReadAll
  <2> QED BY <2>1, <2>2
<1>3. missing \subseteq Private /\ \A c \in missing : cached[c] = 0
  OBVIOUS
<1>4. /\ act' = [at |-> IF missing = {} THEN "open" ELSE "prepare",
                 acct |-> a, kind |-> kind, granted |-> granted, cached |-> cached]
      /\ col' = Begin(AllIdle, missing, wanted) /\ trust' = Asking(NewTrust, missing, wanted)
      /\ got' = NoHeads
      /\ UNCHANGED <<log, meta, store, cipher, schema, reader, puts, ctl, unopened>>
  BY <1>1 DEF space, replica
<1> HIDE DEF cached, missing
<1>5. ActType' /\ act'.at \in {"open", "prepare"} /\ act'.cached = cached
  BY <1>2, <1>4 DEF ActType, Session
<1>6. /\ ColType'
      /\ \A c \in Collections :
           /\ c \notin missing => col'[c].at = "idle" /\ col'[c].cur = None
           /\ c \in missing => col'[c].at = "read" /\ col'[c].cur = None
  <2>1. \A c \in Collections : wanted[c] \subseteq {"head", "meta"} /\ wanted[c] # {}
    OBVIOUS
  <2> HIDE DEF wanted
  <2>2. /\ Begin(AllIdle, missing, wanted) \in [Collections -> Bring]
        /\ \A c \in Collections :
             /\ c \notin missing => Begin(AllIdle, missing, wanted)[c] = AllIdle[c]
             /\ c \in missing => Begin(AllIdle, missing, wanted)[c] =
                  [at |-> IF wanted[c] = {} THEN "hook" ELSE "read", wants |-> wanted[c],
                   cur |-> None, base |-> None, wrote |-> FALSE, hit |-> FALSE]
    BY <2>1, Begins, AllIdleIs
  <2>3. col' = Begin(AllIdle, missing, wanted)
    BY <1>4
  <2> QED BY <2>1, <2>2, <2>3, AllIdleIs DEF ColType
<1>7. GotType' /\ TrustType' /\ \A c \in Governed : trust'.pins[c] = 0
  BY <1>4, News, Asks DEF GotType, TrustType
<1>8. PinsInv'
  <2>1. \A c \in Governed : Len(log[c]) \in Nat
    BY HeadNames DEF IInv, Types
  <2>2. log' = log
    BY <1>4
  <2> QED BY <1>7, <2>1, <2>2 DEF PinsInv
<1>9. SettledInv'
  <2>1. act'.at = "open" <=> missing = {}
    BY <1>4
  <2> QED BY <1>5, <1>6, <2>1 DEF SettledInv, Settled, Working
<1>10. CtlInv' /\ PutInv'
  BY <1>4 DEF IInv, BringUpInv, CtlInv, OneCore, PutInv
<1>11. LogInv'
  BY <1>2, <1>4, <1>5, News, HeadNames, Kinds DEF IInv, Types, BringUpInv, LogInv
<1>12. SpentInv'
  <2>1. spent' \in [events : 0..MaxEvents, passes : 0..MaxPasses] /\ spent'.events >= spent.events
    <3> DEFINE passed == [spent EXCEPT !.passes = @ + 1]
    <3>1. /\ spent.passes < MaxPasses /\ (unread => spent.events < MaxEvents)
          /\ spent' = [passed EXCEPT !.events = IF unread THEN @ + 1 ELSE @]
      BY <1>1
    <3>2. /\ passed \in [events : 0..MaxEvents, passes : 0..MaxPasses]
          /\ passed.events = spent.events
      BY <3>1, Bounds DEF IInv, BringUpInv, SpentInv
    <3> HIDE DEF passed
    <3> QED BY <3>1, <3>2, Bounds
  <2> QED BY <1>4, <2>1, EditsKept DEF IInv, Types, BringUpInv
<1>13. PrepareInv'
  BY <1>3, <1>4, <1>5, <1>6, News, Kinds DEF PrepareInv
<1>14. MetaInv'
  BY <1>6, Kinds DEF MetaInv
<1>15. BringInv' /\ CipherInv'
  BY <1>5 DEF BringInv, CipherInv, Rests
<1>16. AcctInv'
  BY <1>4, ConstantsOK DEF AcctInv
<1>17. ReaderInv'
  <2>1. \A c \in Shared : reader[c].head = 0 /\ trust'.pins[c] = 0
    BY <1>7, Kinds DEF IInv, BringUpInv, ReaderInv
  <2>2. reader' = reader /\ act'.at # "out"
    BY <1>4, <1>5
  <2>3. \A c \in Shared : reader'[c].head <= trust'.pins[c]
    BY <2>1, <2>2
  <2> QED BY <2>2, <2>3 DEF IInv, BringUpInv, ReaderInv
<1> QED BY <1>4, <1>5, <1>6, <1>7, <1>8, <1>9, <1>10, <1>11, <1>12, <1>13, <1>14, <1>15, <1>16,
       <1>17, Frames DEF IInv, Types, BringUpInv

LEMMA LoginKeeps == ASSUME IInv, NEW a \in Accounts, Login(a) PROVE IInv'
<1>1. PICK granted \in WalletGrants : act.at = "out" /\ Prepare(a, "login", granted)
  BY DEF Login
<1>2. granted \in SUBSET Collections
  BY DEF WalletGrants, Collections
<1> QED BY <1>1, <1>2, PrepareKeeps

LEMMA RestoreKeeps == ASSUME IInv, Restore PROVE IInv'
<1>1. PICK kind \in {"live", "expired"}, granted \in StoredGrants :
        act.at = "out" /\ store.record # None /\ Prepare(store.record, kind, granted)
  BY DEF Restore
<1>2. granted \in SUBSET Collections /\ store.record \in Accounts
  BY <1>1 DEF StoredGrants, WalletGrants, Collections, IInv, Types, StoreType
<1> QED BY <1>1, <1>2, PrepareKeeps

LEMMA CompletedKeeps == ASSUME IInv, Completed PROVE IInv'
<1> DEFINE fetched == {c \in Private : got[c] # 0}
<1>1. /\ act.at = "prepare" /\ Settled
      /\ \/ Closed /\ UNCHANGED puts
         \/ /\ act' = [act EXCEPT !.at = IF fetched = {} THEN "open" ELSE "caching"]
            /\ puts' = IF fetched = {} THEN puts ELSE
                 puts \cup {[acct |-> act.acct, kind |-> "login", heads |-> got, base |-> None]}
            /\ UNCHANGED <<trust, col, got, replica, reader>>
      /\ unopened' = unopened \cup {<<act.acct, c, got[c]>> : c \in fetched}
      /\ UNCHANGED <<log, meta, store, ctl, spent>>
  BY DEF Completed, space
<1>2. CASE Closed /\ UNCHANGED puts
  <2>1. CtlInv' /\ PutInv'
    BY <1>1, <1>2 DEF IInv, BringUpInv, CtlInv, OneCore, PutInv
  <2> QED BY <1>1, <1>2, <2>1, ClosedKeeps, ClosedHeads, CacheKeeps, Frames DEF IInv, Types, BringUpInv
<1>3. CASE /\ act' = [act EXCEPT !.at = IF fetched = {} THEN "open" ELSE "caching"]
           /\ puts' = IF fetched = {} THEN puts ELSE
                puts \cup {[acct |-> act.acct, kind |-> "login", heads |-> got, base |-> None]}
           /\ UNCHANGED <<trust, col, got, replica, reader>>
  <2> DEFINE put == [acct |-> act.acct, kind |-> "login", heads |-> got, base |-> None]
  <2>1. /\ ActType' /\ act'.at = (IF fetched = {} THEN "open" ELSE "caching")
        /\ act'.acct = act.acct /\ act'.cached = act.cached
    BY <1>3 DEF IInv, Types, ActType, Session
  <2>2. put \in Put /\ put.kind = "login" /\ put.heads = got /\ put.acct = act.acct /\ put.base = None
    BY <1>1 DEF IInv, Types, BringUpInv, AcctInv, ActType, Session, GotType, Put
  <2> HIDE DEF put, fetched
  <2>3. puts' \subseteq puts \cup {put} /\ (puts' # puts => fetched # {})
    BY <1>3 DEF put
  <2>4. PutsType'
    BY <2>2, <2>3 DEF IInv, Types, PutsType
  <2>5. SettledInv' /\ CtlInv' /\ AcctInv'
    BY <1>1, <1>3, <2>1 DEF SettledInv, Settled, IInv, BringUpInv, CtlInv, OneCore, AcctInv
  <2>6. PutInv'
    BY <1>1, <2>1, <2>2, <2>3 DEF IInv, BringUpInv, PutInv
  <2>7. LogInv'
    <3>1. UNCHANGED <<log, store, got, cipher>>
      BY <1>1, <1>3 DEF replica
    <3>2. \A c \in Private : got[c] <= Len(log[c])
      <4>1. \A c \in Private : Len(log[c]) \in Nat
        BY HeadNames, Kinds DEF IInv, Types
      <4> QED BY <4>1 DEF IInv, BringUpInv, LogInv
    <3> QED BY <2>1, <2>2, <2>3, <3>1, <3>2 DEF IInv, BringUpInv, LogInv
  <2>8. PrepareInv'
    BY <1>1, <1>3, <2>1 DEF IInv, BringUpInv, PrepareInv
  <2>9. BringInv' /\ CipherInv'
    BY <2>1 DEF BringInv, CipherInv, Rests
  <2>10. CacheInv'
    <3>1. \A a, heads : Keeps(a, heads) => Keeps(a, heads)'
      BY <1>1 DEF Keeps
    <3>2. \A c \in Private : put.heads[c] # 0 => <<put.acct, c, put.heads[c]>> \in unopened'
      BY <1>1, <2>2 DEF fetched
    <3> QED BY <1>1, <2>2, <2>3, <3>1, <3>2 DEF IInv, BringUpInv, CacheInv, Keeps
  <2>11. ReaderInv'
    BY <1>1, <1>3, <2>1, SamePins DEF IInv, Types, TrustType
  <2> QED BY <1>1, <1>3, <2>1, <2>4, <2>5, <2>6, <2>7, <2>8, <2>9, <2>10, <2>11, Frames
      DEF IInv, Types, BringUpInv, replica
<1> QED BY <1>1, <1>2, <1>3

LEMMA PutReadsKeeps == ASSUME IInv, NEW p \in puts, PutReads(p) PROVE IInv'
<1> DEFINE q == [p EXCEPT !.base = ReadAll(p.acct)]
<1>1. /\ puts' = (puts \ {p}) \cup {q} /\ p \in Put
      /\ UNCHANGED <<log, meta, store, act, trust, col, got, cipher, schema, reader, ctl, spent, unopened>>
  BY DEF PutReads, space, session, replica, IInv, Types, PutsType
<1>2. q \in Put /\ q.kind = p.kind /\ q.acct = p.acct /\ q.heads = p.heads /\ q.base = ReadAll(p.acct)
  BY <1>1, ReadAllIs DEF Put, IInv, Types
<1> HIDE DEF q
<1>3. PutsType' /\ PutInv'
  BY <1>1, <1>2 DEF IInv, Types, BringUpInv, PutsType, PutInv
<1>4. LogInv'
  <2>1. \A c \in Private : ReadAll(p.acct)[c] <= Len(log[c])
    BY News, HeadNames, Kinds DEF IInv, Types, BringUpInv, LogInv, ReadAll
  <2> QED BY <1>1, <1>2, <2>1 DEF IInv, BringUpInv, LogInv
<1>5. CacheInv'
  <2>1. Keeps(p.acct, ReadAll(p.acct))
    BY News DEF IInv, BringUpInv, CacheInv, Keeps, ReadAll
  <2> QED BY <1>1, <1>2, <2>1 DEF IInv, BringUpInv, CacheInv, Keeps
<1> QED BY <1>1, <1>3, <1>4, <1>5, Frames DEF IInv, Types, BringUpInv

\* A put that ends lets the login that awaits it go on.
LEMMA AwaitedKeeps ==
  ASSUME IInv, NEW p \in puts, Awaited(p), puts' = puts \ {p},
         UNCHANGED <<log, meta, trust, col, got, cipher, schema, reader, ctl>>
  PROVE  /\ ActType' /\ PutsType' /\ SettledInv' /\ CtlInv' /\ PutInv' /\ AcctInv' /\ PrepareInv'
         /\ BringInv' /\ CipherInv' /\ ReaderInv' /\ act'.cached = act.cached
<1>1. CASE p.kind = "login"
  <2>1. act' = [act EXCEPT !.at = "open"] /\ act.at = "caching"
    BY <1>1 DEF Awaited, IInv, BringUpInv, PutInv
  <2>2. ActType' /\ act'.at = "open" /\ act'.acct = act.acct /\ act'.cached = act.cached
    BY <2>1 DEF IInv, Types, ActType, Session
  <2>3. PutsType' /\ PutInv'
    BY <1>1 DEF IInv, Types, BringUpInv, PutsType, PutInv
  <2>4. SettledInv' /\ CtlInv' /\ AcctInv' /\ PrepareInv'
    BY <2>1, <2>2 DEF IInv, Types, BringUpInv, SettledInv, Settled, CtlInv, OneCore, AcctInv, PrepareInv
  <2>5. BringInv' /\ CipherInv' /\ ReaderInv'
    BY <2>2, SamePins DEF BringInv, CipherInv, Rests, IInv, Types, TrustType
  <2> QED BY <2>2, <2>3, <2>4, <2>5
<1>2. CASE p.kind # "login"
  <2>1. act' = act
    BY <1>2 DEF Awaited
  <2>2. PutsType' /\ PutInv'
    BY <2>1 DEF IInv, Types, BringUpInv, PutsType, PutInv
  <2> QED BY <2>1, <2>2, Frames DEF IInv, Types, BringUpInv
<1> QED BY <1>1, <1>2

LEMMA PutSavesKeeps == ASSUME IInv, NEW p \in puts, PutSaves(p) PROVE IInv'
<1> DEFINE saved == [c \in Private |-> IF p.heads[c] # 0 THEN p.heads[c] ELSE p.base[c]]
<1>1. /\ p.base # None /\ puts' = puts \ {p} /\ p \in Put /\ Awaited(p)
      /\ store' = [store EXCEPT !.owner = p.acct, !.heads = saved]
      /\ UNCHANGED <<log, meta, trust, col, got, cipher, schema, reader, ctl, spent, unopened>>
  BY DEF PutSaves, space, replica, IInv, Types, PutsType
<1>2. saved \in [Private -> Heads]
  BY <1>1 DEF Put
<1> HIDE DEF saved
<1>3. StoreType' /\ store'.owner = p.acct /\ store'.heads = saved
  BY <1>1, <1>2 DEF IInv, Types, StoreType, Put
<1>4. /\ ActType' /\ PutsType' /\ SettledInv' /\ CtlInv' /\ PutInv' /\ AcctInv' /\ PrepareInv'
      /\ BringInv' /\ CipherInv' /\ ReaderInv' /\ act'.cached = act.cached
  BY <1>1, AwaitedKeeps
<1>5. LogInv'
  <2>1. \A c \in Private : saved[c] \in 0..Len(log[c])
    BY <1>1, <1>2, HeadNames, Kinds, Bounds DEF IInv, Types, BringUpInv, LogInv, saved, Heads
  <2> QED BY <1>1, <1>3, <1>4, <2>1 DEF IInv, BringUpInv, LogInv
<1>6. CacheInv'
  <2>1. Keeps(p.acct, saved)
    BY <1>1 DEF IInv, BringUpInv, CacheInv, Keeps, saved
  <2> QED BY <1>1, <1>3, <2>1 DEF IInv, BringUpInv, CacheInv, Keeps
<1> QED BY <1>1, <1>3, <1>4, <1>5, <1>6, Frames DEF IInv, Types, BringUpInv

LEMMA PutFailsKeeps == ASSUME IInv, NEW p \in puts, PutFails(p) PROVE IInv'
<1>1. /\ puts' = puts \ {p} /\ Awaited(p) /\ Event
      /\ UNCHANGED <<log, meta, store, trust, col, got, cipher, schema, reader, ctl, unopened>>
  BY DEF PutFails, space, replica
<1>2. SpentInv'
  BY <1>1, EditsKept DEF IInv, Types, BringUpInv
<1>3. /\ ActType' /\ PutsType' /\ SettledInv' /\ CtlInv' /\ PutInv' /\ AcctInv' /\ PrepareInv'
      /\ BringInv' /\ CipherInv' /\ ReaderInv' /\ act'.cached = act.cached
  BY <1>1, AwaitedKeeps
<1>4. LogInv'
  BY <1>1, <1>3 DEF IInv, BringUpInv, LogInv
<1>5. CacheInv'
  BY <1>1, CacheKeeps DEF IInv, BringUpInv
<1> QED BY <1>1, <1>2, <1>3, <1>4, <1>5, Frames DEF IInv, Types, BringUpInv

\* A pass starts with nothing cut short, every head it knows built into its cipher.
LEMMA StartPassKeeps ==
  ASSUME IInv, UNCHANGED <<log, meta, puts, unopened>>, act.at # "caching",
         NEW a \in Accounts, NEW kind \in {"login", "live", "expired"}, NEW granted \in SUBSET Collections,
         NEW known \in [Private -> Heads], NEW t \in Trust, StartPass(a, kind, granted, known, t),
         \A c \in Private : known[c] <= Len(log[c]), \A c \in Governed : t.pins[c] <= Len(log[c]),
         CipherType', \A c \in Private : known[c] \in {0, cipher'[c]} /\ cipher'[c] <= Len(log[c]),
         \A c \in Private : cipher'[c] # 0 => a \in log[c][cipher'[c]].to
  PROVE  /\ StoreType' /\ ActType' /\ ColType' /\ GotType' /\ TrustType' /\ CtlType' /\ PinsInv'
         /\ SettledInv' /\ CtlInv' /\ PutInv' /\ LogInv' /\ AcctInv' /\ PrepareInv' /\ MetaInv'
         /\ BringInv' /\ CipherInv' /\ CacheInv' /\ trust'.pins = t.pins /\ act'.at = "pass"
<1> DEFINE cs     == Registry \cap granted
           wants  == [c \in Collections |-> IF c \in Public THEN {"meta"}
                                            ELSE IF known[c] = 0 THEN {"head", "meta"} ELSE {}]
           wanted == [c \in Collections |-> IF c \in Shared THEN {} ELSE wants[c]]
<1>1. /\ act' = [act EXCEPT !.at = "pass", !.acct = a, !.kind = kind, !.granted = granted]
      /\ store' = [store EXCEPT !.record = a]
      /\ col' = Begin(AllIdle, cs, wanted) /\ trust' = Asking(t, cs, wanted)
      /\ got' = known /\ ctl' = NewCtl
  BY DEF StartPass
<1>2. \A c \in Collections : /\ wanted[c] \subseteq {"head", "meta"}
                             /\ c \in Private /\ "head" \in wanted[c] => known[c] = 0
  BY Kinds
<1> HIDE DEF wanted
<1>3. /\ ActType' /\ act'.at = "pass" /\ act'.acct = a /\ act'.granted = granted
      /\ act'.cached = act.cached
  BY <1>1 DEF IInv, Types, ActType, Session
<1>4. /\ StoreType' /\ store'.owner = store.owner /\ store'.heads = store.heads
  BY <1>1 DEF IInv, Types, StoreType
<1>5. ColType' /\ \A c \in Collections :
        /\ c \notin cs => col'[c].at = "idle" /\ col'[c].cur = None
        /\ c \in cs => /\ col'[c].at \in {"hook", "read"} /\ col'[c].cur = None
                       /\ col'[c].wants = wanted[c]
  <2>1. /\ Begin(AllIdle, cs, wanted) \in [Collections -> Bring]
        /\ \A c \in Collections :
             /\ c \notin cs => Begin(AllIdle, cs, wanted)[c] = AllIdle[c]
             /\ c \in cs => Begin(AllIdle, cs, wanted)[c] =
                  [at |-> IF wanted[c] = {} THEN "hook" ELSE "read", wants |-> wanted[c],
                   cur |-> None, base |-> None, wrote |-> FALSE, hit |-> FALSE]
    BY <1>2, Begins, AllIdleIs
  <2>2. col' = Begin(AllIdle, cs, wanted)
    BY <1>1
  <2> HIDE DEF cs, wants
  <2> QED BY <2>1, <2>2, AllIdleIs DEF ColType
<1>6. GotType' /\ CtlType'
  BY <1>1, News DEF GotType, CtlType
<1>7. TrustType' /\ PinsInv' /\ trust'.pins = t.pins
  <2>1. trust' \in Trust /\ trust'.pins = t.pins
    BY <1>1, Asks
  <2> QED BY <2>1 DEF TrustType, PinsInv
<1>8. CtlInv'
  <2>1. NewCtl.live = 0 /\ NewCtl.held = None /\ NewCtl.imports = {} /\ NewCtl.starting = {}
    BY DEF NewCtl, NoCtl
  <2> QED BY <1>1, <2>1 DEF CtlInv, OneCore
<1>9. PutInv' /\ SettledInv' /\ PrepareInv' /\ AcctInv'
  BY <1>3, ConstantsOK DEF IInv, BringUpInv, PutInv, SettledInv, PrepareInv, AcctInv
<1>10. LogInv'
  <2>1. \A c \in Private : known[c] \in 0..Len(log[c]) /\ cipher'[c] \in 0..Len(log[c])
    BY HeadNames, Kinds, Bounds DEF IInv, Types, Heads, CipherType
  <2> QED BY <1>1, <1>3, <1>4, <2>1 DEF IInv, BringUpInv, LogInv
<1>11. MetaInv'
  BY <1>5, Kinds DEF MetaInv
<1>12. BringInv'
  <2>1. /\ \A c \in granted : c \in Registry => col'[c].at # "idle"
        /\ \A c \in Shared : col'[c].at = "idle"
    BY <1>5, Kinds, ConstantsOK DEF Collections
  <2>2. \A c \in Collections : col'[c].at \in {"idle", "hook", "read"}
    BY <1>5
  <2>3. \A c \in Private : ~Replaces(c)'
    BY <1>1, HeldReplacesNotNext
  <2>4. \A c \in Private : Waits(c)' => got'[c] = 0
    <3>1. ASSUME NEW c \in Private, Waits(c)' PROVE got'[c] = 0
      <4>1. c \in Collections /\ c \in cs /\ "head" \in wanted[c]
        BY <1>5, <3>1, Kinds DEF Waits
      <4> QED BY <1>1, <1>2, <4>1
    <3> QED BY <3>1
  <2> QED BY <1>3, <2>1, <2>2, <2>3, <2>4, Kinds DEF BringInv
<1>13. CipherInv'
  BY <1>3 DEF CipherInv, Opens
<1>14. CacheInv'
  BY <1>4 DEF IInv, BringUpInv, CacheInv, Keeps
<1> QED BY <1>3, <1>4, <1>5, <1>6, <1>7, <1>8, <1>9, <1>10, <1>11, <1>12, <1>13, <1>14

LEMMA OpenKeeps == ASSUME IInv, Open PROVE IInv'
<1> DEFINE with == [c \in Private |-> IF act.cached[c] # 0 THEN act.cached[c] ELSE got[c]]
<1>1. /\ act.at = "open" /\ \A c \in Private : with[c] # 0 => Opens(c, with[c])
      /\ cipher' = with /\ schema' = {}
      /\ UNCHANGED <<log, meta, reader, puts, spent, unopened>>
  BY DEF Open, space
<1>2. /\ with \in [Private -> Heads]
      /\ \A c \in Private : got[c] \in {0, with[c]} /\ with[c] \in 0..Len(log[c])
            /\ got[c] <= Len(log[c])
  <2>1. act.cached \in [Private -> Heads]
    BY DEF IInv, Types, ActType, Session
  <2>2. got \in [Private -> Heads]
    BY DEF IInv, Types, GotType
  <2>3. \A c \in Private : /\ got[c] \in 0..Len(log[c]) /\ act.cached[c] \in 0..Len(log[c])
                           /\ got[c] # 0 => act.cached[c] = 0
    BY <1>1 DEF IInv, BringUpInv, LogInv, PrepareInv
  <2>4. \A c \in Private : Len(log[c]) \in Nat
    BY HeadNames, Kinds DEF IInv, Types
  <2> QED BY <2>1, <2>2, <2>3, <2>4
<1> HIDE DEF with
<1>3. CipherType'
  BY <1>1, <1>2 DEF CipherType
<1>4. CASE act.kind = "expired"
  <2>1. act' = [act EXCEPT !.at = "expired"] /\ UNCHANGED <<store, trust, col, got, ctl>>
    BY <1>4 DEF Open
  <2>2. ActType' /\ act'.at = "expired" /\ act'.acct = act.acct /\ act'.cached = act.cached
    BY <2>1 DEF IInv, Types, ActType, Session
  <2>3. SettledInv' /\ CtlInv' /\ PutInv' /\ AcctInv' /\ PrepareInv' /\ BringInv'
    BY <1>1, <2>1, <2>2
    DEF IInv, Types, BringUpInv, SettledInv, Settled, CtlInv, OneCore, PutInv, AcctInv, PrepareInv, BringInv
  <2>4. LogInv'
    BY <1>1, <1>2, <2>1, <2>2 DEF IInv, BringUpInv, LogInv
  <2>5. CipherInv'
    BY <1>1, <2>2 DEF CipherInv, Opens
  <2>6. ReaderInv'
    BY <1>1, <2>1, <2>2, SamePins DEF IInv, Types, TrustType
  <2> QED BY <1>1, <1>3, <2>1, <2>2, <2>3, <2>4, <2>5, <2>6, Frames DEF IInv, Types, BringUpInv
<1>5. CASE act.kind # "expired"
  <2>1. StartPass(act.acct, act.kind, act.granted, got, trust)
    BY <1>5 DEF Open
  <2>2. /\ act.acct \in Accounts /\ act.kind \in {"login", "live", "expired"}
        /\ act.granted \in SUBSET Collections /\ got \in [Private -> Heads] /\ trust \in Trust
    BY <1>1 DEF IInv, Types, BringUpInv, AcctInv, ActType, Session, GotType, TrustType
  <2>3. /\ \A c \in Private : got[c] <= Len(log[c])
        /\ \A c \in Governed : trust.pins[c] <= Len(log[c])
        /\ \A c \in Private : got[c] \in {0, cipher'[c]} /\ cipher'[c] <= Len(log[c])
        /\ \A c \in Private : cipher'[c] # 0 => act.acct \in log[c][cipher'[c]].to
    <3>1. \A c \in Private : Len(log[c]) \in Nat
      BY HeadNames, Kinds DEF IInv, Types
    <3> QED BY <1>1, <1>2, <3>1 DEF IInv, Types, PinsInv, Opens
  <2>4. /\ StoreType' /\ ActType' /\ ColType' /\ GotType' /\ TrustType' /\ CtlType' /\ PinsInv'
        /\ SettledInv' /\ CtlInv' /\ PutInv' /\ LogInv' /\ AcctInv' /\ PrepareInv' /\ MetaInv'
        /\ BringInv' /\ CipherInv' /\ CacheInv' /\ trust'.pins = trust.pins /\ act'.at = "pass"
    BY <1>1, <1>3, <2>1, <2>2, <2>3, StartPassKeeps
  <2>5. ReaderInv'
    BY <1>1, <2>4, SamePins
  <2> QED BY <1>1, <1>3, <2>4, <2>5, Frames DEF IInv, Types, BringUpInv
<1> QED BY <1>4, <1>5

LEMMA OpenFailsKeeps == ASSUME IInv, OpenFails PROVE IInv'
<1>1. /\ act.at = "open" /\ Closed /\ (store' = store \/ store' = Empty)
      /\ UNCHANGED <<log, meta, puts, ctl, spent, unopened>>
  BY DEF OpenFails, space
<1>2. CtlInv' /\ PutInv'
  BY <1>1 DEF IInv, BringUpInv, CtlInv, OneCore, PutInv
<1> QED BY <1>1, <1>2, ClosedKeeps, ClosedHeads, CacheKeeps, Frames DEF IInv, Types, BringUpInv

\* With no controller there is no start under way.
LEMMA NoCtlKeeps == ctl' = NoCtl => CtlType' /\ CtlInv'
<1>1. NoCtl.live = 0 /\ NoCtl.held = None /\ NoCtl.imports = {} /\ NoCtl.starting = {}
  BY DEF NoCtl
<1> QED BY <1>1, News DEF CtlType, CtlInv, OneCore

LEMMA ReconnectKeeps == ASSUME IInv, Reconnect PROVE IInv'
<1>1. PICK granted \in WalletGrants : StartPass(act.acct, "live", granted, NoHeads, NewTrust)
  BY DEF Reconnect
<1>2. /\ Resting /\ spent.passes < MaxPasses /\ spent' = [spent EXCEPT !.passes = @ + 1]
      /\ reader' = [c \in Shared |-> Unread]
      /\ UNCHANGED <<log, meta, cipher, schema, puts, unopened>>
  BY DEF Reconnect, space, replica
<1>3. /\ act.acct \in Accounts /\ granted \in SUBSET Collections
      /\ NoHeads \in [Private -> Heads] /\ NewTrust \in Trust
      /\ act.at # "caching"
  BY <1>2, News DEF IInv, Types, BringUpInv, AcctInv, ActType, Session, Resting, WalletGrants, Collections
<1>4. CipherType' /\ \A c \in Private : NoHeads[c] \in {0, cipher'[c]} /\ cipher'[c] <= Len(log[c])
  <2>1. CipherType'
    BY <1>2, Frames DEF IInv, Types
  <2>2. \A c \in Private : Len(log[c]) \in Nat /\ cipher[c] \in 0..Len(log[c]) /\ NoHeads[c] = 0
    BY HeadNames, Kinds, News DEF IInv, Types, BringUpInv, LogInv
  <2> QED BY <1>2, <2>1, <2>2
<1>5. /\ \A c \in Private : NoHeads[c] <= Len(log[c])
      /\ \A c \in Governed : NewTrust.pins[c] <= Len(log[c])
      /\ \A c \in Private : cipher'[c] # 0 => act.acct \in log[c][cipher'[c]].to
  <2>1. \A c \in Governed : Len(log[c]) \in Nat
    BY HeadNames DEF IInv, Types
  <2> QED BY <1>2, <2>1, News, Kinds DEF IInv, BringUpInv, CipherInv, Opens, Resting, Rests
<1>6. /\ StoreType' /\ ActType' /\ ColType' /\ GotType' /\ TrustType' /\ CtlType' /\ PinsInv'
      /\ SettledInv' /\ CtlInv' /\ PutInv' /\ LogInv' /\ AcctInv' /\ PrepareInv' /\ MetaInv'
      /\ BringInv' /\ CipherInv' /\ CacheInv'
  BY <1>1, <1>2, <1>3, <1>4, <1>5, StartPassKeeps
<1>7. ReaderType' /\ ReaderInv'
  BY <1>2, <1>6, News, UnreadKeeps DEF ReaderType
<1>8. SpentInv'
  BY <1>2, Bounds DEF IInv, BringUpInv, SpentInv
<1> QED BY <1>2, <1>4, <1>6, <1>7, <1>8, Frames DEF IInv, Types, BringUpInv

LEMMA LogoutKeeps == ASSUME IInv, Logout PROVE IInv'
<1>1. /\ act.at # "caching" /\ Closed /\ store' = Empty /\ ctl' = NoCtl
      /\ UNCHANGED <<log, meta, puts, spent, unopened>>
  BY DEF Logout, Resting, space
<1>2. PutInv'
  BY <1>1 DEF IInv, BringUpInv, PutInv
<1> QED BY <1>1, <1>2, ClosedKeeps, ClosedHeads, CacheKeeps, NoCtlKeeps, Frames
    DEF IInv, Types, BringUpInv

LEMMA CrashKeeps == ASSUME IInv, Crash PROVE IInv'
<1>1. /\ Closed /\ puts' = {} /\ ctl' = NoCtl
      /\ UNCHANGED <<log, meta, store, spent, unopened>>
  BY DEF Crash, space
<1>2. PutInv'
  BY <1>1 DEF PutInv
<1> QED BY <1>1, <1>2, ClosedKeeps, ClosedHeads, CacheKeeps, NoCtlKeeps, Frames
    DEF IInv, Types, BringUpInv

\* A hook moves one collection of the pass on, and disturbs no other.
LEMMA HookKeeps ==
  ASSUME IInv, UNCHANGED <<log, act, got, reader>>,
         NEW c \in Registry, col[c].at \in {"hook", "applied", "declared"},
         ColType', \A d \in Collections \ {c} : col'[d] = col[d],
         col'[c].at \in {"hook", "applied", "declared", "done"},
         \A d \in Registry \ {c} : meta'[d] = meta[d],
         \A d \in Private : d # c => cipher'[d] = cipher[d] /\ (d \in schema' <=> d \in schema),
         act.at = "pass" /\ c \in Private => ~Replaces(c)',
         act.at = "pass" /\ col'[c].at = "done" => col'[c].hit \/ Complete(c)'
  PROVE  SettledInv' /\ PrepareInv' /\ BringInv'
<1>1. c \in Collections /\ act.at \in {"prepare", "pass", "shared"}
  BY Kinds DEF IInv, Types, SettledInv, Settled, Working, ActType, Session
<1>2. SettledInv'
  BY <1>1 DEF SettledInv
<1>3. PrepareInv'
  <2>1. \A d \in Private : col'[d].at = "read" => col[d].at = "read"
    BY <1>1, Kinds
  <2> QED BY <2>1 DEF IInv, BringUpInv, PrepareInv
<1>4. BringInv'
  <2> SUFFICES ASSUME act.at \in {"pass", "shared"} PROVE BringInv'
    BY <1>1 DEF BringInv
  <2>1. act.at = "pass"
    BY DEF IInv, BringUpInv, BringInv, Working
  <2>2. \A d \in Collections \ {c} : Complete(d)' <=> Complete(d)
    BY Kinds, SameReplaces DEF Complete
  <2>3. /\ \A d \in act.granted : d \in Registry => col'[d].at # "idle"
        /\ \A d \in Shared : col'[d].at = "idle"
    <3>1. c \notin Shared
      BY Kinds
    <3> QED BY <1>1, <2>1, <3>1, Kinds DEF IInv, BringUpInv, BringInv
  <2>4. \A d \in Collections :
          /\ col'[d].at = "failed" => col'[d].hit
          /\ col'[d].at = "done" => col'[d].hit \/ Complete(d)'
    BY <1>1, <2>1, <2>2 DEF IInv, BringUpInv, BringInv
  <2>5. \A d \in Private :
          /\ Waits(d)' => got'[d] = 0
          /\ col'[d].at \in {"applied", "declared"} => ~Replaces(d)'
          /\ Replaces(d)' => col'[d].at \in {"read", "hook"}
    <3>1. ASSUME NEW d \in Private, d # c
          PROVE  /\ Waits(d)' => got'[d] = 0
                 /\ col'[d].at \in {"applied", "declared"} => ~Replaces(d)'
                 /\ Replaces(d)' => col'[d].at \in {"read", "hook"}
      <4>1. Replaces(d)' <=> Replaces(d)
        BY <3>1, SameReplaces
      <4> QED BY <2>1, <3>1, <4>1, Kinds DEF IInv, BringUpInv, BringInv, Waits
    <3>2. c \in Private => ~Waits(c)' /\ ~Replaces(c)'
      BY <2>1 DEF Waits
    <3> QED BY <3>1, <3>2
  <2> QED BY <2>1, <2>3, <2>4, <2>5 DEF BringInv
<1> QED BY <1>2, <1>3, <1>4

LEMMA ApplyKeeps == ASSUME IInv, NEW c \in Private, Apply(c) PROVE IInv'
<1>1. /\ col[c].at = "hook" /\ c \in Registry /\ c \in Collections
      /\ UNCHANGED <<log, meta, store, trust, schema, reader, puts, ctl, spent, unopened>>
  BY Kinds DEF Apply, space
<1>2. CASE Replaces(c) /\ ~Opens(c, got[c])
  <2>1. /\ col' = Fail(c) /\ got' = Withdrawn(c) /\ act' = act /\ cipher' = cipher
    BY <1>2 DEF Apply, Escapes
  <2>2. /\ got' \in [Private -> Heads]
        /\ \A d \in Private : IF d = c THEN got'[d] = 0 ELSE got'[d] = got[d]
    BY <2>1, Bounds DEF IInv, Types, GotType, Heads, Withdrawn
  <2>3. ColType' /\ GotType' /\ SettledInv' /\ PrepareInv' /\ MetaInv' /\ BringInv'
    <3> DEFINE cs == {c}
    <3>1. /\ cs \in SUBSET Collections
          /\ \A d \in cs : col[d].at \in Working
          /\ col' \in [Collections -> Bring]
          /\ \A d \in Collections \ cs : col'[d] = col[d]
          /\ \A d \in cs : col'[d].at = "failed" /\ col'[d].cur = None /\ col'[d].hit
      BY <1>1, <2>1, Ends DEF Working, IInv, Types
    <3>2. /\ \A d \in Private : got'[d] = 0 \/ (got'[d] = got[d] /\ act.at = "prepare") \/ d \notin cs
          /\ \A d \in Private : d \notin cs => got'[d] = got[d]
      BY <2>2
    <3>3. UNCHANGED <<log, act, cipher, schema, meta, reader>>
      BY <1>1, <2>1
    <3> HIDE DEF cs
    <3> QED BY <2>2, <3>1, <3>2, <3>3, FailKeeps
  <2>4. LogInv'
    BY <1>1, <2>1, <2>2, Kinds, HeadNames DEF IInv, Types, BringUpInv, LogInv
  <2> QED BY <1>1, <2>1, <2>3, <2>4, Frames DEF IInv, Types, BringUpInv
<1>3. CASE ~(Replaces(c) /\ ~Opens(c, got[c]))
  <2>1. /\ cipher' = (IF Replaces(c) THEN [cipher EXCEPT ![c] = got[c]] ELSE cipher)
        /\ act' = act /\ got' = got
        /\ col' = IF got[c] = 0 THEN Done(c, col[c].hit) ELSE [col EXCEPT ![c].at = "applied"]
    BY <1>3 DEF Apply
  <2>2. Replaces(c) => got[c] # 0 /\ Opens(c, got[c])
    BY <1>3 DEF Replaces
  <2>3. /\ CipherType' /\ \A d \in Private \ {c} : cipher'[d] = cipher[d]
        /\ cipher'[c] = IF Replaces(c) THEN got[c] ELSE cipher[c]
    <3>1. cipher \in [Private -> Heads] /\ got \in [Private -> Heads] /\ schema' = schema /\ schema \subseteq Private
      BY <1>1 DEF IInv, Types, CipherType, GotType
    <3>2. CASE Replaces(c)
      BY <2>1, <3>1, <3>2 DEF CipherType
    <3>3. CASE ~Replaces(c)
      BY <2>1, <3>1, <3>3 DEF CipherType
    <3> QED BY <3>2, <3>3
  <2>4. /\ ColType' /\ \A d \in Collections \ {c} : col'[d] = col[d]
        /\ \/ got[c] = 0 /\ col'[c].at = "done" /\ col'[c].cur = None
           \/ /\ col'[c].at = "applied"
              /\ col'[c].cur = col[c].cur /\ col'[c].base = col[c].base
    <3>1. CASE got[c] = 0
      <4>1. col[c].hit \in BOOLEAN
        BY <1>1 DEF IInv, Types, ColType, Bring
      <4> QED BY <1>1, <2>1, <3>1, <4>1, Ends DEF IInv, Types, ColType
    <3>2. CASE got[c] # 0
      BY <1>1, <2>1, <3>2 DEF IInv, Types, ColType, Bring
    <3> QED BY <3>1, <3>2
  <2>5. SettledInv' /\ PrepareInv' /\ BringInv'
    <3>2. ~Replaces(c)'
      <4>1. CASE Replaces(c)
        BY <2>1, <2>3, <4>1, HeldReplacesNotNext
      <4>2. CASE ~Replaces(c)
        BY <1>1, <2>1, <2>3, <4>2, SameReplaces
      <4> QED BY <4>1, <4>2
    <3>1. got[c] = 0 => Complete(c)'
      BY <2>1, <3>2, Kinds DEF Complete
    <3> QED BY <1>1, <2>1, <2>3, <2>4, <3>1, <3>2, HookKeeps
  <2>6. MetaInv'
    BY <1>1, <2>4, Kinds DEF IInv, BringUpInv, MetaInv
  <2>7. LogInv'
    BY <1>1, <2>1, <2>3 DEF IInv, BringUpInv, LogInv
  <2>8. CipherInv'
    BY <1>1, <2>1, <2>2, <2>3 DEF IInv, BringUpInv, CipherInv, Opens
  <2> QED BY <1>1, <2>1, <2>3, <2>4, <2>5, <2>6, <2>7, <2>8, Frames DEF IInv, Types, BringUpInv
<1> QED BY <1>2, <1>3

LEMMA DeclareBlindedKeeps == ASSUME IInv, NEW c \in Private, DeclareBlinded(c) PROVE IInv'
<1>1. /\ col[c].at = "applied" /\ c \in Registry /\ c \in Collections
      /\ UNCHANGED <<log, store, act, trust, got, cipher, schema, reader, puts, ctl, unopened>>
  BY Kinds DEF DeclareBlinded, replica
<1>2. /\ ColType' /\ \A d \in Collections \ {c} : col'[d] = col[d]
      /\ col'[c].at = "declared" /\ col'[c].cur = col[c].cur /\ col'[c].base = col[c].base
      /\ \/ /\ meta[c] # None /\ meta' = [meta EXCEPT ![c].indexes = "ours"] /\ spent' = spent
            /\ col'[c].wrote = (meta[c].indexes # "ours") /\ col'[c].hit = col[c].hit
         \/ meta' = meta /\ (spent' = spent \/ Event) /\ col'[c].hit
  <2> col \in [Collections -> Bring] /\ col[c] \in Bring
    BY <1>1 DEF IInv, Types, ColType
  <2>1. CASE /\ meta[c] # None
             /\ meta' = [meta EXCEPT ![c].indexes = "ours"] /\ UNCHANGED spent
             /\ col' = [col EXCEPT ![c] = [@ EXCEPT !.at = "declared", !.wrote = meta[c].indexes # "ours"]]
    BY <1>1, <2>1 DEF ColType, Bring
  <2>2. CASE /\ \/ meta[c] = None /\ UNCHANGED spent
                \/ Event
             /\ UNCHANGED meta
             /\ col' = [col EXCEPT ![c] = [@ EXCEPT !.at = "declared", !.hit = TRUE]]
    BY <1>1, <2>2 DEF ColType, Bring
  <2> QED BY <2>1, <2>2 DEF DeclareBlinded
<1>3. /\ MetaType' /\ \A d \in Registry \ {c} : meta'[d] = meta[d]
      /\ meta'[c] # None <=> meta[c] # None
      /\ meta[c] # None => /\ meta'[c].edits = meta[c].edits /\ meta'[c].plain = meta[c].plain
                           /\ meta'[c].indexes = (IF meta' = meta THEN meta[c].indexes ELSE "ours")
  <2>1. CASE meta[c] # None /\ meta' = [meta EXCEPT ![c].indexes = "ours"]
    BY <1>1, <2>1, ConstantsOK DEF IInv, Types, MetaType, Objects
  <2>2. CASE meta' = meta
    BY <2>2 DEF IInv, Types, MetaType
  <2> QED BY <1>2, <2>1, <2>2
<1>4. SpentInv'
  BY <1>2, <1>3, EditsKept DEF IInv, Types, BringUpInv
<1>5. MetaInv'
  <2>1. \A d \in Registry \ {c} : col'[d] = col[d] /\ meta'[d] = meta[d]
    BY <1>2, <1>3, Kinds
  <2>2. /\ col[c].cur # None => /\ meta[c] # None /\ col[c].base # None
                               /\ col[c].cur.plain <= meta[c].plain
        /\ col[c].cur # None => col[c].cur.indexes = meta[c].indexes
    BY <1>1 DEF IInv, BringUpInv, MetaInv
  <2>3. col'[c].cur # None => /\ meta'[c] # None /\ col'[c].base # None /\ col'[c].at # "idle"
                              /\ col'[c].cur.plain <= meta'[c].plain
    BY <1>2, <1>3, <2>2
  <2>4. ~col'[c].hit => /\ meta'[c] # None /\ meta'[c].indexes = "ours"
                        /\ col'[c].cur = None \/ col'[c].wrote \/ col'[c].cur.indexes = "ours"
    <3>1. SUFFICES ASSUME ~col'[c].hit
                   PROVE  /\ meta'[c] # None /\ meta'[c].indexes = "ours"
                          /\ col'[c].cur = None \/ col'[c].wrote \/ col'[c].cur.indexes = "ours"
      OBVIOUS
    <3>2. /\ meta[c] # None /\ meta' = [meta EXCEPT ![c].indexes = "ours"]
          /\ col'[c].wrote = (meta[c].indexes # "ours")
      BY <1>2, <3>1
    <3>3. meta'[c].indexes = "ours"
      BY <1>1, <3>2 DEF IInv, Types, MetaType, Objects
    <3> QED BY <1>2, <1>3, <2>2, <3>2, <3>3
  <2> QED BY <1>1, <1>2, <2>1, <2>3, <2>4, Kinds DEF IInv, BringUpInv, MetaInv
<1>6. SettledInv' /\ PrepareInv' /\ BringInv'
  <2>2. act.at = "pass" => ~Replaces(c)'
    BY <1>1, SameReplaces DEF IInv, BringUpInv, BringInv
  <2> QED BY <1>1, <1>2, <1>3, <2>2, HookKeeps
<1> QED BY <1>1, <1>2, <1>3, <1>4, <1>5, <1>6, Frames DEF IInv, Types, BringUpInv

LEMMA InstallKeeps == ASSUME IInv, NEW c \in Private, Install(c) PROVE IInv'
<1>1. /\ col[c].at = "declared" /\ c \in Registry /\ c \in Collections
      /\ UNCHANGED <<log, meta, store, act, trust, got, cipher, reader, puts, ctl, unopened>>
      /\ spent' = spent \/ Event
      /\ col[c].hit \in BOOLEAN
  BY Kinds DEF Install, space, IInv, Types, ColType, Bring
<1> DEFINE read == IF ReadAgain(c) THEN meta[c] ELSE col[c].cur
<1>2. PICK hit \in BOOLEAN :
        /\ col' = Done(c, hit)
        /\ \/ hit /\ schema' = schema
           \/ /\ hit = col[c].hit
              /\ schema' = IF read # None /\ read.indexes = "ours" THEN schema \cup {c} ELSE schema
  BY <1>1 DEF Install
<1>3. /\ ColType' /\ \A d \in Collections \ {c} : col'[d] = col[d]
      /\ col'[c].at = "done" /\ col'[c].cur = None /\ col'[c].hit = hit
  BY <1>1, <1>2, Ends DEF IInv, Types, ColType
<1>4. CipherType' /\ \A d \in Private : d # c => (d \in schema' <=> d \in schema)
  BY <1>1, <1>2 DEF IInv, Types, CipherType
<1>5. SpentInv'
  BY <1>1, EditsKept DEF IInv, Types, BringUpInv
<1>6. MetaInv'
  BY <1>1, <1>3, Kinds DEF IInv, BringUpInv, MetaInv
<1>7. SettledInv' /\ PrepareInv' /\ BringInv'
  <2>2. act.at = "pass" => ~Replaces(c)'
    BY <1>1, SameReplaces DEF IInv, BringUpInv, BringInv
  <2>3. act.at = "pass" => col'[c].hit \/ Complete(c)'
    <3> SUFFICES ASSUME act.at = "pass", ~hit PROVE Complete(c)'
      BY <1>3
    <3>1. /\ meta[c] # None /\ meta[c].indexes = "ours"
          /\ col[c].cur = None \/ col[c].wrote \/ col[c].cur.indexes = "ours"
      BY <1>1, <1>2 DEF IInv, BringUpInv, MetaInv
    <3>2. read # None /\ read.indexes = "ours"
      BY <3>1 DEF ReadAgain
    <3>3. c \in schema'
      BY <1>2, <3>2
    <3> QED BY <1>1, <2>2, <3>3, Kinds DEF Complete
  <2> QED BY <1>1, <1>3, <1>4, <2>2, <2>3, HookKeeps
<1> QED BY <1>1, <1>3, <1>4, <1>5, <1>6, <1>7, Frames DEF IInv, Types, BringUpInv

LEMMA DeclareIndexesKeeps == ASSUME IInv, NEW c \in Public, DeclareIndexes(c) PROVE IInv'
<1>1. /\ col[c].at = "hook" /\ c \in Registry /\ c \in Collections /\ c \notin Private
      /\ UNCHANGED <<log, store, act, trust, got, cipher, schema, reader, puts, ctl, unopened>>
      /\ spent' = spent \/ Event
  BY Kinds DEF DeclareIndexes, replica
<1>2. /\ col[c] \in Bring /\ meta[c] \in Objects \cup {None}
      /\ meta[c] # None => meta[c].plain \in Nat /\ meta[c].edits \in Nat
  BY <1>1, Bounds DEF IInv, Types, ColType, MetaType, Objects
<1>3. col[c].cur # None => /\ meta[c] # None /\ col[c].base # None
                           /\ col[c].cur \in Objects /\ col[c].cur.plain \in 0..meta[c].plain
  <2>1. SUFFICES ASSUME col[c].cur # None
                 PROVE  /\ meta[c] # None /\ col[c].base # None
                        /\ col[c].cur \in Objects /\ col[c].cur.plain \in 0..meta[c].plain
    OBVIOUS
  <2>2. meta[c] # None /\ col[c].base # None /\ col[c].cur.plain <= meta[c].plain
    BY <1>1, <2>1 DEF IInv, BringUpInv, MetaInv
  <2>3. col[c].cur \in Objects /\ col[c].cur.plain \in Nat
    BY <1>2, <2>1, Bounds DEF Bring, Objects
  <2> QED BY <1>2, <2>2, <2>3
\* A write that lost its race is rebased.
<1>4. CASE meta' = meta /\ col[c].cur # None /\ col' = [col EXCEPT ![c].base = meta[c]]
  <2>1. /\ ColType' /\ \A d \in Collections \ {c} : col'[d] = col[d]
        /\ col'[c].at = "hook" /\ col'[c].cur = col[c].cur /\ col'[c].base = meta[c]
        /\ col'[c].hit = col[c].hit
    BY <1>1, <1>2, <1>4 DEF IInv, Types, ColType, Bring
  <2>2. SpentInv'
    BY <1>1, <1>4, EditsKept DEF IInv, Types, BringUpInv
  <2>3. MetaInv'
    BY <1>1, <1>3, <1>4, <2>1, Kinds DEF IInv, BringUpInv, MetaInv
  <2>4. SettledInv' /\ PrepareInv' /\ BringInv'
    BY <1>1, <1>4, <2>1, HookKeeps
  <2> QED BY <1>1, <1>4, <2>1, <2>2, <2>3, <2>4, Frames DEF IInv, Types, BringUpInv
\* Else the hook is over.
<1>5. ASSUME NEW hit \in BOOLEAN, col' = Done(c, hit),
             \A d \in Registry \ {c} : meta'[d] = meta[d], MetaType',
             meta'[c] # None <=> meta[c] # None,
             meta[c] # None => meta'[c].edits = meta[c].edits,
             meta[c] # None => meta'[c].plain = meta[c].plain \/ meta'[c].plain \in 0..meta[c].plain,
             ~hit => meta'[c] # None /\ meta'[c].indexes = "ours"
      PROVE  IInv'
  <2>1. /\ ColType' /\ \A d \in Collections \ {c} : col'[d] = col[d]
        /\ col'[c].at = "done" /\ col'[c].cur = None /\ col'[c].hit = hit
    BY <1>1, <1>5, Ends DEF IInv, Types, ColType
  <2>2. SpentInv'
    <3>1. \A d \in Registry : meta'[d] # None =>
            /\ meta[d] # None /\ meta'[d].edits = meta[d].edits
            /\ meta'[d].plain = meta[d].plain \/ meta'[d].plain \in 0..meta[d].plain
      BY <1>1, <1>5
    <3> QED BY <1>1, <3>1, EditsKept DEF IInv, Types, BringUpInv
  <2>3. MetaInv'
    BY <1>1, <1>5, <2>1, Kinds DEF IInv, BringUpInv, MetaInv
  <2>4. SettledInv' /\ PrepareInv' /\ BringInv'
    <3>1. ~hit => Complete(c)'
      BY <1>1, <1>5, Kinds DEF Complete
    <3> QED BY <1>1, <1>5, <2>1, <3>1, HookKeeps
  <2> QED BY <1>1, <1>5, <2>1, <2>2, <2>3, <2>4, Frames DEF IInv, Types, BringUpInv
\* It wrote nothing.
<1>6. ASSUME NEW hit \in BOOLEAN, col' = Done(c, hit), meta' = meta,
             ~hit => meta[c] # None /\ meta[c].indexes = "ours"
      PROVE  IInv'
  <2>1. MetaType'
    BY <1>6, Frames DEF IInv, Types
  <2> QED BY <1>1, <1>5, <1>6, <2>1
\* It wrote over the object it is pinned to.
<1>7. CASE /\ col[c].cur # None /\ col[c].base = meta[c]
           /\ meta' = [meta EXCEPT ![c] = Merged(c)] /\ col' = Done(c, FALSE)
  <2> DEFINE m1 == [col[c].base EXCEPT !.plain = col[c].cur.plain]
  <2>1. col[c].base \in Objects /\ col[c].cur.plain \in 0..MaxEvents /\ meta[c] # None
    BY <1>2, <1>3, <1>7 DEF Objects
  <2>2. m1 \in Objects /\ m1.edits = meta[c].edits /\ m1.plain = col[c].cur.plain
    BY <1>7, <2>1 DEF Objects
  <2>3. Merged(c) = [m1 EXCEPT !.indexes = "ours"]
    BY DEF Merged
  <2> HIDE DEF m1
  <2>4. /\ Merged(c) \in Objects /\ Merged(c).edits = meta[c].edits
        /\ Merged(c).plain = col[c].cur.plain /\ Merged(c).indexes = "ours"
    BY <2>2, <2>3 DEF Objects
  <2>5. Merged(c) # None
    BY <2>4, ConstantsOK
  <2>6. /\ MetaType' /\ meta'[c] = Merged(c) /\ \A d \in Registry \ {c} : meta'[d] = meta[d]
    BY <1>1, <1>7, <2>4 DEF IInv, Types, MetaType
  <2>7. meta'[c].plain \in 0..meta[c].plain
    BY <1>3, <1>7, <2>4, <2>6
  <2> QED BY <1>1, <1>5, <1>7, <2>1, <2>4, <2>5, <2>6, <2>7
<1>8. CASE /\ ~(col[c].cur # None /\ col[c].cur.indexes # "ours")
           /\ col' = Done(c, col[c].cur = None \/ col[c].hit) /\ meta' = meta
  <2> DEFINE hit == col[c].cur = None \/ col[c].hit
  <2>1. hit \in BOOLEAN
    BY <1>2 DEF Bring
  <2>2. ~hit => meta[c] # None /\ meta[c].indexes = "ours"
    BY <1>1, <1>8 DEF IInv, BringUpInv, MetaInv
  <2>3. col' = Done(c, hit) /\ meta' = meta
    BY <1>8
  <2> HIDE DEF hit
  <2> QED BY <1>6, <2>1, <2>2, <2>3
<1>9. CASE col' = Done(c, TRUE) /\ meta' = meta
  BY <1>6, <1>9
<1> QED BY <1>4, <1>7, <1>8, <1>9 DEF DeclareIndexes

LEMMA AfterPassKeeps == ASSUME IInv, AfterPass PROVE IInv'
<1> DEFINE cs     == Shared \cap act.granted
           wanted == [c \in Collections |-> {"head"}]
           put    == [acct |-> act.acct, kind |-> "boot", heads |-> got, base |-> None]
<1>1. /\ act.at = "pass" /\ Settled
      /\ act' = [act EXCEPT !.at = "shared"]
      /\ puts' = puts \cup {put}
      /\ col' = Begin(col, cs, wanted) /\ trust' = Asking(trust, cs, wanted)
      /\ unopened' = unopened \cup {<<act.acct, c, got[c]>> : c \in {d \in Private : Postdates(d, got[d])}}
      /\ UNCHANGED <<log, meta, store, got, cipher, schema, reader, ctl, spent>>
  BY DEF AfterPass, space, replica
<1>2. /\ ActType' /\ act'.at = "shared" /\ act'.acct = act.acct /\ act'.cached = act.cached
      /\ act'.granted = act.granted
  BY <1>1 DEF IInv, Types, ActType, Session
<1>3. put \in Put /\ put.kind = "boot" /\ put.heads = got /\ put.acct = act.acct /\ put.base = None
  BY <1>1 DEF IInv, Types, BringUpInv, AcctInv, ActType, Session, GotType, Put
<1>4. ColType' /\ \A c \in Collections : /\ c \notin cs => col'[c] = col[c]
                                         /\ c \in cs => col'[c].at = "read"
  <2>1. \A c \in Collections : wanted[c] \subseteq {"head", "meta"} /\ wanted[c] # {}
    OBVIOUS
  <2> HIDE DEF cs, wanted
  <2>2. /\ Begin(col, cs, wanted) \in [Collections -> Bring]
        /\ \A c \in Collections :
             /\ c \notin cs => Begin(col, cs, wanted)[c] = col[c]
             /\ c \in cs => Begin(col, cs, wanted)[c] =
                  [at |-> IF wanted[c] = {} THEN "hook" ELSE "read", wants |-> wanted[c],
                   cur |-> None, base |-> None, wrote |-> FALSE, hit |-> FALSE]
    BY <2>1, Begins DEF IInv, Types, ColType
  <2>3. col' = Begin(col, cs, wanted)
    BY <1>1
  <2> QED BY <2>1, <2>2, <2>3 DEF ColType
<1>5. TrustType' /\ PinsInv' /\ trust'.pins = trust.pins
  <2>1. trust' \in Trust /\ trust'.pins = trust.pins
    BY <1>1, Asks DEF IInv, Types, TrustType
  <2> QED BY <1>1, <2>1 DEF IInv, Types, PinsInv, TrustType
<1> HIDE DEF put, wanted
<1>6. PutsType' /\ PutInv'
  BY <1>1, <1>3 DEF IInv, Types, BringUpInv, PutsType, PutInv
<1>7. SettledInv' /\ CtlInv' /\ AcctInv' /\ PrepareInv'
  BY <1>1, <1>2 DEF SettledInv, IInv, BringUpInv, CtlInv, OneCore, AcctInv, PrepareInv
<1>8. LogInv'
  <2>1. \A c \in Private : got[c] <= Len(log[c])
    <3>1. \A c \in Private : Len(log[c]) \in Nat
      BY HeadNames, Kinds DEF IInv, Types
    <3> QED BY <3>1 DEF IInv, BringUpInv, LogInv
  <2> QED BY <1>1, <1>2, <1>3, <2>1 DEF IInv, BringUpInv, LogInv
<1>9. MetaInv'
  <2>1. \A c \in Registry : col'[c] = col[c]
    BY <1>4, Kinds
  <2> QED BY <1>1, <2>1 DEF IInv, BringUpInv, MetaInv
<1>10. BringInv'
  <2>1. \A c \in act'.granted : col'[c].at # "idle"
    <3>1. act.granted \subseteq Collections
      BY DEF IInv, Types, ActType, Session
    <3>2. ASSUME NEW c \in act.granted PROVE col'[c].at # "idle"
      <4>1. CASE c \in Shared
        BY <1>4, <3>1, <4>1
      <4>2. CASE c \notin Shared
        BY <1>1, <1>4, <3>1, <4>2, Kinds DEF IInv, BringUpInv, BringInv
      <4> QED BY <4>1, <4>2
    <3> QED BY <1>2, <3>2
  <2>2. \A c \in Registry : col'[c].at \notin Working
    BY <1>1, <1>4, Kinds DEF Settled
  <2>3. \A c \in Collections : Complete(c)' <=> Complete(c)
    BY <1>1, SameReplaces DEF Complete
  <2>4. \A c \in Collections :
          /\ col'[c].at = "failed" => col'[c].hit
          /\ col'[c].at = "done" => col'[c].hit \/ Complete(c)'
    BY <1>1, <1>4, <2>3 DEF IInv, BringUpInv, BringInv
  <2>5. \A c \in Private : col'[c] = col[c]
    BY <1>4, Kinds
  <2>6. \A c \in Private :
          /\ Waits(c)' => got'[c] = 0
          /\ col'[c].at \in {"applied", "declared"} => ~Replaces(c)'
          /\ Replaces(c)' => col'[c].at \in {"read", "hook"}
    BY <1>1, <2>5, SameReplaces DEF IInv, BringUpInv, BringInv, Waits
  <2> QED BY <1>2, <2>1, <2>2, <2>4, <2>6 DEF BringInv
<1>11. CipherInv'
  BY <1>1, <1>2 DEF IInv, BringUpInv, CipherInv, Opens, Rests
<1>12. CacheInv'
  <2>1. ASSUME NEW c \in Private, got[c] # 0
        PROVE  act.acct \in log[c][got[c]].to \/ <<act.acct, c, got[c]>> \in unopened'
    <3>1. ~Replaces(c)
      BY <1>1, Kinds DEF IInv, BringUpInv, BringInv, Settled, Working
    <3>2. cipher[c] # 0 /\ (log[c][cipher[c]] = log[c][got[c]] \/ Postdates(c, got[c]))
      BY <2>1, <3>1 DEF Replaces, HoldsOrPostdates
    <3>3. CASE Postdates(c, got[c])
      BY <1>1, <3>3
    <3>4. CASE log[c][cipher[c]] = log[c][got[c]]
      BY <1>1, <3>2, <3>4 DEF IInv, BringUpInv, CipherInv, Opens, Rests
    <3> QED BY <3>2, <3>3, <3>4
  <2>2. \A a, heads : Keeps(a, heads) => Keeps(a, heads)'
    BY <1>1 DEF Keeps
  <2> QED BY <1>1, <1>3, <2>1, <2>2 DEF IInv, BringUpInv, CacheInv, Keeps
<1>13. ReaderInv'
  BY <1>1, <1>2, <1>5, SamePins
<1> QED BY <1>1, <1>2, <1>4, <1>5, <1>6, <1>7, <1>8, <1>9, <1>10, <1>11, <1>12, <1>13, Frames
    DEF IInv, Types, BringUpInv

\* Once all is settled, the bring-up waits only for its controller, then rests.
LEMMA StartMoves ==
  ASSUME IInv, NEW x \in {"start", "up", "failed"}, act' = [act EXCEPT !.at = x],
         act.at \in {"shared", "start"}, Settled,
         UNCHANGED <<log, meta, store, trust, col, got, cipher, schema, puts>>,
         x # "failed" => UNCHANGED reader
  PROVE  /\ ActType' /\ SettledInv' /\ PutInv' /\ LogInv' /\ AcctInv' /\ PrepareInv' /\ BringInv'
         /\ CipherInv' /\ (x # "failed" => ReaderInv')
<1>1. /\ ActType' /\ act'.at = x /\ act'.acct = act.acct /\ act'.cached = act.cached
      /\ act'.granted = act.granted
  BY DEF IInv, Types, ActType, Session
<1>2. SettledInv' /\ PutInv' /\ AcctInv' /\ PrepareInv'
  BY <1>1 DEF SettledInv, Settled, IInv, BringUpInv, PutInv, AcctInv, PrepareInv
<1>3. LogInv'
  BY <1>1 DEF IInv, BringUpInv, LogInv
<1>4. BringInv'
  <2> SUFFICES ASSUME x # "failed" PROVE BringInv'
    BY <1>1 DEF BringInv
  <2>1. \A c \in Collections : Complete(c)' <=> Complete(c)
    BY SameReplaces DEF Complete
  <2>2. \A c \in Private : (Waits(c)' <=> Waits(c)) /\ (Replaces(c)' <=> Replaces(c))
    BY SameReplaces DEF Waits
  <2> QED BY <1>1, <2>1, <2>2 DEF IInv, BringUpInv, BringInv
<1>5. CipherInv'
  BY <1>1 DEF IInv, BringUpInv, CipherInv, Opens, Rests
<1>6. x # "failed" => ReaderInv'
  BY <1>1, SamePins DEF IInv, Types, TrustType
<1> QED BY <1>1, <1>2, <1>3, <1>4, <1>5, <1>6

LEMMA StartCallKeeps == ASSUME IInv, NEW who \in Calls, StartCall(who) PROVE IInv'
<1>1. /\ ctl' = IF Startable THEN [ctl EXCEPT !.imports = @ \cup {who}] ELSE ctl
      /\ UNCHANGED <<log, meta, store, trust, col, got, cipher, schema, reader, puts, unopened>>
      /\ spent' = spent \/ Event
  BY DEF StartCall, space, replica
<1>2. SpentInv'
  BY <1>1, EditsKept DEF IInv, Types, BringUpInv
<1>3. CtlType'
  BY <1>1 DEF IInv, Types, CtlType, Ctl
<1>4. CASE who = "session"
  <2>1. act.at = "shared" /\ Settled /\ act' = [act EXCEPT !.at = IF Startable THEN "start" ELSE "up"]
    BY <1>4 DEF StartCall
  <2>2. (IF Startable THEN "start" ELSE "up") \in {"start", "up", "failed"}
        /\ (IF Startable THEN "start" ELSE "up") # "failed"
    OBVIOUS
  <2>3. /\ ActType' /\ SettledInv' /\ PutInv' /\ LogInv' /\ AcctInv' /\ PrepareInv' /\ BringInv'
        /\ CipherInv' /\ ReaderInv'
    BY <1>1, <2>1, <2>2, StartMoves
  <2>4. CtlInv'
    <3>1. CASE Startable
      <4>1. act'.at = "start"
        BY <2>1, <3>1 DEF IInv, Types, ActType, Session
      <4> QED BY <1>1, <1>4, <2>1, <3>1, <4>1 DEF IInv, Types, BringUpInv, CtlInv, OneCore, CtlType, Ctl
    <3>2. CASE ~Startable
      BY <1>1, <2>1, <3>2 DEF IInv, BringUpInv, CtlInv, OneCore
    <3> QED BY <3>1, <3>2
  <2> QED BY <1>1, <1>2, <1>3, <2>3, <2>4, Frames DEF IInv, Types, BringUpInv
<1>5. CASE who # "session"
  <2>1. act' = act /\ who \notin ctl.imports \cup ctl.starting
    BY <1>5 DEF StartCall
  <2>2. CtlInv'
    BY <1>1, <1>5, <2>1 DEF IInv, Types, BringUpInv, CtlInv, OneCore, CtlType, Ctl
  <2> QED BY <1>1, <1>2, <1>3, <2>1, <2>2, Frames DEF IInv, Types, BringUpInv
<1> QED BY <1>4, <1>5

\* A start that returns to the bring-up lets it rest.
LEMMA ReturnsKeeps ==
  ASSUME IInv, NEW who \in ctl.imports \cup ctl.starting, Returns(who),
         UNCHANGED <<log, meta, store, trust, col, got, cipher, schema, puts, reader>>
  PROVE  /\ ActType' /\ SettledInv' /\ PutInv' /\ LogInv' /\ AcctInv' /\ PrepareInv' /\ BringInv'
         /\ CipherInv' /\ ReaderInv' /\ (who # "session" => act' = act)
<1>1. CASE who = "session"
  <2>1. act.at = "start" /\ Settled /\ act' = [act EXCEPT !.at = "up"]
    BY <1>1 DEF IInv, Types, BringUpInv, CtlInv, SettledInv, Returns
  <2> QED BY <1>1, <2>1, StartMoves
<1>2. CASE who # "session"
  <2>1. act' = act
    BY <1>2 DEF Returns
  <2> QED BY <2>1, Frames DEF IInv, Types, BringUpInv
<1> QED BY <1>1, <1>2

LEMMA ImportLandsKeeps == ASSUME IInv, NEW who \in Calls, ImportLands(who) PROVE IInv'
<1>1. /\ who \in ctl.imports
      /\ UNCHANGED <<log, meta, store, trust, col, got, cipher, schema, reader, puts, spent, unopened>>
      /\ ctl \in Ctl
  BY DEF ImportLands, space, replica, IInv, Types, CtlType
<1>2. CASE StillStartable
  <2> DEFINE k1 == [ctl EXCEPT !.imports = @ \ {who}]
             k2 == [k1 EXCEPT !.held = who]
             k3 == [k2 EXCEPT !.live = @ + 1]
  <2>1. act' = act /\ ctl' = [k3 EXCEPT !.starting = @ \cup {who}]
    BY <1>2 DEF ImportLands
  <2>2. ctl.live = 0 /\ ctl.held = None /\ ~ctl.stopped
    BY <1>2 DEF StillStartable, IInv, BringUpInv, CtlInv, OneCore
  <2>3. /\ k1 \in Ctl /\ k1.imports = ctl.imports \ {who} /\ k1.live = 0
        /\ k1.starting = ctl.starting /\ k1.stopped = ctl.stopped
    BY <1>1, <2>2 DEF Ctl
  <2> HIDE DEF k1
  <2>4. /\ k2 \in Ctl /\ k2.imports = k1.imports /\ k2.live = 0 /\ k2.held = who
        /\ k2.starting = ctl.starting /\ k2.stopped = ctl.stopped
    BY <2>3 DEF Ctl
  <2> HIDE DEF k2
  <2>5. /\ k3 \in Ctl /\ k3.imports = k1.imports /\ k3.live = 1 /\ k3.held = who
        /\ k3.starting = ctl.starting /\ k3.stopped = ctl.stopped
    BY <2>4 DEF Ctl
  <2> HIDE DEF k3
  <2>6. /\ CtlType' /\ ctl'.imports = ctl.imports \ {who} /\ ctl'.live = 1 /\ ctl'.held = who
        /\ ctl'.starting = ctl.starting \cup {who} /\ ctl'.stopped = ctl.stopped
    BY <2>1, <2>3, <2>5 DEF Ctl, CtlType
  <2>7. CtlInv'
    <3>1. ctl.starting = {}
      BY <2>2, ConstantsOK DEF IInv, Types, CtlType, Ctl, BringUpInv, CtlInv, Calls
    <3>2. who # None
      BY ConstantsOK
    <3> QED BY <1>1, <2>1, <2>2, <2>6, <3>1, <3>2 DEF IInv, BringUpInv, CtlInv, OneCore
  <2> QED BY <1>1, <2>1, <2>6, <2>7, Frames DEF IInv, Types, BringUpInv
<1>3. CASE ~StillStartable
  <2>1. Returns(who) /\ ctl' = [ctl EXCEPT !.imports = @ \ {who}]
    BY <1>3 DEF ImportLands
  <2>2. /\ CtlType' /\ ctl'.imports = ctl.imports \ {who} /\ ctl'.live = ctl.live /\ ctl'.held = ctl.held
        /\ ctl'.starting = ctl.starting /\ ctl'.stopped = ctl.stopped
    BY <1>1, <2>1 DEF Ctl, CtlType
  <2>3. /\ ActType' /\ SettledInv' /\ PutInv' /\ LogInv' /\ AcctInv' /\ PrepareInv' /\ BringInv'
        /\ CipherInv' /\ ReaderInv' /\ (who # "session" => act' = act)
    BY <1>1, <2>1, ReturnsKeeps
  <2>4. CtlInv'
    BY <1>1, <2>2, <2>3 DEF IInv, BringUpInv, CtlInv, OneCore
  <2> QED BY <1>1, <2>2, <2>3, <2>4, Frames DEF IInv, Types, BringUpInv
<1> QED BY <1>2, <1>3

LEMMA CoreStartedKeeps == ASSUME IInv, NEW who \in Calls, CoreStarted(who) PROVE IInv'
<1>1. /\ who \in ctl.starting /\ ctl' = [ctl EXCEPT !.starting = @ \ {who}] /\ Returns(who)
      /\ UNCHANGED <<log, meta, store, trust, col, got, cipher, schema, reader, puts, spent, unopened>>
  BY DEF CoreStarted, space, replica
<1>2. /\ CtlType' /\ ctl'.imports = ctl.imports /\ ctl'.live = ctl.live /\ ctl'.held = ctl.held
      /\ ctl'.starting = ctl.starting \ {who} /\ ctl'.stopped = ctl.stopped
  BY <1>1 DEF IInv, Types, Ctl, CtlType
<1>3. /\ ActType' /\ SettledInv' /\ PutInv' /\ LogInv' /\ AcctInv' /\ PrepareInv' /\ BringInv'
      /\ CipherInv' /\ ReaderInv' /\ (who # "session" => act' = act)
  BY <1>1, ReturnsKeeps
<1>4. CtlInv'
  BY <1>1, <1>2, <1>3 DEF IInv, BringUpInv, CtlInv, OneCore
<1> QED BY <1>1, <1>2, <1>3, <1>4, Frames DEF IInv, Types, BringUpInv

LEMMA CoreFailsKeeps == ASSUME IInv, NEW who \in Calls, CoreFails(who) PROVE IInv'
<1>1. /\ who \in ctl.starting /\ ctl \in Ctl /\ who # None
      /\ UNCHANGED <<log, meta, store, trust, col, got, cipher, schema, puts, unopened>>
  BY ConstantsOK DEF CoreFails, space, replica, IInv, Types, CtlType
<1>2. SpentInv'
  BY <1>1, EditsKept DEF IInv, Types, BringUpInv, CoreFails
<1>3. /\ ctl.live \in {0, 1} /\ (ctl.held = who => ctl.live = 1)
      /\ (~ctl.stopped => ctl.held = who) /\ (ctl.stopped => ctl.held = None)
      /\ ctl.held # who => ctl.live = 0
  BY <1>1 DEF IInv, BringUpInv, CtlInv, OneCore
<1>4. /\ CtlType' /\ ctl'.imports = ctl.imports /\ ctl'.live = 0 /\ ctl'.held = None
      /\ ctl'.starting = ctl.starting \ {who} /\ ctl'.stopped = ctl.stopped
  <2> DEFINE k1 == [ctl EXCEPT !.starting = @ \ {who}]
             k2 == [k1 EXCEPT !.held = None]
  <2>1. ctl' = [k2 EXCEPT !.live = IF ctl.held = who THEN @ - 1 ELSE @]
    BY DEF CoreFails
  <2>2. /\ k1 \in Ctl /\ k1.imports = ctl.imports /\ k1.live = ctl.live
        /\ k1.starting = ctl.starting \ {who} /\ k1.stopped = ctl.stopped
    BY <1>1 DEF Ctl
  <2> HIDE DEF k1
  <2>3. /\ k2 \in Ctl /\ k2.imports = ctl.imports /\ k2.live = ctl.live /\ k2.held = None
        /\ k2.starting = ctl.starting \ {who} /\ k2.stopped = ctl.stopped
    BY <2>2 DEF Ctl
  <2> HIDE DEF k2
  <2> QED BY <1>3, <2>1, <2>3 DEF Ctl, CtlType
<1>5. /\ ActType' /\ SettledInv' /\ PutInv' /\ LogInv' /\ AcctInv' /\ PrepareInv' /\ BringInv'
      /\ CipherInv' /\ ReaderType' /\ ReaderInv' /\ (who # "session" => act' = act)
  <2>1. CASE who = "session"
    <3>1. act.at = "start" /\ Settled
      BY <1>1, <2>1 DEF IInv, Types, BringUpInv, CtlInv, SettledInv
    <3>2. act' = [act EXCEPT !.at = "failed"] /\ reader' = [c \in Shared |-> Unread]
      BY <2>1 DEF CoreFails
    <3>3. ReaderType' /\ ReaderInv'
      BY <1>1, <3>2, News, UnreadKeeps DEF ReaderType, IInv, Types, TrustType
    <3> QED BY <1>1, <2>1, <3>1, <3>2, <3>3, StartMoves
  <2>2. CASE who # "session"
    <3>1. act' = act /\ reader' = reader
      BY <2>2 DEF CoreFails
    <3> QED BY <1>1, <3>1, Frames DEF IInv, Types, BringUpInv
  <2> QED BY <2>1, <2>2
<1>6. CtlInv'
  BY <1>1, <1>3, <1>4, <1>5 DEF IInv, BringUpInv, CtlInv, OneCore
<1> QED BY <1>1, <1>2, <1>4, <1>5, <1>6, Frames DEF IInv, Types, BringUpInv

LEMMA StopKeeps == ASSUME IInv, Stop PROVE IInv'
<1>1. /\ ctl' = Stopped(ctl) /\ ctl \in Ctl
      /\ UNCHANGED <<log, meta, store, act, trust, col, got, cipher, schema, reader, puts, unopened>>
  BY DEF Stop, space, session, replica, IInv, Types, CtlType
<1>2. SpentInv'
  BY <1>1, EditsKept DEF IInv, Types, BringUpInv, Stop
<1>3. ctl.live = IF ctl.held = None THEN 0 ELSE 1
  BY DEF IInv, BringUpInv, CtlInv, OneCore
<1>4. /\ CtlType' /\ ctl'.imports = ctl.imports /\ ctl'.live = 0 /\ ctl'.held = None
      /\ ctl'.starting = ctl.starting /\ ctl'.stopped
  <2> DEFINE k1 == [ctl EXCEPT !.stopped = TRUE]
             k2 == [k1 EXCEPT !.held = None]
  <2>1. ctl' = [k2 EXCEPT !.live = IF ctl.held = None THEN @ ELSE @ - 1]
    BY <1>1 DEF Stopped
  <2>2. /\ k1 \in Ctl /\ k1.imports = ctl.imports /\ k1.live = ctl.live
        /\ k1.starting = ctl.starting /\ k1.stopped
    BY <1>1 DEF Ctl
  <2> HIDE DEF k1
  <2>3. /\ k2 \in Ctl /\ k2.imports = ctl.imports /\ k2.live = ctl.live /\ k2.held = None
        /\ k2.starting = ctl.starting /\ k2.stopped
    BY <2>2 DEF Ctl
  <2> HIDE DEF k2
  <2> QED BY <1>3, <2>1, <2>3 DEF Ctl, CtlType
<1>5. CtlInv'
  BY <1>1, <1>4 DEF IInv, BringUpInv, CtlInv, OneCore
<1> QED BY <1>1, <1>2, <1>4, <1>5, Frames DEF IInv, Types, BringUpInv

\* A listing takes the reader to a later head, or leaves it.
LEMMA Listings ==
  ASSUME IInv, NEW c \in Shared, List(c)
  PROVE  /\ ReaderType' /\ ReaderInv' /\ \A d \in Shared : reader'[d].head >= reader[d].head
         /\ \/ trust' = trust
            \/ \E k \in Heads : Serves(c, k) /\ trust' = [trust EXCEPT !.pins[c] = k]
         /\ spent' = spent \/ Event
<1>1. PICK shelf \in SUBSET (1..Epochs(c, Len(log[c]))) :
     IF Refreshes(c, shelf)
     THEN \E k \in Heads, failed \in BOOLEAN :
            /\ Serves(c, k) /\ (failed => k = Len(log[c]))
            /\ IF failed THEN Event ELSE SpendHead(c, k)
            /\ LET head == IF ~failed /\ Opens(c, k) THEN k ELSE reader[c].head IN
               /\ reader' = [reader EXCEPT ![c] = [head |-> head, refreshed |-> TRUE,
                               missed |-> Unlisted(c, head, shelf)]]
               /\ trust' = IF failed THEN trust ELSE [trust EXCEPT !.pins[c] = k]
     ELSE /\ reader' = [reader EXCEPT ![c].missed = Unlisted(c, reader[c].head, shelf)]
          /\ UNCHANGED <<trust, spent>>
  BY DEF List
<1>2. /\ reader \in [Shared -> Reader] /\ trust \in Trust
      /\ \A d \in Shared : reader[d].head \in Nat /\ trust.pins[d] \in Nat
      /\ \A d \in Shared : reader[d].head <= trust.pins[d] /\ (reader[d].missed # {} => reader[d].refreshed)
      /\ act'.at = "up" /\ c \in Governed
  <2>1. reader \in [Shared -> Reader] /\ trust \in Trust /\ c \in Governed /\ Shared \subseteq Governed
    BY Kinds DEF IInv, Types, ReaderType, TrustType
  <2>2. \A d \in Shared : reader[d].head \in Nat /\ trust.pins[d] \in Nat
    BY <2>1, Bounds DEF Reader, Heads, Trust
  <2>3. act'.at = "up"
    BY DEF List
  <2> QED BY <2>1, <2>2, <2>3 DEF IInv, BringUpInv, ReaderInv
<1>3. \A head : Unlisted(c, head, shelf) \in SUBSET Nat
  <2>1. Len(log[c]) \in Nat /\ Len(log[c]) \in 0..Len(log[c])
    BY <1>2, HeadNames DEF IInv, Types
  <2>2. Epochs(c, Len(log[c])) \in Nat
    BY <1>2, <2>1, HeadEpochs DEF IInv, Types
  <2>3. shelf \subseteq Nat
    BY <2>2
  <2> QED BY <2>3 DEF Unlisted
<1>4. CASE Refreshes(c, shelf)
  <2>1. PICK k \in Heads, failed \in BOOLEAN :
            /\ Serves(c, k) /\ (failed => k = Len(log[c]))
            /\ IF failed THEN Event ELSE SpendHead(c, k)
            /\ LET head == IF ~failed /\ Opens(c, k) THEN k ELSE reader[c].head IN
               /\ reader' = [reader EXCEPT ![c] = [head |-> head, refreshed |-> TRUE,
                               missed |-> Unlisted(c, head, shelf)]]
               /\ trust' = IF failed THEN trust ELSE [trust EXCEPT !.pins[c] = k]
    BY <1>1, <1>4
  <2> DEFINE head == IF ~failed /\ Opens(c, k) THEN k ELSE reader[c].head
             r    == [head |-> head, refreshed |-> TRUE, missed |-> Unlisted(c, head, shelf)]
  <2>2. k \in Nat /\ k >= trust.pins[c]
    <3>1. Len(log[c]) \in Nat
      BY <1>2, HeadNames DEF IInv, Types
    <3> QED BY <1>2, <2>1, <3>1, Bounds DEF Serves, Heads
  <2>3. head \in Heads /\ head \in Nat /\ head >= reader[c].head /\ (failed => head = reader[c].head)
        /\ head <= k
    <3>1. reader[c].head \in Heads
      BY <1>2 DEF Reader
    <3> QED BY <1>2, <2>1, <2>2, <3>1
  <2>5. reader' = [reader EXCEPT ![c] = r]
    BY <2>1
  <2>6. trust' = IF failed THEN trust ELSE [trust EXCEPT !.pins[c] = k]
    BY <2>1
  <2>7. spent' = spent \/ Event
    BY <2>1 DEF SpendHead
  <2> HIDE DEF head
  <2>8. r \in Reader /\ r.refreshed /\ r.head = head
    BY <1>3, <2>3 DEF Reader
  <2> HIDE DEF r
  <2>9. ReaderType' /\ reader'[c] = r /\ \A d \in Shared \ {c} : reader'[d] = reader[d]
    BY <1>2, <2>5, <2>8 DEF ReaderType
  <2>10. \A d \in Shared : reader'[d].head >= reader[d].head
    BY <1>2, <2>3, <2>8, <2>9
  <2>11. trust'.pins[c] = (IF failed THEN trust.pins[c] ELSE k)
         /\ \A d \in Shared \ {c} : trust'.pins[d] = trust.pins[d]
    BY <1>2, <2>6, Kinds DEF Trust
  <2>12. \A d \in Shared : reader'[d].head <= trust'.pins[d]
    BY <1>2, <2>3, <2>8, <2>9, <2>11
  <2>13. ReaderInv'
    BY <1>2, <2>8, <2>9, <2>12 DEF ReaderInv
  <2> QED BY <2>1, <2>6, <2>7, <2>9, <2>10, <2>13
<1>5. CASE ~Refreshes(c, shelf)
  <2> DEFINE missed == Unlisted(c, reader[c].head, shelf)
  <2>1. reader' = [reader EXCEPT ![c].missed = missed] /\ trust' = trust /\ spent' = spent
    BY <1>1, <1>5
  <2>2. missed \in SUBSET Nat /\ (missed # {} => reader[c].refreshed)
    BY <1>3, <1>5 DEF Refreshes
  <2> HIDE DEF missed
  <2>3. ReaderType' /\ \A d \in Shared : reader'[d].head = reader[d].head
    BY <1>2, <2>1, <2>2 DEF ReaderType, Reader
  <2>4. \A d \in Shared : reader'[d].missed # {} => reader'[d].refreshed
    BY <1>2, <2>1, <2>2 DEF Reader
  <2>5. ReaderInv'
    BY <1>2, <2>1, <2>3, <2>4 DEF ReaderInv
  <2> QED BY <1>2, <2>1, <2>3, <2>5
<1> QED BY <1>4, <1>5

LEMMA ListKeeps == ASSUME IInv, NEW c \in Shared, List(c) PROVE IInv'
<1>1. /\ act.at = "up" /\ reader[c].head # 0 /\ c \in Governed
      /\ UNCHANGED <<log, meta, store, act, col, got, cipher, schema, puts, ctl, unopened>>
  BY Kinds DEF List, space, replica
<1>2. /\ ReaderType' /\ ReaderInv' /\ \A d \in Shared : reader'[d].head >= reader[d].head
      /\ \/ trust' = trust
         \/ \E k \in Heads : Serves(c, k) /\ trust' = [trust EXCEPT !.pins[c] = k]
      /\ spent' = spent \/ Event
  BY Listings
<1>3. SpentInv'
  BY <1>1, <1>2, EditsKept DEF IInv, Types, BringUpInv
<1>4. TrustType' /\ PinsInv'
  <2>1. CASE trust' = trust
    BY <1>1, <2>1, Frames DEF IInv, Types
  <2>2. ASSUME NEW k \in Heads, Serves(c, k), trust' = [trust EXCEPT !.pins[c] = k]
        PROVE  TrustType' /\ PinsInv'
    <3>1. k <= Len(log[c])
      BY <1>1, <2>2, HeadNames, Bounds DEF Serves, Heads, IInv, Types, TrustType, Trust
    <3> QED BY <1>1, <2>2, <3>1 DEF IInv, Types, TrustType, Trust, PinsInv
  <2> QED BY <1>2, <2>1, <2>2
<1>5. BringInv'
  <2>1. \A d \in Shared : reader[d].head # 0 => reader'[d].head # 0
    <3>1. \A d \in Shared : reader[d].head \in Nat /\ reader'[d].head \in Nat
      BY <1>2, Bounds DEF IInv, Types, ReaderType, Reader, Heads
    <3> QED BY <1>2, <3>1
  <2>2. \A d \in Collections : Complete(d) => Complete(d)'
    BY <1>1, <2>1, Kinds, SameReplaces DEF Complete
  <2>3. \A d \in Private : (Waits(d)' <=> Waits(d)) /\ (Replaces(d)' <=> Replaces(d))
    BY <1>1, SameReplaces DEF Waits
  <2> QED BY <1>1, <2>2, <2>3 DEF IInv, BringUpInv, BringInv
<1> QED BY <1>1, <1>2, <1>3, <1>4, <1>5, Frames DEF IInv, Types, BringUpInv

\* A rotation or a re-wrap appends a head.
LEMMA Appends ==
  ASSUME LogType, NEW c \in Governed, Rotate(c) \/ Rewrap(c)
  PROVE  \E epochs \in Nat \ {0}, to \in SUBSET Accounts : Governs(c, epochs, to)
<1>1. Len(log[c]) \in Nat /\ Len(log[c]) \in 0..Len(log[c])
  BY HeadNames
<1>2. /\ Epochs(c, Len(log[c])) \in Nat
      /\ Len(log[c]) # 0 => Epochs(c, Len(log[c])) \in Nat \ {0}
  BY <1>1, HeadEpochs
<1>3. CASE Rotate(c)
  <2>1. PICK to \in SUBSET Accounts \ {{}} : Governs(c, Epochs(c, Len(log[c])) + 1, to)
    BY <1>3 DEF Rotate
  <2>2. Epochs(c, Len(log[c])) + 1 \in Nat \ {0}
    BY <1>2
  <2> QED BY <2>1, <2>2
<1>4. CASE Rewrap(c)
  <2>1. log[c] # << >> /\ \E to \in SUBSET Accounts : Governs(c, Epochs(c, Len(log[c])), to)
    BY <1>4 DEF Rewrap
  <2>2. log[c] \in Seq(Head0)
    BY DEF LogType
  <2>3. Len(log[c]) # 0
    BY <2>1, <2>2, EmptySeq
  <2> QED BY <1>2, <2>1, <2>3
<1> QED BY <1>3, <1>4

\* A log only grows: what a head names does not change.
LEMMA Grows ==
  ASSUME LogType, NEW c \in Governed, NEW epochs \in Nat \ {0}, NEW to \in SUBSET Accounts,
         Governs(c, epochs, to)
  PROVE  /\ LogType'
         /\ \A d \in Governed : /\ Len(log'[d]) >= Len(log[d])
                                /\ \A k \in 1..Len(log[d]) : log'[d][k] = log[d][k]
<1> DEFINE h == [epochs |-> epochs, to |-> to]
<1>1. log' = [log EXCEPT ![c] = Append(@, h)] /\ h \in Head0
  BY DEF Governs, Head0
<1> HIDE DEF h
<1>2. log[c] \in Seq(Head0) /\ Len(log[c]) \in Nat /\ Len(log[c]) < MaxHeads
  BY HeadNames DEF LogType, Governs
<1>3. /\ Append(log[c], h) \in Seq(Head0) /\ Len(Append(log[c], h)) = Len(log[c]) + 1
      /\ \A k \in 1..Len(log[c]) : Append(log[c], h)[k] = log[c][k]
  BY <1>1, <1>2, AppendProperties
<1>4. /\ log' \in [Governed -> Seq(Head0)] /\ log'[c] = Append(log[c], h)
      /\ \A d \in Governed \ {c} : log'[d] = log[d]
  BY <1>1, <1>3 DEF LogType
<1>5. \A d \in Governed : Len(log[d]) \in Nat /\ Len(log[d]) <= MaxHeads
  BY HeadNames
<1> HIDE DEF LogType
<1>6. Len(log'[c]) <= MaxHeads
  BY <1>2, <1>3, <1>4, Bounds
<1>7. LogType'
  BY <1>4, <1>5, <1>6 DEF LogType
<1>8. ASSUME NEW d \in Governed
      PROVE  /\ Len(log'[d]) >= Len(log[d])
             /\ \A k \in 1..Len(log[d]) : log'[d][k] = log[d][k]
  <2>1. CASE d = c
    BY <1>2, <1>3, <1>4, <2>1
  <2>2. CASE d # c
    BY <1>4, <1>5, <2>2
  <2> QED BY <2>1, <2>2
<1> QED BY <1>7, <1>8

LEMMA GovernsKeeps ==
  ASSUME IInv, NEW c \in Governed, Rotate(c) \/ Rewrap(c)
  PROVE  IInv'
<1>0. PICK epochs \in Nat \ {0}, to \in SUBSET Accounts : Governs(c, epochs, to)
  BY Appends DEF IInv, Types
<1>1. /\ UNCHANGED <<meta, store, act, trust, col, got, cipher, schema, reader, puts, ctl, unopened>>
      /\ Event
  BY <1>0 DEF Governs, session, replica
<1>2. /\ LogType'
      /\ \A d \in Governed : /\ Len(log'[d]) >= Len(log[d])
                             /\ \A k \in 1..Len(log[d]) : log'[d][k] = log[d][k]
  BY <1>0, Grows DEF IInv, Types
<1>3. \A d \in Governed : Len(log[d]) \in Nat /\ Len(log'[d]) \in Nat
  <2>1. \A d \in Governed : log'[d] \in Seq(Head0)
    BY <1>2 DEF LogType
  <2>2. \A d \in Governed : Len(log'[d]) \in Nat
    BY <2>1, LenProperties
  <2> QED BY <2>2, HeadNames DEF IInv, Types
<1>4. SpentInv'
  BY <1>1, EditsKept DEF IInv, Types, BringUpInv
<1>5. PinsInv'
  <2>1. \A d \in Governed : trust.pins[d] \in Nat
    BY Bounds DEF IInv, Types, TrustType, Trust, Heads
  <2> QED BY <1>1, <1>2, <1>3, <2>1 DEF IInv, Types, PinsInv
<1>6. LogInv'
  <2>1. \A d \in Private : {got[d], cipher[d], store.heads[d], act.cached[d]} \subseteq 0..Len(log'[d])
    BY <1>2, <1>3, Kinds DEF IInv, BringUpInv, LogInv
  <2>2. \A d \in Private : \A p \in puts :
          p.heads[d] <= Len(log'[d]) /\ (p.base # None => p.base[d] <= Len(log'[d]))
    <3>1. \A p \in puts : /\ \A d \in Private : p.heads[d] \in Nat
                          /\ p.base # None => \A d \in Private : p.base[d] \in Nat
      BY Bounds DEF IInv, Types, PutsType, Put, Heads
    <3> QED BY <1>2, <1>3, <3>1, Kinds DEF IInv, BringUpInv, LogInv
  <2> QED BY <1>1, <2>1, <2>2 DEF LogInv
<1>7. CipherInv'
  <2>1. \A d \in Private : cipher[d] # 0 => cipher[d] \in 1..Len(log[d])
    BY <1>3, Kinds DEF IInv, BringUpInv, LogInv
  <2> QED BY <1>1, <1>2, <2>1, Kinds DEF IInv, BringUpInv, CipherInv, Opens
<1>8. ASSUME NEW a, NEW heads, Keeps(a, heads), \A d \in Private : heads[d] \in 0..Len(log[d])
      PROVE  Keeps(a, heads)'
  <2>1. \A d \in Private : heads[d] # 0 => heads[d] \in 1..Len(log[d])
    BY <1>3, <1>8, Kinds
  <2> QED BY <1>1, <1>2, <1>8, <2>1, Kinds DEF Keeps
<1>9. CacheInv'
  <2>1. Keeps(store.owner, store.heads)'
    <3>1. \A d \in Private : store.heads[d] # 0 => store.heads[d] \in 1..Len(log[d])
      BY <1>3, Kinds DEF IInv, BringUpInv, LogInv
    <3> QED BY <1>1, <1>2, <3>1, Kinds DEF IInv, BringUpInv, CacheInv, Keeps
  <2>2. ASSUME NEW p \in puts PROVE Keeps(p.acct, p.heads)' /\ (p.base # None => Keeps(p.acct, p.base)')
    <3>1. /\ \A d \in Private : p.heads[d] \in 0..Len(log[d])
          /\ p.base # None => \A d \in Private : p.base[d] \in 0..Len(log[d])
      <4>1. p \in Put
        BY DEF IInv, Types, PutsType
      <4>2. /\ \A d \in Private : p.heads[d] \in Nat
            /\ p.base # None => \A d \in Private : p.base[d] \in Nat
        BY <4>1, Bounds DEF Put, Heads
      <4> QED BY <1>3, <4>2, Kinds DEF IInv, BringUpInv, LogInv
    <3>2. Keeps(p.acct, p.heads) /\ (p.base # None => Keeps(p.acct, p.base))
      BY DEF IInv, BringUpInv, CacheInv
    <3> QED BY <1>8, <3>1, <3>2
  <2> QED BY <1>1, <2>1, <2>2 DEF CacheInv
<1>10. BringInv'
  <2>1. ASSUME NEW d \in Private PROVE Replaces(d)' <=> Replaces(d)
    <3>1. /\ got[d] # 0 => got[d] \in 1..Len(log[d])
          /\ cipher[d] # 0 => cipher[d] \in 1..Len(log[d])
      BY <1>3, Kinds DEF IInv, BringUpInv, LogInv
    <3>2. /\ got[d] # 0 => log'[d][got[d]] = log[d][got[d]]
          /\ cipher[d] # 0 => log'[d][cipher[d]] = log[d][cipher[d]]
      BY <1>2, <3>1, Kinds
    <3> QED BY <1>1, <3>2 DEF Replaces, HoldsOrPostdates, Postdates, Lists, Epochs
  <2>2. \A d \in Collections : Complete(d)' <=> Complete(d)
    BY <1>1, <2>1, Kinds DEF Complete
  <2>3. \A d \in Private : Waits(d)' <=> Waits(d)
    BY <1>1 DEF Waits
  <2> QED BY <1>1, <2>1, <2>2, <2>3 DEF IInv, BringUpInv, BringInv
<1> QED BY <1>1, <1>2, <1>4, <1>5, <1>6, <1>7, <1>9, <1>10, Frames DEF IInv, Types, BringUpInv

\* Another app's edit drops nothing but this app's list, which is a hit on its collection.
LEMMA Edits ==
  ASSUME MetaType, SpentInv, NEW c \in Registry, Edit(c)
  PROVE  /\ MetaType' /\ SpentInv' /\ \A d \in Registry \ {c} : meta'[d] = meta[d]
         /\ meta'[c] # None
         /\ meta[c] # None => meta'[c].edits >= meta[c].edits /\ meta'[c].plain >= meta[c].plain
         /\ \/ /\ col' = col
               /\ meta'[c].indexes = IF meta[c] = None THEN "none" ELSE meta[c].indexes
            \/ c \in Public /\ col' = [col EXCEPT ![c].hit = col[c].at # "idle"]
<1> DEFINE now == IF meta[c] = None THEN Blank ELSE meta[c]
<1>1. /\ spent' \in [events : 0..MaxEvents, passes : 0..MaxPasses]
      /\ spent'.events = spent.events + 1
  BY Events DEF Edit
<1>2. spent.events \in Nat /\ spent.events + 1 <= MaxEvents
  BY <1>1, Bounds DEF SpentInv
<1>3. /\ now \in Objects /\ now.edits \in Nat /\ now.edits <= spent.events
      /\ now.plain \in Nat /\ now.plain <= spent.events
      /\ meta[c] = None => now.indexes = "none"
      /\ meta[c] # None => now = meta[c]
  BY <1>2, Bounds DEF MetaType, SpentInv, Objects, Blank
<1>4. \/ meta' = [meta EXCEPT ![c] = [now EXCEPT !.edits = @ + 1]] /\ col' = col
      \/ meta' = [meta EXCEPT ![c] = [now EXCEPT !.plain = @ + 1]] /\ col' = col
      \/ /\ meta' = [meta EXCEPT ![c] = [now EXCEPT !.indexes = "theirs"]]
         /\ c \in Public /\ col' = [col EXCEPT ![c].hit = col[c].at # "idle"]
  BY DEF Edit
<1> HIDE DEF now
<1>5. \E new \in Objects :
        /\ meta' = [meta EXCEPT ![c] = new]
        /\ new.edits \in {now.edits, now.edits + 1} /\ new.plain \in {now.plain, now.plain + 1}
        /\ \/ new.indexes = now.indexes /\ col' = col
           \/ c \in Public /\ col' = [col EXCEPT ![c].hit = col[c].at # "idle"]
  <2>1. CASE meta' = [meta EXCEPT ![c] = [now EXCEPT !.edits = @ + 1]] /\ col' = col
    <3> DEFINE new == [now EXCEPT !.edits = @ + 1]
    <3>1. new \in Objects /\ new.edits = now.edits + 1 /\ new.plain = now.plain /\ new.indexes = now.indexes
      BY <1>2, <1>3, Bounds DEF Objects
    <3>2. meta' = [meta EXCEPT ![c] = new] /\ col' = col
      BY <2>1
    <3> HIDE DEF new
    <3> QED BY <3>1, <3>2
  <2>2. CASE meta' = [meta EXCEPT ![c] = [now EXCEPT !.plain = @ + 1]] /\ col' = col
    <3> DEFINE new == [now EXCEPT !.plain = @ + 1]
    <3>1. new \in Objects /\ new.edits = now.edits /\ new.plain = now.plain + 1 /\ new.indexes = now.indexes
      BY <1>2, <1>3, Bounds DEF Objects
    <3>2. meta' = [meta EXCEPT ![c] = new] /\ col' = col
      BY <2>2
    <3> HIDE DEF new
    <3> QED BY <3>1, <3>2
  <2>3. CASE /\ meta' = [meta EXCEPT ![c] = [now EXCEPT !.indexes = "theirs"]]
             /\ c \in Public /\ col' = [col EXCEPT ![c].hit = col[c].at # "idle"]
    <3> DEFINE new == [now EXCEPT !.indexes = "theirs"]
    <3>1. new \in Objects /\ new.edits = now.edits /\ new.plain = now.plain
      BY <1>3 DEF Objects
    <3>2. meta' = [meta EXCEPT ![c] = new]
      BY <2>3
    <3> HIDE DEF new
    <3> QED BY <2>3, <3>1, <3>2
  <2> QED BY <1>4, <2>1, <2>2, <2>3
<1>6. PICK new \in Objects :
        /\ meta' = [meta EXCEPT ![c] = new]
        /\ new.edits \in {now.edits, now.edits + 1} /\ new.plain \in {now.plain, now.plain + 1}
        /\ \/ new.indexes = now.indexes /\ col' = col
           \/ c \in Public /\ col' = [col EXCEPT ![c].hit = col[c].at # "idle"]
  BY <1>5
<1>7. /\ MetaType' /\ meta'[c] = new /\ new # None
      /\ \A d \in Registry \ {c} : meta'[d] = meta[d]
  BY <1>6, ConstantsOK DEF MetaType
<1>8. SpentInv'
  <2>1. \A d \in Registry : meta[d] # None => meta[d].edits \in Nat /\ meta[d].plain \in Nat
    BY Bounds DEF MetaType, Objects
  <2>2. new.edits <= spent'.events /\ new.plain <= spent'.events
    BY <1>1, <1>2, <1>3, <1>6
  <2>3. \A d \in Registry \ {c} : meta'[d] # None =>
          meta'[d].edits <= spent'.events /\ meta'[d].plain <= spent'.events
    <3>1. \A d \in Registry \ {c} : meta[d] # None =>
            meta[d].edits <= spent.events /\ meta[d].plain <= spent.events
      BY DEF SpentInv
    <3> QED BY <1>1, <1>2, <1>7, <2>1, <3>1
  <2> QED BY <1>1, <1>7, <2>2, <2>3 DEF SpentInv
<1> QED BY <1>3, <1>6, <1>7, <1>8

LEMMA EditKeeps == ASSUME IInv, NEW c \in Registry, Edit(c) PROVE IInv'
<1>1. /\ UNCHANGED <<log, store, act, trust, got, cipher, schema, reader, puts, ctl, unopened>>
      /\ c \in Collections /\ col \in [Collections -> Bring] /\ col[c] \in Bring
  BY Kinds DEF Edit, replica, IInv, Types, ColType
<1>2. /\ MetaType' /\ SpentInv' /\ \A d \in Registry \ {c} : meta'[d] = meta[d]
      /\ meta'[c] # None
      /\ meta[c] # None => meta'[c].edits >= meta[c].edits /\ meta'[c].plain >= meta[c].plain
      /\ \/ /\ col' = col
            /\ meta'[c].indexes = IF meta[c] = None THEN "none" ELSE meta[c].indexes
         \/ c \in Public /\ col' = [col EXCEPT ![c].hit = col[c].at # "idle"]
  BY Edits DEF IInv, Types, BringUpInv
<1>3. /\ ColType' /\ \A d \in Collections \ {c} : col'[d] = col[d]
      /\ col'[c].at = col[c].at /\ col'[c].wants = col[c].wants /\ col'[c].cur = col[c].cur
      /\ col'[c].base = col[c].base /\ col'[c].wrote = col[c].wrote
      /\ \/ /\ col'[c] = col[c]
            /\ meta'[c].indexes = IF meta[c] = None THEN "none" ELSE meta[c].indexes
         \/ c \in Public /\ col'[c].hit = (col[c].at # "idle")
  <2>1. CASE col' = col
    BY <1>1, <1>2, <2>1 DEF ColType, Bring
  <2>2. CASE c \in Public /\ col' = [col EXCEPT ![c].hit = col[c].at # "idle"]
    BY <1>1, <2>2 DEF ColType, Bring
  <2> QED BY <1>2, <2>1, <2>2
<1>4. SettledInv' /\ PrepareInv'
  <2>1. \A d \in Collections : col'[d].at = col[d].at
    BY <1>3
  <2> QED BY <1>1, <2>1, Kinds DEF IInv, Types, BringUpInv, SettledInv, Settled, PrepareInv
<1>5. MetaInv'
  <2>1. col[c].cur # None => /\ meta[c] # None /\ col[c].base # None /\ col[c].at # "idle"
                             /\ col[c].cur.plain <= meta'[c].plain
    <3>1. SUFFICES ASSUME col[c].cur # None
                   PROVE  /\ meta[c] # None /\ col[c].base # None /\ col[c].at # "idle"
                          /\ col[c].cur.plain <= meta'[c].plain
      OBVIOUS
    <3>2. /\ meta[c] # None /\ col[c].base # None /\ col[c].at # "idle"
          /\ col[c].cur.plain <= meta[c].plain
      BY <3>1 DEF IInv, BringUpInv, MetaInv
    <3>3. col[c].cur.plain \in Nat /\ meta[c].plain \in Nat /\ meta'[c].plain \in Nat
      BY <1>1, <1>2, <3>1, <3>2, Bounds DEF IInv, Types, MetaType, Bring, Objects
    <3> QED BY <1>2, <3>2, <3>3
  <2>2. \A d \in Registry \ {c} : col'[d] = col[d] /\ meta'[d] = meta[d]
    BY <1>2, <1>3, Kinds
  <2>3. CASE c \in Public
    <3>1. c \notin Private /\ c \in Registry
      BY <2>3, Kinds
    <3>2. /\ col[c].cur # None => col[c].at # "idle"
          /\ col[c].cur # None /\ col[c].cur.indexes = "ours" => meta[c].indexes = "ours" \/ col[c].hit
      BY <2>3, <3>1 DEF IInv, BringUpInv, MetaInv
    <3>3. col'[c].cur # None /\ col'[c].cur.indexes = "ours" => meta'[c].indexes = "ours" \/ col'[c].hit
      BY <1>3, <2>1, <3>2
    <3> QED BY <1>2, <1>3, <2>1, <2>2, <3>1, <3>3 DEF IInv, BringUpInv, MetaInv
  <2>4. CASE c \notin Public
    <3>1. /\ col'[c] = col[c] /\ (meta[c] # None => meta'[c].indexes = meta[c].indexes)
      BY <1>3, <2>4
    <3> QED BY <1>2, <2>1, <2>2, <2>4, <3>1 DEF IInv, BringUpInv, MetaInv
  <2> QED BY <2>3, <2>4
<1>6. BringInv'
  <2>1. \A d \in Collections : col'[d].at = col[d].at /\ col'[d].wants = col[d].wants
    BY <1>3
  <2>2. \A d \in Private : (Waits(d)' <=> Waits(d)) /\ (Replaces(d)' <=> Replaces(d))
    BY <1>1, <2>1, Kinds, SameReplaces DEF Waits
  <2>3. \A d \in Collections \ {c} : Complete(d) => Complete(d)'
    BY <1>1, <1>2, <2>2, Kinds DEF Complete
  <2>4. col'[c] = col[c] /\ Complete(c) => Complete(c)' \/ (c \in Public /\ col'[c].hit = (col[c].at # "idle"))
    BY <1>1, <1>2, <1>3, <2>2, Kinds DEF Complete
  <2>5. ASSUME act.at \in {"pass", "shared", "start", "up"}, NEW d \in Collections
        PROVE  /\ col'[d].at = "failed" => col'[d].hit
               /\ col'[d].at = "done" => col'[d].hit \/ Complete(d)'
    <3>1. /\ col[d].at = "failed" => col[d].hit
          /\ col[d].at = "done" => col[d].hit \/ Complete(d)
      BY <2>5 DEF IInv, BringUpInv, BringInv
    <3>2. CASE d # c
      BY <1>3, <2>3, <3>1, <3>2
    <3>3. CASE d = c
      BY <1>3, <2>1, <2>4, <3>1, <3>3
    <3> QED BY <3>2, <3>3
  <2> QED BY <1>1, <2>1, <2>2, <2>5, Kinds DEF IInv, BringUpInv, BringInv, ActType, Session, Types
<1> QED BY <1>1, <1>2, <1>3, <1>4, <1>5, <1>6, Frames DEF IInv, Types, BringUpInv

(***************************************************************************)
(* The invariant                                                           *)
(***************************************************************************)
LEMMA InitInv == ASSUME Init PROVE IInv
<1>1. /\ store = Empty /\ act = Out /\ trust = NewTrust /\ got = NoHeads
      /\ cipher = NoHeads /\ schema = {} /\ col = [c \in Collections |-> Idle]
      /\ reader = [c \in Shared |-> Unread] /\ puts = {} /\ ctl = NoCtl
      /\ spent = [events |-> 0, passes |-> 0]
  BY DEF Init
<1>2. LogType /\ MetaType /\ \A c \in Registry : meta[c] # None => meta[c].edits = 0 /\ meta[c].plain = 0
  <2>1. CASE log = [c \in Governed |-> << >>] /\ meta = [c \in Registry |-> None]
    <3>1. << >> \in Seq(Head0) /\ Len(<< >>) = 0
      BY EmptySeq
    <3>2. LogType
      BY <2>1, <3>1, Bounds DEF LogType
    <3> QED BY <2>1, <3>2 DEF MetaType
  <2>2. CASE /\ log = [c \in Governed |-> <<[epochs |-> 1, to |-> Accounts]>>]
             /\ meta = [c \in Registry |-> Blank]
    <3> DEFINE h == [epochs |-> 1, to |-> Accounts]
    <3>1. h \in Head0
      BY DEF Head0
    <3>2. log = [c \in Governed |-> <<h>>]
      BY <2>2
    <3> HIDE DEF h
    <3>3. <<h>> \in Seq(Head0) /\ Len(<<h>>) = 1
      BY <3>1
    <3>4. LogType
      BY <3>2, <3>3, Bounds DEF LogType
    <3>5. Blank \in Objects /\ Blank.edits = 0 /\ Blank.plain = 0
      BY Bounds DEF Objects, Blank
    <3> QED BY <2>2, <3>4, <3>5 DEF MetaType
  <2> QED BY <2>1, <2>2 DEF Init
<1>3. /\ ColType /\ \A c \in Collections : col[c].at = "idle" /\ col[c].cur = None
  BY <1>1 DEF ColType, Idle, Bring
<1>4. /\ StoreType /\ ActType /\ GotType /\ TrustType /\ CipherType /\ ReaderType /\ PutsType /\ CtlType
  BY <1>1, News DEF StoreType, ActType, GotType, TrustType, CipherType, ReaderType, PutsType, CtlType
<1>5. act.at = "out" /\ act.cached = NoHeads /\ store.heads = NoHeads
  BY <1>1 DEF Out, Empty
<1>6. PinsInv /\ LogInv
  <2>1. \A c \in Governed : Len(log[c]) \in Nat
    BY <1>2, HeadNames
  <2>2. PinsInv
    BY <1>1, <2>1, News DEF PinsInv
  <2>3. LogInv
    BY <1>1, <1>5, <2>1, News, Kinds DEF LogInv
  <2> QED BY <2>2, <2>3
<1>7. SettledInv /\ AcctInv /\ PrepareInv /\ BringInv /\ CipherInv
  BY <1>3, <1>5 DEF SettledInv, Settled, Working, AcctInv, PrepareInv, BringInv, CipherInv, Rests
<1>8. CtlInv /\ PutInv
  BY <1>1 DEF CtlInv, OneCore, NoCtl, PutInv
<1>9. SpentInv
  BY <1>1, <1>2, Bounds DEF SpentInv
<1>10. MetaInv
  BY <1>3, Kinds DEF MetaInv
<1>11. CacheInv /\ ReaderInv
  <2>1. \A c \in Shared : reader[c].head = 0 /\ reader[c].missed = {} /\ trust.pins[c] = 0
    BY <1>1, News, Kinds DEF Unread
  <2> QED BY <1>1, <1>5, <2>1, News DEF CacheInv, Keeps, ReaderInv
<1> QED BY <1>2, <1>3, <1>4, <1>6, <1>7, <1>8, <1>9, <1>10, <1>11 DEF IInv, Types, BringUpInv

LEMMA StepInv == IInv /\ [Next]_vars => IInv'
<1> SUFFICES ASSUME IInv, [Next]_vars PROVE IInv'
  OBVIOUS
<1>1. CASE UNCHANGED vars
  BY <1>1, Frames DEF IInv, Types, BringUpInv, vars, space, session, replica
<1>2. CASE Bringing
  <2>1. CASE OwnerKnown \/ OwnerFails \/ Completed \/ Open \/ OpenFails \/ AfterPass
    BY <2>1, OwnerKnownKeeps, OwnerFailsKeeps, CompletedKeeps, OpenKeeps, OpenFailsKeeps, AfterPassKeeps
  <2>2. CASE \E c \in Collections : Served(c) \/ ReadFails(c)
    BY <2>2, ServedKeeps, ReadFailsKeeps
  <2>3. CASE \E c \in Registry : MetaRead(c)
    BY <2>3, MetaReadKeeps
  <2>4. CASE \E c \in Private : Apply(c) \/ DeclareBlinded(c) \/ Install(c)
    BY <2>4, ApplyKeeps, DeclareBlindedKeeps, InstallKeeps
  <2>5. CASE \E c \in Public : DeclareIndexes(c)
    BY <2>5, DeclareIndexesKeeps
  <2>6. CASE \E p \in puts : PutReads(p) \/ PutSaves(p) \/ PutFails(p)
    BY <2>6, PutReadsKeeps, PutSavesKeeps, PutFailsKeeps
  <2>7. CASE StartCall("session")
    BY <2>7, StartCallKeeps DEF Calls
  <2>8. CASE \E who \in Calls : ImportLands(who) \/ CoreStarted(who) \/ CoreFails(who)
    BY <2>8, ImportLandsKeeps, CoreStartedKeeps, CoreFailsKeeps
  <2> QED BY <1>2, <2>1, <2>2, <2>3, <2>4, <2>5, <2>6, <2>7, <2>8 DEF Bringing
<1>3. CASE Restore \/ Reconnect \/ Logout \/ Crash \/ Stop
  BY <1>3, RestoreKeeps, ReconnectKeeps, LogoutKeeps, CrashKeeps, StopKeeps
<1>4. CASE StartCall("app")
  BY <1>4, StartCallKeeps DEF Calls
<1>5. CASE \E a \in Accounts : Login(a)
  BY <1>5, LoginKeeps
<1>6. CASE \E c \in Shared : List(c)
  BY <1>6, ListKeeps
<1>7. CASE \E c \in Governed : Rotate(c) \/ Rewrap(c)
  BY <1>7, GovernsKeeps
<1>8. CASE \E c \in Registry : Edit(c)
  BY <1>8, EditKeeps
<1> QED BY <1>1, <1>2, <1>3, <1>4, <1>5, <1>6, <1>7, <1>8 DEF Next

LEMMA Invariance == Spec => []IInv
BY InitInv, StepInv, PTL DEF Spec

\* The state of a session's bring-up is of its type: no request, cache write or start of the
\* controller leaves it, and no phase is over with a collection still at work
\* (prepareActivation, beginSync).
THEOREM BringUpTypeCorrect == Spec => []TypeOK
<1>1. IInv => TypeOK
  BY TypeParts DEF IInv
<1> QED BY <1>1, Invariance, PTL

\* One controller runs one core, and none once it was stopped, whichever calls of start and
\* stop its two owners overlap (SyncController).
THEOREM OneCoreRuns == Spec => []OneCore
<1>1. IInv => OneCore
  BY DEF IInv, BringUpInv, CtlInv
<1> QED BY <1>1, Invariance, PTL

\* What the offline cache holds opens for the account it is stamped with, but for the excused
\* heads, whatever puts of whichever sessions overlap (createDescriptorCache).
THEOREM CachedDescriptorsOpen == Spec => []CacheOpens
<1>1. IInv => CacheOpens
  BY DEF IInv, BringUpInv, CacheInv, Keeps, CacheOpens
<1> QED BY <1>1, Invariance, PTL

\* A collection is short of what it should have only for a failure of its own
\* (readGrantedEncryption, startPwsSync, SharedCollectionReader).
THEOREM DegradedForCause == Spec => []DegradesForCause
<1>1. ASSUME IInv PROVE DegradesForCause
  <2>1. act.at \in {"failed", "up"} => Settled
    BY <1>1 DEF IInv, Types, SettledInv
  <2>2. act.at = "up" => \A c \in act.granted : col[c].hit \/ Complete(c)
    <3> SUFFICES ASSUME act.at = "up", NEW c \in act.granted PROVE col[c].hit \/ Complete(c)
      OBVIOUS
    <3>1. c \in Collections /\ col[c].at # "idle"
      BY <1>1 DEF IInv, Types, ActType, Session, BringUpInv, BringInv
    <3>2. col[c].at \in {"done", "failed"}
      BY <1>1, <2>1, <3>1 DEF IInv, Types, ColType, Bring, Settled, Working
    <3> QED BY <1>1, <3>1, <3>2 DEF IInv, BringUpInv, BringInv
  <2> QED BY <1>1, <2>1, <2>2 DEF DegradesForCause, IInv, BringUpInv, ReaderInv
<1> QED BY <1>1, Invariance, PTL

\* A cipher changes when its replica opens or closes, and otherwise to a head with no fewer epochs.
LEMMA CipherAdvances ==
  ASSUME IInv, Next, act.at \in Rests, act'.at \in Rests, NEW c \in Private
  PROVE  Epochs(c, cipher'[c]) >= Epochs(c, cipher[c])
<1>1. /\ c \in Governed /\ {got[c], cipher[c]} \subseteq 0..Len(log[c])
      /\ Epochs(c, cipher[c]) \in Nat
  <2>1. c \in Governed /\ {got[c], cipher[c]} \subseteq 0..Len(log[c])
    BY Kinds DEF IInv, BringUpInv, LogInv
  <2> QED BY <2>1, HeadEpochs DEF IInv, Types
<1>2. CASE cipher' = cipher
  BY <1>1, <1>2
<1>3. CASE Closed
  BY <1>3 DEF Closed, Out, Rests
<1>4. CASE Open
  BY <1>4 DEF Open, Rests
<1>5. ASSUME NEW d \in Private, Apply(d) PROVE Epochs(c, cipher'[c]) >= Epochs(c, cipher[c])
  <2>1. CASE ~Replaces(d) \/ ~Opens(d, got[d])
    BY <1>2, <1>5, <2>1 DEF Apply
  <2>2. CASE Replaces(d) /\ Opens(d, got[d])
    <3>1. cipher' = [cipher EXCEPT ![d] = got[d]] /\ cipher \in [Private -> Heads]
      BY <1>5, <2>2 DEF Apply, IInv, Types, CipherType
    <3>2. CASE d = c
      <4>1. cipher'[c] = got[c] /\ Replaces(c)
        BY <2>2, <3>1, <3>2
      <4>2. Epochs(c, got[c]) >= Epochs(c, cipher[c])
        BY <1>1, <4>1, ReplacesForward DEF IInv, Types
      <4> QED BY <4>1, <4>2
    <3>3. CASE d # c
      <4>1. cipher'[c] = cipher[c]
        BY <3>1, <3>3
      <4> QED BY <1>1, <4>1
    <3> QED BY <3>2, <3>3
  <2> QED BY <2>1, <2>2
<1>6. CASE Bringing
  <2>1. CASE OwnerKnown \/ OwnerFails \/ Completed \/ Open \/ OpenFails \/ AfterPass
    BY <1>2, <1>3, <1>4, <2>1 DEF OwnerKnown, OwnerFails, Completed, OpenFails, AfterPass, replica
  <2>2. CASE \E d \in Collections : Served(d) \/ ReadFails(d)
    BY <1>2, <2>2 DEF Served, ReadFails, replica
  <2>3. CASE \E d \in Registry : MetaRead(d)
    BY <1>2, <2>3 DEF MetaRead, replica
  <2>4. CASE \E d \in Private : Apply(d) \/ DeclareBlinded(d) \/ Install(d)
    BY <1>2, <1>5, <2>4 DEF DeclareBlinded, Install, replica
  <2>5. CASE \E d \in Public : DeclareIndexes(d)
    BY <1>2, <2>5 DEF DeclareIndexes, replica
  <2>6. CASE \E p \in puts : PutReads(p) \/ PutSaves(p) \/ PutFails(p)
    BY <1>2, <2>6 DEF PutReads, PutSaves, PutFails, session, replica
  <2>7. CASE StartCall("session")
    BY <1>2, <2>7 DEF StartCall, replica
  <2>8. CASE \E who \in Calls : ImportLands(who) \/ CoreStarted(who) \/ CoreFails(who)
    BY <1>2, <2>8 DEF ImportLands, CoreStarted, CoreFails, replica
  <2> QED BY <1>6, <2>1, <2>2, <2>3, <2>4, <2>5, <2>6, <2>7, <2>8 DEF Bringing
<1>7. CASE Restore
  BY <1>2, <1>7 DEF Restore, Prepare, replica
<1>8. CASE Reconnect \/ Logout \/ Crash \/ Stop \/ StartCall("app")
  BY <1>2, <1>3, <1>8 DEF Reconnect, Logout, Crash, Stop, StartCall, session, replica
<1>9. CASE \E a \in Accounts : Login(a)
  BY <1>2, <1>9 DEF Login, Prepare, replica
<1>10. CASE \E d \in Shared : List(d)
  BY <1>2, <1>10 DEF List, replica
<1>11. CASE (\E d \in Governed : Rotate(d) \/ Rewrap(d)) \/ (\E d \in Registry : Edit(d))
  BY <1>2, <1>11 DEF Rotate, Rewrap, Governs, Edit, session, replica
<1> QED BY <1>6, <1>7, <1>8, <1>9, <1>10, <1>11 DEF Next

\* While a session is up only a listing touches a reader, and takes it to a later head.
LEMMA ReaderAdvances ==
  ASSUME IInv, Next, act.at = "up", act'.at = "up", NEW c \in Shared
  PROVE  reader'[c].head >= reader[c].head
<1>1. reader[c].head \in Nat
  BY Bounds DEF IInv, Types, ReaderType, Reader, Heads
<1>2. CASE reader' = reader
  BY <1>1, <1>2
<1>3. CASE Closed
  BY <1>3 DEF Closed, Out
<1>4. CASE Bringing
  <2>1. CASE OwnerKnown \/ OwnerFails \/ Completed \/ Open \/ OpenFails \/ AfterPass
    BY <1>2, <1>3, <2>1 DEF OwnerKnown, OwnerFails, Completed, Open, OpenFails, AfterPass
  <2>2. ASSUME NEW d \in Collections, Served(d) PROVE reader' = reader
    BY <2>2 DEF Served, Waits, IInv, Types, SettledInv, Settled, Working
  <2>3. CASE \E d \in Collections : ReadFails(d)
    BY <1>2, <2>3 DEF ReadFails
  <2>4. CASE \E d \in Registry : MetaRead(d)
    BY <1>2, <2>4 DEF MetaRead
  <2>5. CASE \E d \in Private : Apply(d) \/ DeclareBlinded(d) \/ Install(d)
    BY <1>2, <2>5 DEF Apply, DeclareBlinded, Install
  <2>6. CASE \E d \in Public : DeclareIndexes(d)
    BY <1>2, <2>6 DEF DeclareIndexes
  <2>7. CASE \E p \in puts : PutReads(p) \/ PutSaves(p) \/ PutFails(p)
    BY <1>2, <2>7 DEF PutReads, PutSaves, PutFails, session
  <2>8. CASE StartCall("session")
    BY <1>2, <2>8 DEF StartCall
  <2>9. CASE \E who \in Calls : ImportLands(who) \/ CoreStarted(who)
    BY <1>2, <2>9 DEF ImportLands, CoreStarted
  <2>10. ASSUME NEW who \in Calls, CoreFails(who) PROVE reader' = reader
    <3>1. CASE who = "session"
      BY <2>10, <3>1 DEF CoreFails, IInv, Types, ActType, Session
    <3>2. CASE who # "session"
      BY <2>10, <3>2 DEF CoreFails
    <3> QED BY <3>1, <3>2
  <2> QED BY <1>2, <1>4, <2>1, <2>2, <2>3, <2>4, <2>5, <2>6, <2>7, <2>8, <2>9, <2>10 DEF Bringing
<1>5. CASE Restore \/ \E a \in Accounts : Login(a)
  BY <1>5 DEF Restore, Login
<1>6. CASE Reconnect
  BY <1>6 DEF Reconnect, StartPass, IInv, Types, ActType, Session
<1>7. CASE Logout \/ Crash \/ Stop \/ StartCall("app")
  BY <1>2, <1>3, <1>7 DEF Logout, Crash, Stop, StartCall, session
<1>8. ASSUME NEW d \in Shared, List(d) PROVE reader'[c].head >= reader[c].head
  BY <1>8, Listings
<1>9. CASE (\E d \in Governed : Rotate(d) \/ Rewrap(d)) \/ (\E d \in Registry : Edit(d))
  BY <1>2, <1>9 DEF Rotate, Rewrap, Governs, Edit, session
<1> QED BY <1>4, <1>5, <1>6, <1>7, <1>8, <1>9 DEF Next

\* No cipher of an open replica is rebuilt from a head with fewer epochs, across reconnects too, and
\* no reader of a session that is up from an earlier head, whatever heads the Space's clients add
\* and the host serves (applyRemoteDescriptor, SharedCollectionReader).  It says nothing of two
\* heads with the same epochs: the code does not tell which is earlier.
THEOREM EpochsNeverLost == Spec => EpochsAdvance
<1> DEFINE Advance ==
      /\ act.at \in Rests /\ act'.at \in Rests =>
           \A c \in Private : Epochs(c, cipher'[c]) >= Epochs(c, cipher[c])
      /\ act.at = "up" /\ act'.at = "up" => \A c \in Shared : reader'[c].head >= reader[c].head
<1>1. IInv /\ [Next]_vars => [Advance]_vars
  BY CipherAdvances, ReaderAdvances
<1>2. Spec => [][Advance]_vars
  BY <1>1, Invariance, PTL DEF Spec
<1> QED BY <1>2 DEF EpochsAdvance

\* What a step keeps of the Metadata object of c.
Carries(c) ==
  /\ meta'[c] # None /\ meta'[c].edits >= meta[c].edits
  /\ meta'[c].plain < meta[c].plain => col[c].base # col[c].cur /\ meta'[c].plain >= col[c].cur.plain

\* Only a declaration and another app write to a Metadata object, and neither drops a member
\* beside `plaintext`.
LEMMA ObjectsCarried ==
  ASSUME IInv, Next, NEW c \in Registry, meta[c] # None
  PROVE  Carries(c)
<1>1. /\ meta[c] \in Objects /\ meta[c].edits \in Nat /\ meta[c].plain \in Nat
      /\ meta \in [Registry -> Objects \cup {None}]
  BY Bounds DEF IInv, Types, MetaType, Objects
<1>2. ASSUME meta'[c] # None, meta'[c].edits = meta[c].edits, meta'[c].plain = meta[c].plain
      PROVE  Carries(c)
  BY <1>1, <1>2 DEF Carries
<1>3. CASE meta' = meta
  BY <1>2, <1>3
<1>4. CASE Bringing
  <2>1. CASE OwnerKnown \/ OwnerFails \/ Completed \/ Open \/ OpenFails \/ AfterPass
    BY <1>3, <2>1 DEF OwnerKnown, OwnerFails, Completed, Open, OpenFails, AfterPass, space
  <2>2. CASE \E d \in Collections : Served(d) \/ ReadFails(d)
    BY <1>3, <2>2 DEF Served, ReadFails, space
  <2>3. CASE \E d \in Registry : MetaRead(d)
    BY <1>3, <2>3 DEF MetaRead, space
  <2>4. CASE \E d \in Private : Apply(d) \/ Install(d)
    BY <1>3, <2>4 DEF Apply, Install, space
  <2>5. ASSUME NEW d \in Private, DeclareBlinded(d) PROVE Carries(c)
    <3>1. CASE meta' = [meta EXCEPT ![d].indexes = "ours"] /\ d = c
      <4>1. meta'[c] = [meta[c] EXCEPT !.indexes = "ours"]
        BY <1>1, <3>1
      <4>2. meta'[c] \in Objects /\ meta'[c].edits = meta[c].edits /\ meta'[c].plain = meta[c].plain
        BY <1>1, <4>1 DEF Objects
      <4> QED BY <1>2, <4>2, ConstantsOK
    <3>2. CASE meta' = [meta EXCEPT ![d].indexes = "ours"] /\ d # c
      <4>1. meta'[c] = meta[c]
        BY <1>1, <3>2
      <4> QED BY <1>2, <4>1
    <3> QED BY <1>3, <2>5, <3>1, <3>2 DEF DeclareBlinded
  <2>6. ASSUME NEW d \in Public, DeclareIndexes(d) PROVE Carries(c)
    <3>1. CASE /\ d = c /\ col[c].cur # None /\ col[c].base = meta[c]
               /\ meta' = [meta EXCEPT ![d] = Merged(d)]
      <4> DEFINE m1 == [meta[c] EXCEPT !.plain = col[c].cur.plain]
      <4>1. col[c].cur \in Objects /\ col[c].cur.plain \in 0..MaxEvents /\ col[c].cur.plain \in Nat
        <5>1. col[c] \in Bring
          BY Kinds DEF IInv, Types, ColType
        <5> QED BY <3>1, <5>1, Bounds DEF Bring, Objects
      <4>2. m1 \in Objects /\ m1.edits = meta[c].edits /\ m1.plain = col[c].cur.plain
        BY <1>1, <4>1 DEF Objects
      <4>3. Merged(c) = [m1 EXCEPT !.indexes = "ours"]
        BY <3>1 DEF Merged
      <4> HIDE DEF m1
      <4>4. Merged(c) \in Objects /\ Merged(c).edits = meta[c].edits /\ Merged(c).plain = col[c].cur.plain
        BY <4>2, <4>3 DEF Objects
      <4>5. meta'[c] = Merged(c)
        BY <1>1, <3>1
      <4>6. meta'[c].plain < meta[c].plain => col[c].base # col[c].cur
        BY <1>1, <3>1, <4>1, <4>4, <4>5
      <4> QED BY <1>1, <4>1, <4>4, <4>5, <4>6, ConstantsOK DEF Carries
    <3>2. CASE d # c /\ meta' = [meta EXCEPT ![d] = Merged(d)]
      <4>1. meta'[c] = meta[c]
        BY <1>1, <3>2
      <4> QED BY <1>2, <4>1
    <3> QED BY <1>3, <2>6, <3>1, <3>2 DEF DeclareIndexes
  <2>7. CASE \E p \in puts : PutReads(p) \/ PutSaves(p) \/ PutFails(p)
    BY <1>3, <2>7 DEF PutReads, PutSaves, PutFails, space
  <2>8. CASE StartCall("session")
    BY <1>3, <2>8 DEF StartCall, space
  <2>9. CASE \E who \in Calls : ImportLands(who) \/ CoreStarted(who) \/ CoreFails(who)
    BY <1>3, <2>9 DEF ImportLands, CoreStarted, CoreFails, space
  <2> QED BY <1>4, <2>1, <2>2, <2>3, <2>4, <2>5, <2>6, <2>7, <2>8, <2>9 DEF Bringing
<1>5. CASE Restore \/ \E a \in Accounts : Login(a)
  BY <1>3, <1>5 DEF Restore, Login, Prepare, space
<1>6. CASE Reconnect \/ Logout \/ Crash \/ Stop \/ StartCall("app")
  BY <1>3, <1>6 DEF Reconnect, Logout, Crash, Stop, StartCall, space
<1>7. CASE \E d \in Shared : List(d)
  BY <1>3, <1>7 DEF List, space
<1>8. CASE \E d \in Governed : Rotate(d) \/ Rewrap(d)
  BY <1>3, <1>8 DEF Rotate, Rewrap, Governs
<1>9. ASSUME NEW d \in Registry, Edit(d) PROVE Carries(c)
  <2>1. /\ MetaType' /\ \A e \in Registry \ {d} : meta'[e] = meta[e]
        /\ meta'[d] # None
        /\ meta[d] # None => meta'[d].edits >= meta[d].edits /\ meta'[d].plain >= meta[d].plain
    BY <1>9, Edits DEF IInv, Types, BringUpInv
  <2>2. CASE d = c
    <3>1. meta'[c].plain \in Nat
      BY <2>1, <2>2, Bounds DEF MetaType, Objects
    <3> QED BY <1>1, <2>1, <2>2, <3>1 DEF Carries
  <2>3. CASE d # c
    BY <1>2, <2>1, <2>3
  <2> QED BY <2>2, <2>3
<1> QED BY <1>4, <1>5, <1>6, <1>7, <1>8, <1>9 DEF Next

\* No declaration drops a member beside `plaintext`, however the pass's read, the write's lost
\* races and other apps' writes interleave; inside `plaintext` it drops only what was put there after
\* its read, and only on a rebase (declareCollectionIndexes, declareBlindedIndexes).
THEOREM OthersCarried == Spec => CarriesForward
<1> DEFINE Carried == \A c \in Registry : meta[c] # None =>
      /\ meta'[c] # None /\ meta'[c].edits >= meta[c].edits
      /\ meta'[c].plain < meta[c].plain =>
           col[c].base # col[c].cur /\ meta'[c].plain >= col[c].cur.plain
<1>1. IInv /\ [Next]_vars => [Carried]_vars
  BY ObjectsCarried DEF Carries
<1>2. Spec => [][Carried]_vars
  BY <1>1, Invariance, PTL DEF Spec
<1> QED BY <1>2 DEF CarriesForward

=============================================================================
