------------------------- MODULE CipherRefreshProofs -------------------------
(***************************************************************************)
(* What holds of CipherRefresh for every number of decrypts, every log and *)
(* every order of bootstraps and failures.  The inductive invariant is     *)
(* TypeOK with CipherInv.                                                  *)
(***************************************************************************)
EXTENDS CipherRefresh, TLAPS

\* The inductive invariant.
IInv == TypeOK /\ CipherInv

(***************************************************************************)
(* The queue, the log and the rosters                                      *)
(***************************************************************************)

\* The running operation is one of the queue, and its caller waits for it.
LEMMA Running ==
  ASSUME IInv, chain # <<>>
  PROVE /\ Head(chain) = chain[1] /\ Head(chain) \in Operation /\ Caller(Head(chain))
        /\ Tail(chain) \in Seq(Operation) /\ Len(chain) \in Nat \ {0}
        /\ Len(Tail(chain)) = Len(chain) - 1
        /\ \A i \in 1..Len(Tail(chain)) : Tail(chain)[i] = chain[i + 1] /\ i + 1 \in 1..Len(chain)
<1>1. chain \in Seq(Operation) BY DEF IInv, TypeOK
<1>2. /\ Head(chain) = chain[1] /\ Head(chain) \in Operation /\ Tail(chain) \in Seq(Operation)
      /\ Len(chain) \in Nat \ {0} /\ Len(Tail(chain)) = Len(chain) - 1
  BY <1>1
<1>3. \A i \in 1..Len(Tail(chain)) : Tail(chain)[i] = chain[i + 1] /\ i + 1 \in 1..Len(chain)
  BY <1>1, <1>2
<1>4. Caller(Head(chain)) BY <1>2 DEF IInv, CipherInv, QueueInv
<1> QED BY <1>2, <1>3, <1>4

\* An operation that ends leaves every other caller of the queue waiting.
LEMMA QueueShrinks ==
  ASSUME IInv, chain # <<>>, chain' = Tail(chain),
         \A p \in Operation : p # Head(chain) /\ Caller(p) => Caller(p)'
  PROVE chain' \in Seq(Operation) /\ QueueInv'
<1>1. \A i \in 1..Len(chain') : /\ chain'[i] = chain[i + 1] /\ i + 1 \in 1..Len(chain)
                                /\ chain'[i] \in Operation /\ Caller(chain'[i]) /\ chain'[i] # Head(chain)
  <2>1. chain \in Seq(Operation) BY DEF IInv, TypeOK
  <2>2. \A i \in 1..Len(chain) : chain[i] \in Operation BY <2>1
  <2> QED BY Running, <2>2 DEF IInv, CipherInv, QueueInv
<1>2. \A i \in 1..Len(chain') : Caller(chain[i])'
  BY <1>1 DEF Caller
<1>3. \A i, j \in 1..Len(chain') : chain'[i] = chain'[j] => i = j
  BY <1>1, Running DEF IInv, CipherInv, QueueInv
<1> QED BY <1>2, <1>3, Running DEF QueueInv

\* An operation that is queued by a caller not yet waiting is in the queue once.
LEMMA QueueGrows ==
  ASSUME IInv, NEW op \in Operation, chain' = Append(chain, op),
         Caller(op)', ~Caller(op), \A p \in Operation : Caller(p) => Caller(p)'
  PROVE /\ chain' \in Seq(Operation) /\ QueueInv' /\ chain' # <<>>
        /\ chain # <<>> => Head(chain') = Head(chain)
<1>1. chain \in Seq(Operation) BY DEF IInv, TypeOK
<1>2. /\ chain' \in Seq(Operation) /\ Len(chain') = Len(chain) + 1 /\ Len(chain) \in Nat
      /\ chain'[Len(chain) + 1] = op /\ \A i \in 1..Len(chain) : chain'[i] = chain[i]
  BY <1>1
<1>3. chain' # <<>> /\ (chain # <<>> => Head(chain') = Head(chain))
  BY <1>1
<1>4. \A i \in 1..Len(chain) : chain[i] \in Operation /\ Caller(chain[i]) /\ chain[i] # op
  BY <1>1 DEF IInv, CipherInv, QueueInv
<1>5. \A i \in 1..Len(chain') : Caller(chain[i])'
  <2> SUFFICES ASSUME NEW i \in 1..Len(chain') PROVE Caller(chain[i])'
    OBVIOUS
  <2>1. CASE i = Len(chain) + 1 BY <2>1, <1>2 DEF Caller
  <2>2. CASE i \in 1..Len(chain) BY <2>2, <1>2, <1>4 DEF Caller
  <2> QED BY <2>1, <2>2, <1>2
<1>6. \A i, j \in 1..Len(chain') : chain'[i] = chain'[j] => i = j
  BY <1>2, <1>4 DEF IInv, CipherInv, QueueInv
<1> QED BY <1>2, <1>3, <1>5, <1>6 DEF QueueInv

\* What a rebuild that ends tells its caller, and that it leaves the others alone.
LEMMA ToldCaller ==
  ASSUME IInv, Runs(Rebuilds), NEW ok \in BOOLEAN, Told(Head(chain), ok), chain' = Tail(chain)
  PROVE /\ chain' \in Seq(Operation) /\ QueueInv'
        /\ refresh' \in [Decrypts -> Refresh] /\ boot' \in Bootstrap /\ boot'.head = boot.head
        /\ boot.st # "idle" \/ boot' = boot
        /\ \A d \in Decrypts :
             /\ refresh'[d].head = refresh[d].head /\ refresh'[d].source = refresh[d].source
             /\ \/ refresh'[d].st = refresh[d].st
                \/ /\ Head(chain).kind = "refresh" /\ Head(chain).by = d
                   /\ refresh[d].st = "queued" /\ refresh'[d].st = IF ok THEN "done" ELSE "refused"
<1>1. /\ chain # <<>> /\ Head(chain) \in Operation /\ Caller(Head(chain))
      /\ Head(chain).kind \in {"refresh", "apply"}
  BY Running DEF Runs, Rebuilds
<1>2. refresh \in [Decrypts -> Refresh] /\ boot \in Bootstrap
  BY DEF IInv, TypeOK
<1>3. CASE Head(chain).kind = "refresh"
  <2>1. /\ Head(chain).by \in Decrypts /\ refresh[Head(chain).by].st = "queued" /\ boot' = boot
        /\ refresh' = [refresh EXCEPT ![Head(chain).by].st = IF ok THEN "done" ELSE "refused"]
    BY <1>1, <1>3 DEF Told, Caller
  <2>2. refresh' \in [Decrypts -> Refresh]
    BY <1>2, <2>1 DEF Refresh
  <2>3. \A d \in Decrypts :
          /\ refresh'[d].head = refresh[d].head /\ refresh'[d].source = refresh[d].source
          /\ refresh'[d].st = IF d = Head(chain).by THEN IF ok THEN "done" ELSE "refused" ELSE refresh[d].st
    BY <1>2, <2>1 DEF Refresh
  <2>4. \A p \in Operation : p # Head(chain) /\ Caller(p) => Caller(p)'
    BY <1>1, <1>3, <2>1, <2>3 DEF Caller, Operation
  <2> QED BY <1>1, <1>2, <1>3, <2>1, <2>2, <2>3, <2>4, QueueShrinks
<1>4. CASE Head(chain).kind = "apply"
  <2>1. /\ boot.st = "applying" /\ refresh' = refresh
        /\ boot' = [boot EXCEPT !.st = IF ok THEN "meta" ELSE "source"]
    BY <1>1, <1>4 DEF Told, Caller
  <2>2. boot' \in Bootstrap /\ boot'.head = boot.head
    BY <1>2, <2>1 DEF Bootstrap
  <2>3. \A p \in Operation : p # Head(chain) /\ Caller(p) => Caller(p)'
    BY <1>1, <1>4, <2>1 DEF Caller, Operation
  <2> QED BY <1>1, <1>2, <2>1, <2>2, <2>3, QueueShrinks
<1> QED BY <1>1, <1>3, <1>4

\* Which of two rosters has more epochs.
LEMMA RosterOrder ==
  ASSUME IInv, NEW h \in 1..Len(log)
  PROVE /\ Epochs(h) \in Nat /\ Epochs(h) >= 1 /\ Epochs(held) \in Nat
        /\ HoldsOrPostdates(h) => Epochs(h) <= Epochs(held)
        /\ ~HoldsOrPostdates(h) => Epochs(held) <= Epochs(h)
<1>1. \A i \in 1..Len(log) : log[i].epochs \in Nat /\ log[i].epochs >= 1
  <2>1. \A i \in 1..Len(log) : log[i] \in Head0
    BY DEF IInv, TypeOK
  <2> QED BY <2>1 DEF IInv, CipherInv, HeadsInv, Head0
<1>2. held \in 0..Len(log) /\ Len(log) \in Nat
  BY DEF IInv, TypeOK
<1> QED BY <1>1, <1>2 DEF Epochs, HoldsOrPostdates, Lists

\* A longer log keeps the epochs of every head it had.
LEMMA EpochsKept ==
  ASSUME IInv, NEW epochs, NEW mine, Append1(epochs, mine)
  PROVE \A h \in 0..Len(log) : Epochs(h)' = Epochs(h) /\ (h # 0 => log'[h] = log[h])
<1>1. \A i \in 1..Len(log) : Append(log, [epochs |-> epochs, mine |-> mine])[i] = log[i]
  BY DEF IInv, TypeOK
<1>2. Len(log) \in Nat /\ \A h \in 0..Len(log) : h # 0 => log'[h] = log[h]
  BY <1>1 DEF Append1, IInv, TypeOK
<1> QED BY <1>2 DEF Epochs

(***************************************************************************)
(* Each step keeps the invariant                                           *)
(***************************************************************************)
\* A head appended to the log.
LEMMA KeepsLog ==
  ASSUME IInv, NEW epochs \in Nat, epochs >= 1, NEW mine \in BOOLEAN, Append1(epochs, mine)
  PROVE IInv'
<1> USE DEF IInv, CipherInv, Append1, cipher, queue, guard, bounds, ration
<1>1. log' \in Seq(Head0) /\ log' # <<>> /\ Len(log') = Len(log) + 1 /\ Len(log) \in Nat
  BY DEF TypeOK, Head0
<1>2. TypeOK'
  BY <1>1 DEF TypeOK, Refresh, Bootstrap
<1>3. \A i \in 1..Len(log') : log'[i].epochs >= 1
  <2> SUFFICES ASSUME NEW i \in 1..Len(log') PROVE log'[i].epochs >= 1
    OBVIOUS
  <2>1. CASE i \in 1..Len(log)
    BY <2>1, EpochsKept DEF HeadsInv
  <2>2. CASE i = Len(log) + 1
    <3>1. log'[i] = [epochs |-> epochs, mine |-> mine]
      BY <2>2 DEF TypeOK
    <3> QED BY <3>1
  <2> QED BY <1>1, <2>1, <2>2
<1>4. HeadsInv' /\ QueueInv' /\ SchemaInv' /\ RationInv' /\ RefusalStands' /\ SharedInv'
  BY <1>3 DEF HeadsInv, QueueInv, Caller, SchemaInv, Runs, RationInv, RefusalStands, SharedInv, Settled
<1>5. held \in 0..Len(log) /\ \A d \in Decrypts : refresh[d] \in Refresh /\ refresh[d].head \in 0..Len(log)
  BY DEF TypeOK, Refresh
<1>6. BuildInv'
  <2> SUFFICES ASSUME build # None, Runs(Rebuilds) PROVE Epochs(held)' <= Epochs(build.head)'
    BY DEF BuildInv, Runs, Rebuilds, Roster
  <2>1. build.head = Roster(Head(chain)) /\ build.head >= 1 /\ Epochs(held) <= Epochs(build.head)
    BY DEF BuildInv
  <2>2. build.head \in 0..Len(log)
    BY <2>1, <1>5, Running DEF Roster, Caller, TypeOK, Bootstrap, Runs, Rebuilds
  <2> QED BY <2>1, <2>2, <1>5, EpochsKept DEF Epochs
<1>7. DoneInv' /\ RefreshServes'
  BY <1>5, EpochsKept DEF DoneInv, RefreshServes, SharedInv, TypeOK, Read, Epochs
<1> QED BY <1>2, <1>4, <1>6, <1>7

\* A schema stored by another device.
LEMMA KeepsSchemaWrite == ASSUME IInv, WriteSchema PROVE IInv'
<1> USE DEF IInv, CipherInv, WriteSchema, cipher, queue, guard, bounds, ration
<1>1. TypeOK'
  <2>1. /\ \A i \in 1..Len(log) : log[i] \in Head0
        /\ Newest \in 1..Len(log)
    BY DEF TypeOK, Newest
  <2>2. log[Newest].epochs \in Nat
    BY <2>1 DEF Head0
  <2> QED BY <2>2 DEF TypeOK
<1>2. HeadsInv' /\ QueueInv' /\ BuildInv' /\ SchemaInv' /\ RationInv' /\ RefusalStands'
      /\ SharedInv' /\ DoneInv' /\ RefreshServes'
  BY DEF HeadsInv, QueueInv, Caller, BuildInv, Runs, Roster, Epochs, SchemaInv, RationInv,
         RefusalStands, SharedInv, Settled, DoneInv, RefreshServes
<1> QED BY <1>1, <1>2

\* The epoch a decrypt asks for is a positive number.
LEMMA Asked == ASSUME IInv, NEW e \in 1..Epochs(Newest) PROVE e \in Nat /\ e >= 1
BY RosterOrder DEF IInv, TypeOK, Newest

\* A decrypt that opens its envelope, or has no source to ask.
LEMMA KeepsDecrypt ==
  ASSUME IInv, NEW d \in Decrypts, NEW e \in 1..Epochs(Newest), Decrypt(d, e) PROVE IInv'
<1> USE DEF IInv, CipherInv, Decrypt, remote, cipher, queue, guard, bounds, ration
<1>1. /\ reads \in [Decrypts -> Read] /\ reads[d].memo = None
      /\ reads' \in [Decrypts -> Read]
      /\ reads'[d].memo = None /\ reads'[d].st \in {"ok", "unknown"}
      /\ \A x \in Decrypts \ {d} : reads'[x] = reads[x]
  BY Asked DEF TypeOK, Read, SharedInv
<1>2. TypeOK'
  BY <1>1 DEF TypeOK
<1>3. HeadsInv' /\ QueueInv' /\ BuildInv' /\ SchemaInv' /\ RationInv' /\ RefusalStands' /\ DoneInv'
  BY DEF HeadsInv, QueueInv, Caller, BuildInv, Runs, Roster, Epochs, SchemaInv, RationInv,
         RefusalStands, DoneInv
<1>4. SharedInv' /\ RefreshServes'
  BY <1>1 DEF SharedInv, Settled, RefreshServes, Epochs
<1> QED BY <1>2, <1>3, <1>4

\* A decrypt that waits on a refresh already spent.
LEMMA KeepsJoin ==
  ASSUME IInv, NEW d \in Decrypts, NEW e \in 1..Epochs(Newest), Join(d, e) PROVE IInv'
<1> USE DEF IInv, CipherInv, Join, Waits, remote, cipher, queue, guard, bounds, ration
<1>1. TypeOK'
  BY Asked DEF TypeOK, Read
<1>2. HeadsInv' /\ QueueInv' /\ BuildInv' /\ SchemaInv' /\ RationInv' /\ RefusalStands' /\ DoneInv'
  BY DEF HeadsInv, QueueInv, Caller, BuildInv, Runs, Roster, Epochs, SchemaInv, RationInv,
         RefusalStands, DoneInv
<1>3. SharedInv' /\ RefreshServes'
  BY Asked DEF TypeOK, SharedInv, Settled, RefreshServes, Epochs
<1> QED BY <1>1, <1>2, <1>3

\* A decrypt that spends the refresh.
LEMMA KeepsSpend ==
  ASSUME IInv, NEW d \in Decrypts, NEW e \in 1..Epochs(Newest), Spend(d, e) PROVE IInv'
<1> USE DEF IInv, CipherInv, Spend, Waits, remote, cipher, queue, guard, bounds, ration
<1>1. /\ d # None /\ reads[d].st = "new" /\ refresh[d].st = "none"
      /\ refresh'[d] = [st |-> "asked", source |-> source, head |-> 0]
      /\ \A x \in Decrypts \ {d} : refresh'[x] = refresh[x]
  BY ConstantsOK DEF TypeOK, SharedInv
<1>2. TypeOK'
  BY Asked DEF TypeOK, Read, Refresh
<1>3. HeadsInv' /\ SchemaInv' /\ RationInv' /\ DoneInv'
  BY <1>1 DEF HeadsInv, TypeOK, SchemaInv, Runs, RationInv, DoneInv, Epochs
<1>4. \A p \in Operation : Caller(p) => Caller(p)'
  BY <1>1 DEF Caller
<1>5. QueueInv'
  <2>1. \A i \in 1..Len(chain) : chain[i] \in Operation
    BY DEF TypeOK
  <2> QED BY <1>4, <2>1 DEF QueueInv, Caller
<1>6. BuildInv'
  BY <1>1, Running DEF BuildInv, Runs, Rebuilds, Roster, Caller, Epochs
<1>7. RefusalStands' /\ SharedInv' /\ RefreshServes'
  BY <1>1, Asked DEF TypeOK, RefusalStands, SharedInv, Settled, RefreshServes, Epochs
<1> QED BY <1>2, <1>3, <1>5, <1>6, <1>7

\* A refresh that moves on before it settles keeps what does not name its state.
LEMMA RefreshMoves ==
  ASSUME IInv, NEW d \in Decrypts, refresh[d].st \in {"asked", "served"}, d # None,
         refresh' \in [Decrypts -> Refresh],
         \A x \in Decrypts \ {d} : refresh'[x] = refresh[x],
         refresh'[d].source = refresh[d].source, refresh'[d].st # "none",
         refresh'[d].st # "done",
         UNCHANGED <<log, held, reads, boot>>
  PROVE /\ \A p \in Operation : Caller(p) => Caller(p)'
        /\ \A x \in Decrypts : refresh[x].st # "none" => refresh'[x].st # "none"
        /\ DoneInv' /\ RefreshServes'
        /\ \A x \in Decrypts :
             /\ reads[x].st = "new" => refresh'[x].st = "none" /\ reads[x].memo = None
             /\ reads[x].memo # None => refresh'[reads[x].memo].st # "none"
             /\ reads[x].st = "waiting" => reads[x].epoch >= 1
             /\ reads[x].st = "unknown" /\ reads[x].memo # None => Settled(reads[x].memo)'
<1> USE DEF IInv, CipherInv
<1>1. \A p \in Operation : Caller(p) => Caller(p)'
  BY DEF Caller
<1>2. DoneInv'
  BY DEF DoneInv, Epochs
<1>3. \A x \in Decrypts : reads[x].memo \in Decrypts \cup {None}
  BY DEF TypeOK, Read
<1>4. \A x \in Decrypts :
        /\ reads[x].st = "new" => refresh'[x].st = "none" /\ reads[x].memo = None
        /\ reads[x].memo # None => refresh'[reads[x].memo].st # "none"
        /\ reads[x].st = "waiting" => reads[x].epoch >= 1
        /\ reads[x].st = "unknown" /\ reads[x].memo # None =>
             Settled(reads[x].memo) /\ refresh'[reads[x].memo] = refresh[reads[x].memo]
  BY <1>3 DEF SharedInv, Settled
<1>5. RefreshServes'
  BY <1>3, <1>4 DEF RefreshServes, Epochs
<1> QED BY <1>1, <1>2, <1>4, <1>5 DEF Settled

\* The source reads the log.
LEMMA KeepsServe == ASSUME IInv, NEW d \in Decrypts, Serve(d) PROVE IInv'
<1> USE DEF IInv, CipherInv, Serve, remote, cipher, queue, guard, bounds, ration
<1>1. Newest \in Nat /\ Newest >= 1
  BY DEF TypeOK, Newest
<1>2. /\ refresh' \in [Decrypts -> Refresh] /\ refresh'[d].st = "served" /\ refresh'[d].head = Newest
      /\ refresh'[d].source = refresh[d].source /\ d # None
      /\ \A x \in Decrypts \ {d} : refresh'[x] = refresh[x]
  BY <1>1, ConstantsOK DEF TypeOK, Refresh
<1>3. TypeOK'
  BY <1>1, <1>2 DEF TypeOK, Newest
<1>4. HeadsInv' /\ SchemaInv' /\ RationInv'
  BY <1>1, <1>2 DEF HeadsInv, SchemaInv, Runs, RationInv
<1>5. /\ \A p \in Operation : Caller(p) => Caller(p)'
      /\ SharedInv' /\ DoneInv' /\ RefreshServes' /\ RefusalStands'
  BY <1>2, RefreshMoves DEF SharedInv, RefusalStands, TypeOK
<1>6. QueueInv'
  <2>1. \A i \in 1..Len(chain) : chain[i] \in Operation
    BY DEF TypeOK
  <2> QED BY <1>5, <2>1 DEF QueueInv, Caller
<1>7. BuildInv'
  BY <1>2, Running DEF BuildInv, Runs, Rebuilds, Roster, Caller, Epochs
<1> QED BY <1>3, <1>4, <1>5, <1>6, <1>7

\* The answer is a roster: its rebuild is queued.
LEMMA KeepsAnswer == ASSUME IInv, NEW d \in Decrypts, Answer(d) PROVE IInv'
<1> DEFINE op == [kind |-> "refresh", by |-> d]
<1> USE DEF IInv, CipherInv, Answer, remote, cipher, guard, bounds, ration
<1>1. /\ refresh' \in [Decrypts -> Refresh] /\ refresh'[d].st = "queued"
      /\ refresh'[d].head = refresh[d].head /\ refresh'[d].source = refresh[d].source /\ d # None
      /\ \A x \in Decrypts \ {d} : refresh'[x] = refresh[x]
  BY ConstantsOK DEF TypeOK, Refresh
<1>2. /\ \A p \in Operation : Caller(p) => Caller(p)'
      /\ SharedInv' /\ DoneInv' /\ RefreshServes' /\ RefusalStands'
  BY <1>1, RefreshMoves DEF SharedInv, RefusalStands, TypeOK
<1>3. op \in Operation /\ Caller(op)' /\ ~Caller(op)
  BY <1>1 DEF Operation, Caller
<1>4. /\ chain' \in Seq(Operation) /\ QueueInv' /\ chain' # <<>>
      /\ chain # <<>> => Head(chain') = Head(chain)
  <2> HIDE DEF op
  <2>1. chain' = Append(chain, op) BY DEF op
  <2> QED BY <1>2, <1>3, <2>1, QueueGrows
<1>5. TypeOK'
  BY <1>1, <1>4 DEF TypeOK
<1>6. HeadsInv' /\ SchemaInv' /\ RationInv'
  BY <1>1, <1>4 DEF HeadsInv, SchemaInv, BuildInv, Runs, RationInv
<1>7. BuildInv'
  BY <1>1, <1>4, Running DEF BuildInv, Runs, Rebuilds, Roster, Caller, Epochs
<1> QED BY <1>2, <1>4, <1>5, <1>6, <1>7

\* The source refuses the log.
LEMMA KeepsRefuse == ASSUME IInv, NEW d \in Decrypts, Refuse(d) PROVE IInv'
<1> USE DEF IInv, CipherInv, Refuse, remote, cipher, queue, ration
<1>1. /\ refresh' \in [Decrypts -> Refresh] /\ refresh'[d].st = "refused"
      /\ refresh'[d].head = refresh[d].head /\ refresh'[d].source = refresh[d].source /\ d # None
      /\ \A x \in Decrypts \ {d} : refresh'[x] = refresh[x]
      /\ refusal' = refusal \/ (refusal' = d /\ refresh[d].source = source)
  BY ConstantsOK DEF TypeOK, Refresh, Record, Stands
<1>2. TypeOK'
  BY <1>1 DEF TypeOK
<1>3. HeadsInv' /\ SchemaInv' /\ RationInv'
  BY <1>1 DEF HeadsInv, SchemaInv, Runs, RationInv
<1>4. /\ \A p \in Operation : Caller(p) => Caller(p)'
      /\ SharedInv' /\ DoneInv' /\ RefreshServes' /\ RefusalStands'
  BY <1>1, RefreshMoves DEF SharedInv, RefusalStands, TypeOK
<1>5. QueueInv'
  <2>1. \A i \in 1..Len(chain) : chain[i] \in Operation
    BY DEF TypeOK
  <2> QED BY <1>4, <2>1 DEF QueueInv, Caller
<1>6. BuildInv'
  BY <1>1, Running DEF BuildInv, Runs, Rebuilds, Roster, Caller, Epochs
<1> QED BY <1>2, <1>3, <1>4, <1>5, <1>6

\* The read of the log fails, and the refresh is given back.
LEMMA KeepsFail == ASSUME IInv, NEW d \in Decrypts, Fail(d) PROVE IInv'
<1> USE DEF IInv, CipherInv, Fail, remote, cipher, queue
<1>1. /\ refresh' \in [Decrypts -> Refresh] /\ refresh'[d].st = "failed"
      /\ refresh'[d].head = refresh[d].head /\ refresh'[d].source = refresh[d].source /\ d # None
      /\ \A x \in Decrypts \ {d} : refresh'[x] = refresh[x]
      /\ memo' = memo \/ memo' = None
  BY ConstantsOK DEF TypeOK, Refresh
<1>2. TypeOK'
  <2>1. faults' \in Nat /\ memo' \in Decrypts \cup {None} /\ allowed' \in Nat
    BY <1>1 DEF TypeOK
  <2>3. spent' \in BOOLEAN
    OBVIOUS
  <2>2. \A x \in Decrypts : refresh'[x].head <= Len(log)
    BY <1>1 DEF TypeOK
  <2> QED BY <1>1, <2>1, <2>2, <2>3 DEF TypeOK
<1>3. HeadsInv' /\ SchemaInv' /\ RationInv'
  BY <1>1 DEF HeadsInv, SchemaInv, Runs, RationInv, TypeOK
<1>4. /\ \A p \in Operation : Caller(p) => Caller(p)'
      /\ SharedInv' /\ DoneInv' /\ RefreshServes' /\ RefusalStands'
  BY <1>1, RefreshMoves DEF SharedInv, RefusalStands, TypeOK
<1>5. QueueInv'
  <2>1. \A i \in 1..Len(chain) : chain[i] \in Operation
    BY DEF TypeOK
  <2> QED BY <1>4, <2>1 DEF QueueInv, Caller
<1>6. BuildInv'
  BY <1>1, Running DEF BuildInv, Runs, Rebuilds, Roster, Caller, Epochs
<1> QED BY <1>2, <1>3, <1>4, <1>5, <1>6

\* A decrypt that ends after its refresh has settled.  It reports an unknown epoch only when the
\* cipher held now, no older than what the refresh read, does not list it.
LEMMA KeepsRetry == ASSUME IInv, NEW d \in Decrypts, Retry(d) PROVE IInv'
<1> USE DEF IInv, CipherInv, Retry, remote, cipher, queue, guard, bounds, ration
<1>1. /\ reads[d] \in Read /\ reads' \in [Decrypts -> Read]
      /\ reads'[d].epoch = reads[d].epoch /\ reads'[d].memo = reads[d].memo
      /\ reads'[d].st \in {"ok", "unknown", "refused"}
      /\ reads'[d].st = "unknown" => ~Lists(held, reads[d].epoch)
      /\ \A x \in Decrypts \ {d} : reads'[x] = reads[x]
  BY DEF TypeOK, Read
<1>2. TypeOK'
  BY <1>1 DEF TypeOK
<1>3. HeadsInv' /\ QueueInv' /\ BuildInv' /\ SchemaInv' /\ RationInv' /\ RefusalStands' /\ DoneInv'
  BY DEF HeadsInv, QueueInv, Caller, BuildInv, Runs, Roster, Epochs, SchemaInv, RationInv,
         RefusalStands, DoneInv
<1>4. SharedInv'
  BY <1>1 DEF SharedInv, Settled
<1>5. RefreshServes'
  <2> SUFFICES ASSUME NEW x \in Decrypts, reads'[x].st = "unknown", reads'[x].memo # None,
                      refresh[reads'[x].memo].st = "done"
               PROVE reads'[x].epoch > Epochs(refresh[reads'[x].memo].head)
    BY DEF RefreshServes, Epochs
  <2>1. CASE x # d
    BY <1>1, <2>1 DEF RefreshServes
  <2>2. CASE x = d
    <3>1. /\ reads[d].memo \in Decrypts /\ reads[d].epoch \in Nat /\ reads[d].epoch >= 1
          /\ ~Lists(held, reads[d].epoch)
      BY <1>1, <2>2 DEF Read, SharedInv
    <3>2. refresh[reads[d].memo].head \in 1..Len(log)
      BY <1>1, <2>2, <3>1 DEF TypeOK, Refresh, HeadsInv
    <3>3. /\ Epochs(refresh[reads[d].memo].head) \in Nat /\ Epochs(held) \in Nat
          /\ Epochs(refresh[reads[d].memo].head) <= Epochs(held)
      BY <1>1, <2>2, <3>1, <3>2, RosterOrder DEF DoneInv
    <3>4. reads[d].epoch > Epochs(held)
      BY <3>1, <3>3 DEF Lists
    <3> QED BY <1>1, <2>2, <3>1, <3>3, <3>4
  <2> QED BY <2>1, <2>2
<1> QED BY <1>2, <1>3, <1>4, <1>5

\* The roster of a rebuild is a head of the log.
LEMMA RosterOfRebuild ==
  ASSUME IInv, Runs(Rebuilds)
  PROVE Roster(Head(chain)) \in 1..Len(log)
BY Running DEF IInv, CipherInv, Runs, Rebuilds, Roster, Caller, HeadsInv, TypeOK, Refresh, Bootstrap

\* A rebuild that ends keeps what the refreshes and the decrypts say of each other, when a
\* refresh that it ends well holds its roster.
LEMMA RebuildEnds ==
  ASSUME IInv, Runs(Rebuilds), NEW ok \in BOOLEAN, Told(Head(chain), ok), chain' = Tail(chain),
         log' = log, reads' = reads,
         ok = FALSE \/ Epochs(Roster(Head(chain))) <= Epochs(held'), Epochs(held) <= Epochs(held'),
         held' \in 0..Len(log), memo' = memo \/ memo' = None,
         refusal' = refusal \/ refusal' = None
           \/ (ok = FALSE /\ refusal' = Head(chain).by /\ Head(chain).kind = "refresh")
  PROVE HeadsInv' /\ SharedInv' /\ DoneInv' /\ RefreshServes'
<1> USE DEF IInv, CipherInv
<1> DEFINE r == refresh'
<1>1. /\ r \in [Decrypts -> Refresh] /\ boot'.head = boot.head /\ (boot.st # "idle" \/ boot' = boot)
      /\ \A d \in Decrypts :
           /\ r[d].head = refresh[d].head /\ r[d].source = refresh[d].source
           /\ \/ r[d].st = refresh[d].st
              \/ /\ Head(chain).kind = "refresh" /\ Head(chain).by = d
                 /\ refresh[d].st = "queued" /\ r[d].st = IF ok THEN "done" ELSE "refused"
  BY ToldCaller
<1>2. \A d \in Decrypts : /\ refresh[d].head \in 0..Len(log) /\ refresh[d].head = r[d].head
                          /\ Epochs(refresh[d].head) \in Nat
  <2>1. \A d \in Decrypts : refresh[d].head \in 0..Len(log)
    BY DEF TypeOK, Refresh
  <2>2. \A h \in 1..Len(log) : Epochs(h) \in Nat
    BY RosterOrder
  <2>3. Epochs(0) = 0
    BY DEF Epochs
  <2> QED BY <1>1, <2>1, <2>2, <2>3 DEF TypeOK
<1>3. Epochs(held) \in Nat /\ Epochs(held') \in Nat
  <2>1. \A h \in 1..Len(log) : Epochs(h) \in Nat
    BY RosterOrder
  <2>2. Epochs(0) = 0
    BY DEF Epochs
  <2> QED BY <2>1, <2>2 DEF TypeOK
<1>4. HeadsInv'
  BY <1>1 DEF HeadsInv
<1>5. \A d \in Decrypts : r[d].st = "done" => Epochs(r[d].head) <= Epochs(held')
  <2> SUFFICES ASSUME NEW d \in Decrypts, r[d].st = "done" PROVE Epochs(r[d].head) <= Epochs(held')
    OBVIOUS
  <2>1. CASE refresh[d].st = "done"
    BY <1>2, <1>3, <2>1 DEF DoneInv
  <2>2. CASE refresh[d].st # "done"
    BY <1>1, <1>2, <2>2 DEF Roster
  <2> QED BY <2>1, <2>2
<1>6. DoneInv'
  BY <1>5 DEF DoneInv, Epochs
<1>7. Head(chain).kind = "refresh" => Head(chain).by \in Decrypts /\ refresh[Head(chain).by].st = "queued"
  BY Running DEF Caller, Runs
<1>8. \A d \in Decrypts : refresh[d].st # "none" <=> r[d].st # "none"
  BY <1>1
<1>9. \A d \in Decrypts : Settled(d) => r[d].st = refresh[d].st
  BY <1>1 DEF Settled
<1>10. \A d \in Decrypts : reads[d].memo \in Decrypts \cup {None}
  BY DEF TypeOK, Read
<1>11. SharedInv'
  <2>1. \A x \in {memo', refusal'} : x # None => r[x].st # "none"
    BY <1>7, <1>8 DEF SharedInv, TypeOK
  <2> QED BY <1>8, <1>9, <1>10, <2>1 DEF SharedInv, Settled
<1>12. RefreshServes'
  BY <1>2, <1>9, <1>10 DEF RefreshServes, SharedInv, Epochs
<1> QED BY <1>4, <1>6, <1>11, <1>12

\* A roster that the cipher holds or postdates.
LEMMA KeepsSkip == ASSUME IInv, SkipRebuild PROVE IInv'
<1> USE DEF IInv, CipherInv, SkipRebuild, remote, cipher, guard, bounds, ration
<1>1. /\ chain' \in Seq(Operation) /\ QueueInv' /\ refresh' \in [Decrypts -> Refresh] /\ boot' \in Bootstrap
      /\ boot'.head = boot.head
      /\ \A d \in Decrypts : refresh'[d].head = refresh[d].head /\ refresh'[d].source = refresh[d].source
  BY ToldCaller
<1>2. TypeOK'
  BY <1>1 DEF TypeOK
<1>3. HeadsInv' /\ SharedInv' /\ DoneInv' /\ RefreshServes'
  <2>1. /\ held' = held /\ held \in 0..Len(log) /\ Epochs(held) \in Nat
        /\ Epochs(Roster(Head(chain))) <= Epochs(held)
    BY RosterOfRebuild, RosterOrder DEF TypeOK
  <2>2. Told(Head(chain), TRUE) /\ chain' = Tail(chain) /\ log' = log /\ reads' = reads
        /\ memo' = memo /\ refusal' = refusal
    OBVIOUS
  <2>3. Runs(Rebuilds)
    OBVIOUS
  <2> HIDE DEF SkipRebuild, CipherInv, IInv
  <2>4. /\ Epochs(held) <= Epochs(held') /\ held' \in 0..Len(log)
        /\ Epochs(Roster(Head(chain))) <= Epochs(held')
    BY <2>1
  <2> QED BY <2>2, <2>3, <2>4, RebuildEnds
<1>4. BuildInv' /\ SchemaInv' /\ RationInv' /\ RefusalStands'
  BY <1>1 DEF BuildInv, SchemaInv, RationInv, RefusalStands, TypeOK
<1> QED BY <1>1, <1>2, <1>3, <1>4

\* A rebuild that starts.
LEMMA KeepsStart == ASSUME IInv, StartRebuild PROVE IInv'
<1> USE DEF IInv, CipherInv, StartRebuild, remote, cipher, guard, bounds, ration
<1>1. Roster(Head(chain)) \in 1..Len(log) /\ Epochs(held) <= Epochs(Roster(Head(chain)))
  BY RosterOfRebuild, RosterOrder
<1>2. TypeOK'
  BY <1>1 DEF TypeOK, Building
<1>3. BuildInv'
  <2>1. build' = [head |-> Roster(Head(chain)), meta |-> meta] /\ meta \in Nat /\ build' # None
    BY <1>1, ConstantsOK DEF TypeOK
  <2> QED BY <1>1, <2>1 DEF BuildInv, Runs, Roster, Epochs
<1>4. HeadsInv' /\ QueueInv' /\ SchemaInv' /\ RationInv' /\ RefusalStands' /\ SharedInv' /\ DoneInv'
      /\ RefreshServes'
  BY DEF HeadsInv, QueueInv, Caller, SchemaInv, Runs, RationInv, RefusalStands, SharedInv, Settled,
         DoneInv, RefreshServes, Epochs
<1> QED BY <1>2, <1>3, <1>4

\* A rebuild that ends well: the cipher moves to a roster with as many epochs or more.
LEMMA KeepsRebuilt == ASSUME IInv, Rebuilt PROVE IInv'
<1> USE DEF IInv, CipherInv, Rebuilt, remote, bounds
<1>1. /\ chain' \in Seq(Operation) /\ QueueInv' /\ refresh' \in [Decrypts -> Refresh] /\ boot' \in Bootstrap
      /\ boot'.head = boot.head
      /\ \A d \in Decrypts : refresh'[d].head = refresh[d].head /\ refresh'[d].source = refresh[d].source
  BY ToldCaller
<1>2. /\ build.head = Roster(Head(chain)) /\ build.head \in 1..Len(log) /\ build.meta = meta
      /\ Epochs(held) <= Epochs(build.head) /\ build' = None
  BY RosterOfRebuild DEF BuildInv
<1>3. TypeOK'
  <2>1. held' \in 0..Len(log) /\ schema' \in Nat /\ build' \in Building \cup {None}
    BY <1>2 DEF TypeOK
  <2>2. /\ memo' \in Decrypts \cup {None} /\ refusal' \in Decrypts \cup {None}
        /\ allowed' \in Nat
    BY DEF TypeOK
  <2>4. spent' \in BOOLEAN
    BY Zenon DEF TypeOK, guard
  <2>3. \A d \in Decrypts : refresh'[d].head <= Len(log)
    BY <1>1 DEF TypeOK
  <2> QED BY <1>1, <2>1, <2>2, <2>3, <2>4 DEF TypeOK
<1>4. HeadsInv' /\ SharedInv' /\ DoneInv' /\ RefreshServes'
  <2>1. Epochs(build.head) \in Nat /\ held' = build.head
    BY <1>2, RosterOrder
  <2>2. memo' = memo \/ memo' = None
    OBVIOUS
  <2>3. refusal' = refusal \/ refusal' = None
    OBVIOUS
  <2>4. held' \in 0..Len(log) /\ Epochs(Roster(Head(chain))) <= Epochs(held') /\ Epochs(held) <= Epochs(held')
    BY <1>2, <2>1
  <2>5. Told(Head(chain), TRUE) /\ chain' = Tail(chain) /\ log' = log /\ reads' = reads
    OBVIOUS
  <2>6. Runs(Rebuilds)
    OBVIOUS
  <2> HIDE DEF Rebuilt, CipherInv, IInv
  <2> QED BY <2>2, <2>3, <2>4, <2>5, <2>6, RebuildEnds
<1>5. BuildInv' /\ SchemaInv'
  BY <1>2 DEF BuildInv, SchemaInv
<1>6. RationInv'
  BY DEF RationInv, TypeOK
<1>7. RefusalStands'
  BY <1>1 DEF RefusalStands, TypeOK
<1> QED BY <1>1, <1>3, <1>4, <1>5, <1>6, <1>7

\* A rebuild that fails: a refresh may record its refusal.
LEMMA KeepsRebuildFails == ASSUME IInv, RebuildFails PROVE IInv'
<1> USE DEF IInv, CipherInv, RebuildFails, remote, cipher, bounds, ration
<1>1. /\ chain' \in Seq(Operation) /\ QueueInv' /\ refresh' \in [Decrypts -> Refresh] /\ boot' \in Bootstrap
      /\ boot'.head = boot.head
      /\ \A d \in Decrypts : refresh'[d].head = refresh[d].head /\ refresh'[d].source = refresh[d].source
  BY ToldCaller
<1>2. \/ refusal' = refusal
      \/ /\ Head(chain).kind = "refresh" /\ refusal' = Head(chain).by /\ Head(chain).by \in Decrypts
         /\ refresh[Head(chain).by].source = source
  BY Running DEF Record, Stands, Runs, Caller
<1>3. TypeOK'
  BY <1>1, <1>2 DEF TypeOK
<1>4. HeadsInv' /\ SharedInv' /\ DoneInv' /\ RefreshServes'
  <2>1. held' = held /\ held \in 0..Len(log) /\ Epochs(held) \in Nat
    BY RosterOrder, RosterOfRebuild DEF TypeOK
  <2>2. Told(Head(chain), FALSE) /\ chain' = Tail(chain) /\ log' = log /\ reads' = reads /\ memo' = memo
    OBVIOUS
  <2>3. Runs(Rebuilds)
    OBVIOUS
  <2>4. held' \in 0..Len(log) /\ Epochs(held) <= Epochs(held')
    BY <2>1
  <2> HIDE DEF RebuildFails, CipherInv, IInv
  <2> QED BY <1>2, <2>2, <2>3, <2>4, RebuildEnds
<1>5. BuildInv' /\ RationInv'
  BY DEF BuildInv, RationInv
<1>6. SchemaInv'
  BY DEF SchemaInv, Runs, Rebuilds
<1>7. RefusalStands'
  BY <1>1, <1>2 DEF RefusalStands, TypeOK
<1> QED BY <1>1, <1>3, <1>4, <1>5, <1>6, <1>7

\* A schema remembered, whose install starts.
LEMMA KeepsStartInstall == ASSUME IInv, StartInstall PROVE IInv'
<1> USE DEF IInv, CipherInv, StartInstall, remote, guard, bounds, ration
<1>1. boot.custom \in Nat
  BY DEF TypeOK, Bootstrap
<1>2. TypeOK'
  BY <1>1 DEF TypeOK, Building
<1>3. build' # None /\ build'.meta = meta' /\ Runs({"meta"})' /\ ~Runs(Rebuilds)'
  <2>1. build' \in Building
    BY <1>1 DEF Building
  <2>2. None \notin Building
    BY ConstantsOK DEF Building
  <2> QED BY <2>1, <2>2 DEF Runs, Rebuilds
<1>4. BuildInv' /\ SchemaInv'
  BY <1>3 DEF BuildInv, SchemaInv, Runs, Rebuilds
<1>5. HeadsInv' /\ QueueInv' /\ RationInv' /\ RefusalStands' /\ SharedInv' /\ DoneInv' /\ RefreshServes'
  BY DEF HeadsInv, QueueInv, Caller, RationInv, RefusalStands, SharedInv, Settled, DoneInv,
         RefreshServes, Epochs
<1> QED BY <1>2, <1>4, <1>5

\* An install that ends.
LEMMA KeepsInstall == ASSUME IInv, Install PROVE IInv'
<1> USE DEF IInv, CipherInv, Install, remote, guard, bounds, ration
<1>1. /\ chain # <<>> /\ Head(chain).kind = "meta" /\ boot.st = "installing" /\ boot \in Bootstrap
      /\ Head(chain) = [kind |-> "meta", by |-> None]
  <2>1. chain # <<>> /\ Head(chain).kind = "meta"
    BY DEF Runs
  <2> QED BY <2>1, Running DEF Caller, TypeOK, Operation
<1>2. boot' \in Bootstrap /\ boot'.st = "source" /\ boot'.head = boot.head
  BY <1>1 DEF Bootstrap
<1>3. \A p \in Operation : p # Head(chain) /\ Caller(p) => Caller(p)'
  BY <1>1 DEF Caller, Operation
<1>4. chain' \in Seq(Operation) /\ QueueInv'
  BY <1>1, <1>3, QueueShrinks
<1>5. TypeOK'
  <2>1. build.meta \in Nat
    BY DEF TypeOK, Building
  <2> QED BY <1>2, <1>4, <2>1 DEF TypeOK
<1>6. HeadsInv'
  BY <1>1, <1>2 DEF HeadsInv
<1>7. BuildInv' /\ SchemaInv'
  BY DEF BuildInv, SchemaInv
<1>8. RationInv' /\ RefusalStands' /\ SharedInv' /\ DoneInv' /\ RefreshServes'
  BY DEF RationInv, RefusalStands, SharedInv, Settled, DoneInv, RefreshServes, Epochs
<1> QED BY <1>4, <1>5, <1>6, <1>7, <1>8

\* A bootstrap reads the log and the stored schema.
LEMMA KeepsBootRead == ASSUME IInv, BootRead PROVE IInv'
<1> USE DEF IInv, CipherInv, BootRead, remote, cipher, queue, guard, ration
<1>1. Newest \in Nat /\ Newest >= 1 /\ Newest = Len(log)
  BY DEF TypeOK, Newest
<1>2. TypeOK'
  BY <1>1 DEF TypeOK, Bootstrap
<1>3. \A p \in Operation : Caller(p) => Caller(p)'
  BY DEF Caller
<1>4. QueueInv'
  <2>1. \A i \in 1..Len(chain) : chain[i] \in Operation
    BY DEF TypeOK
  <2> QED BY <1>3, <2>1 DEF QueueInv, Caller
<1>5. HeadsInv'
  BY <1>1 DEF HeadsInv
<1>6. BuildInv'
  BY Running DEF BuildInv, Runs, Rebuilds, Roster, Caller, Epochs
<1>7. SchemaInv' /\ RationInv' /\ RefusalStands' /\ SharedInv' /\ DoneInv' /\ RefreshServes'
  BY DEF SchemaInv, Runs, RationInv, RefusalStands, SharedInv, Settled, DoneInv, RefreshServes, Epochs
<1> QED BY <1>2, <1>4, <1>5, <1>6, <1>7

\* A bootstrap queues the install of the descriptor it read.
LEMMA KeepsBootApply == ASSUME IInv, BootApply PROVE IInv'
<1> USE DEF IInv, CipherInv, BootApply, remote, cipher, guard, bounds, ration
<1> DEFINE op == [kind |-> "apply", by |-> None]
<1>1. boot' \in Bootstrap /\ boot'.st = "applying" /\ boot'.head = boot.head /\ boot.st = "read"
  BY DEF TypeOK, Bootstrap
<1>2. /\ op \in Operation /\ Caller(op)' /\ ~Caller(op)
      /\ \A p \in Operation : Caller(p) => Caller(p)'
  BY <1>1 DEF Operation, Caller
<1>3. /\ chain' \in Seq(Operation) /\ QueueInv' /\ chain' # <<>>
      /\ chain # <<>> => Head(chain') = Head(chain)
  <2> HIDE DEF op
  <2>1. chain' = Append(chain, op) BY DEF op, Enqueue
  <2> QED BY <1>2, <2>1, QueueGrows
<1>4. TypeOK'
  BY <1>1, <1>3 DEF TypeOK
<1>5. HeadsInv' /\ SchemaInv'
  BY <1>1, <1>3 DEF HeadsInv, SchemaInv, BuildInv, Runs
<1>6. BuildInv'
  BY <1>1, <1>3, Running DEF BuildInv, Runs, Rebuilds, Roster, Caller, Epochs
<1>7. RationInv' /\ RefusalStands' /\ SharedInv' /\ DoneInv' /\ RefreshServes'
  BY DEF RationInv, RefusalStands, SharedInv, Settled, DoneInv, RefreshServes, Epochs
<1> QED BY <1>3, <1>4, <1>5, <1>6, <1>7

\* A bootstrap queues the install of a schema, or skips it.
LEMMA KeepsBootSchema == ASSUME IInv, BootSchema PROVE IInv'
<1> USE DEF IInv, CipherInv, BootSchema, remote, cipher, guard, bounds, ration
<1> DEFINE op == [kind |-> "meta", by |-> None]
<1>1. boot' \in Bootstrap /\ boot'.head = boot.head /\ boot.st = "meta" /\ boot'.st \in {"installing", "source"}
  BY DEF TypeOK, Bootstrap
<1>2. /\ op \in Operation /\ ~Caller(op) /\ (boot'.st = "installing" => Caller(op)')
      /\ \A p \in Operation : Caller(p) => Caller(p)'
  BY <1>1 DEF Operation, Caller
<1>3. \/ boot'.st = "installing" /\ chain' = Append(chain, op)
      \/ chain' = chain
  BY <1>1 DEF Enqueue, TypeOK, Bootstrap
<1>4. /\ chain' \in Seq(Operation) /\ QueueInv'
      /\ chain # <<>> => chain' # <<>> /\ Head(chain') = Head(chain)
  <2>1. CASE chain' = chain
    <3>1. \A i \in 1..Len(chain) : chain[i] \in Operation
      BY DEF TypeOK
    <3> QED BY <1>2, <2>1, <3>1 DEF QueueInv, Caller, TypeOK
  <2>2. CASE boot'.st = "installing" /\ chain' = Append(chain, op)
    <3> HIDE DEF op
    <3> QED BY <1>2, <2>2, QueueGrows
  <2> QED BY <1>3, <2>1, <2>2
<1>5. TypeOK'
  BY <1>1, <1>4 DEF TypeOK
<1>6. HeadsInv' /\ SchemaInv'
  BY <1>1, <1>4 DEF HeadsInv, SchemaInv, BuildInv, Runs
<1>7. BuildInv'
  BY <1>1, <1>4, Running DEF BuildInv, Runs, Rebuilds, Roster, Caller, Epochs
<1>8. RationInv' /\ RefusalStands' /\ SharedInv' /\ DoneInv' /\ RefreshServes'
  BY DEF RationInv, RefusalStands, SharedInv, Settled, DoneInv, RefreshServes, Epochs
<1> QED BY <1>4, <1>5, <1>6, <1>7, <1>8

\* A bootstrap installs the source, which re-arms the refresh.
LEMMA KeepsSetSource == ASSUME IInv, SetSource PROVE IInv'
<1> USE DEF IInv, CipherInv, SetSource, remote, cipher, queue, bounds
<1>1. TypeOK'
  <2>1. boot' \in Bootstrap /\ boot'.head <= Len(log)
    BY DEF TypeOK, Bootstrap, NoBoot
  <2>2. source' \in Nat /\ asked' \in Nat /\ allowed' \in Nat /\ memo' = None /\ refusal' = None
    BY DEF TypeOK
  <2>3. spent' \in BOOLEAN
    OBVIOUS
  <2> QED BY <2>1, <2>2, <2>3 DEF TypeOK
<1>2. \A p \in Operation : Caller(p) => Caller(p)'
  BY DEF Caller
<1>3. QueueInv'
  <2>1. \A i \in 1..Len(chain) : chain[i] \in Operation
    BY DEF TypeOK
  <2> QED BY <1>2, <2>1 DEF QueueInv, Caller
<1>4. HeadsInv'
  BY DEF HeadsInv, NoBoot
<1>5. BuildInv'
  BY Running DEF BuildInv, Runs, Rebuilds, Roster, Caller, Epochs
<1>6. SchemaInv' /\ RationInv' /\ RefusalStands' /\ SharedInv' /\ DoneInv' /\ RefreshServes'
  BY DEF TypeOK, SchemaInv, Runs, RationInv, RefusalStands, SharedInv, Settled, DoneInv, RefreshServes, Epochs
<1> QED BY <1>1, <1>3, <1>4, <1>5, <1>6

\* The store opens with the invariants.
LEMMA Opens == Init => IInv
<1> SUFFICES ASSUME Init PROVE IInv
  OBVIOUS
<1> USE DEF Init, NoBoot
<1>1. log \in Seq(Head0) /\ Len(log) = 1 /\ log # <<>> /\ log[1].epochs = 1
  BY DEF Head0
<1>2. TypeOK
  <2>1. /\ held \in 0..Len(log) /\ chain \in Seq(Operation)
        /\ refresh \in [Decrypts -> Refresh] /\ \A d \in Decrypts : refresh[d].head = 0
    BY <1>1 DEF Refresh
  <2>3. spent \in BOOLEAN
    OBVIOUS
  <2>2. reads \in [Decrypts -> Read] /\ boot \in Bootstrap /\ boot.head = 0
    BY DEF Read, Bootstrap
  <2> QED BY <1>1, <2>1, <2>2, <2>3 DEF TypeOK
<1>3. CipherInv
  BY <1>1 DEF CipherInv, HeadsInv, QueueInv, BuildInv, SchemaInv, RationInv, RefusalStands, SharedInv,
              DoneInv, RefreshServes
<1> QED BY <1>2, <1>3 DEF IInv

\* Every step keeps the invariants.
LEMMA Keeps == IInv /\ [Next]_vars => IInv'
<1> SUFFICES ASSUME IInv, [Next]_vars PROVE IInv'
  OBVIOUS
<1>1. ASSUME Space PROVE IInv'
  <2>1. log[Newest].epochs \in Nat /\ log[Newest].epochs >= 1 /\ log[Newest].mine \in BOOLEAN
    <3>1. Newest \in 1..Len(log) /\ log[Newest] \in Head0
      BY DEF IInv, TypeOK, Newest
    <3> QED BY <3>1 DEF Head0, IInv, CipherInv, HeadsInv
  <2>2. ASSUME NEW mine \in BOOLEAN, Rotate(mine) PROVE IInv'
    BY <2>1, <2>2, KeepsLog DEF Rotate
  <2>3. ASSUME Rewrap PROVE IInv'
    BY <2>1, <2>3, KeepsLog DEF Rewrap
  <2> QED BY <1>1, <2>2, <2>3, KeepsSchemaWrite DEF Space
<1>2. ASSUME Chain PROVE IInv'
  BY <1>2, KeepsSkip, KeepsStart, KeepsRebuilt, KeepsRebuildFails, KeepsStartInstall, KeepsInstall DEF Chain
<1>3. ASSUME Boot PROVE IInv'
  BY <1>3, KeepsBootRead, KeepsBootApply, KeepsBootSchema, KeepsSetSource DEF Boot
<1>4. ASSUME NEW d \in Decrypts, Step(d) PROVE IInv'
  BY <1>4, KeepsServe, KeepsAnswer, KeepsRefuse, KeepsFail, KeepsRetry DEF Step, Answers
<1>5. ASSUME NEW d \in Decrypts, NEW e \in 1..Epochs(Newest), Decrypt(d, e) \/ Join(d, e) \/ Spend(d, e)
      PROVE IInv'
  BY <1>5, KeepsDecrypt, KeepsJoin, KeepsSpend
<1>6. ASSUME UNCHANGED vars PROVE IInv'
  BY <1>6 DEF IInv, TypeOK, CipherInv, HeadsInv, QueueInv, Caller, BuildInv, Runs, Roster, Epochs, SchemaInv,
       RationInv, RefusalStands, SharedInv, Settled, DoneInv, RefreshServes,
       vars, remote, cipher, queue, guard, bounds, ration
<1> QED BY <1>1, <1>2, <1>3, <1>4, <1>5, <1>6 DEF Next

\* The cipher only moves to a roster with as many epochs or more, and the log keeps those of the
\* roster it holds.
LEMMA Advances == IInv /\ [Next]_vars => [Epochs(held) <= Epochs(held)']_vars
<1> SUFFICES ASSUME IInv, [Next]_vars PROVE Epochs(held) <= Epochs(held)'
  OBVIOUS
<1>1. held \in 0..Len(log) /\ Epochs(held) \in Nat
  BY RosterOrder DEF IInv, TypeOK
<1>2. ASSUME UNCHANGED <<log, held>> PROVE Epochs(held) <= Epochs(held)'
  BY <1>1, <1>2 DEF Epochs
<1>3. ASSUME NEW epochs, NEW mine, Append1(epochs, mine) PROVE Epochs(held) <= Epochs(held)'
  <2>1. held' = held
    BY <1>3 DEF Append1, cipher
  <2>2. Epochs(held)' = Epochs(held)
    BY <1>1, <1>3, <2>1, EpochsKept DEF Epochs
  <2> QED BY <1>1, <2>2
<1>4. ASSUME Rebuilt PROVE Epochs(held) <= Epochs(held)'
  <2>1. Epochs(held) <= Epochs(build.head)
    BY <1>4 DEF Rebuilt, IInv, CipherInv, BuildInv
  <2> QED BY <1>4, <2>1 DEF Rebuilt, remote, Epochs
<1>5. ASSUME Space PROVE Epochs(held) <= Epochs(held)'
  BY <1>2, <1>3, <1>5 DEF Space, Rotate, Rewrap, WriteSchema, cipher
<1>6. ASSUME Chain PROVE Epochs(held) <= Epochs(held)'
  BY <1>2, <1>4, <1>6 DEF Chain, SkipRebuild, StartRebuild, RebuildFails, StartInstall, Install, cipher, remote
<1>7. ASSUME Boot PROVE Epochs(held) <= Epochs(held)'
  BY <1>2, <1>7 DEF Boot, BootRead, BootApply, BootSchema, SetSource, cipher, remote
<1>8. ASSUME NEW d \in Decrypts, Step(d) PROVE Epochs(held) <= Epochs(held)'
  BY <1>2, <1>8 DEF Step, Answers, Serve, Answer, Refuse, Fail, Retry, cipher, remote
<1>9. ASSUME NEW d \in Decrypts, NEW e \in 1..Epochs(Newest), Decrypt(d, e) \/ Join(d, e) \/ Spend(d, e)
      PROVE Epochs(held) <= Epochs(held)'
  BY <1>2, <1>9 DEF Decrypt, Join, Spend, cipher, remote
<1>10. ASSUME UNCHANGED vars PROVE Epochs(held) <= Epochs(held)'
  BY <1>2, <1>10 DEF vars, cipher, remote
<1> QED BY <1>5, <1>6, <1>7, <1>8, <1>9, <1>10 DEF Next

\* The invariants hold in every reachable state.
LEMMA Reachable == Spec => []IInv
BY Opens, Keeps, PTL DEF Spec

(***************************************************************************)
(* The theorems                                                            *)
(***************************************************************************)
\* Every reachable state is well-typed: every roster a refresh, a bootstrap or a cipher holds is a
\* head of the log.
THEOREM CipherTypeCorrect == Spec => []TypeOK
BY Reachable, PTL DEF IInv

\* The invariants that the model checker confirms on a small instance (the comments in
\* CipherRefresh say what each is about) hold for every number of decrypts and every log.
THEOREM CipherInvariant == Spec => []CipherInv
BY Reachable, PTL DEF IInv

\* However refreshes, bootstraps and rotations interleave, the chain never swaps in a roster with
\* fewer epochs than the one held (#holdsOrPostdates on the chain of #serializeRebuild).
THEOREM CipherNeverGoesBack == Spec => NeverGoesBack
<1>1. Spec => [][Epochs(held) <= Epochs(held)']_vars
  BY Reachable, Advances, PTL DEF Spec
<1> QED BY <1>1 DEF NeverGoesBack

\* What a refresh installed is never undone: a decrypt whose refresh succeeded reports an unknown
\* epoch only for one the log did not list when it was read (#decryptWithRefresh).
THEOREM RefreshServesAlways == Spec => []RefreshServes
BY Reachable, PTL DEF IInv, CipherInv

\* One source is asked at most once, once more for each descriptor installed under it and for each
\* failing read of it, however many decrypts meet unknown epochs (#spendRefresh).
THEOREM RefreshIsRationed == Spec => []RefreshRationed
<1>1. IInv => RefreshRationed
  BY DEF IInv, CipherInv, RationInv, RefreshRationed
<1> QED BY <1>1, Reachable, PTL

\* A refusal never outlives its source (sourceStands).
THEOREM RefusalIsOfItsSource == Spec => []RefusalStands
BY Reachable, PTL DEF IInv, CipherInv

\* Between two operations of the chain the cipher carries the schema remembered for the next
\* rebuild (applyCollectionMeta).
THEOREM RememberedIsInstalled == Spec => []SchemaInstalled
<1>1. IInv => SchemaInstalled
  BY DEF IInv, CipherInv, SchemaInv, SchemaInstalled
<1> QED BY <1>1, Reachable, PTL

=============================================================================
