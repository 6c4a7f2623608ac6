------------------------- MODULE AudienceReaderProofs -------------------------
(***************************************************************************)
(* What holds of AudienceReader for every number of posts, writes, zcaps   *)
(* and restarts: the type invariant, that only a denial of the zcap held   *)
(* pauses the reader, and, while no zcap is replaced under a listing, that *)
(* the reader implements a Follower.                                       *)
(***************************************************************************)
EXTENDS AudienceReader, TLAPS

\* What is invariant whether or not a zcap is replaced under a listing.
BaseInv == TypeOK /\ RangeInv /\ PausedForCause

(***************************************************************************)
(* The types of the values the actions build                               *)
(***************************************************************************)
\* The bounds are natural numbers.
LEMMA Bounds ==
  /\ MaxWrites \in Nat /\ MaxGens \in Nat /\ MaxLayouts \in Nat /\ MaxFlips \in Nat
  /\ MaxFaults \in Nat /\ MaxCrashes \in Nat /\ MaxWaiting \in Nat
BY BoundsAssumption

\* A position of a checkpoint is a position.
LEMMA AfterType == ASSUME NEW c \in Checkpoints \cup {None} PROVE After(c) \in Positions
BY Bounds DEF After, Checkpoints, Positions

\* What a body reads as is a position, and a mark is none.
LEMMA BodyType == TypeOK => \A p \in Posts : Body(p) \in Positions
BY Bounds DEF TypeOK, Body, Positions

LEMMA Marks ==
  /\ Unread \notin Positions /\ Denied \notin Positions /\ Unread # Denied
  /\ Positions \subseteq 0..Denied /\ Unread \in 0..Denied /\ Denied \in 0..Denied
  /\ 0..Denied = Positions \cup {Unread, Denied}
BY Bounds DEF Unread, Denied, Positions

\* A walk that begins is a walk.
LEMMA BeginTypes ==
  ASSUME TypeOK, NEW c \in Checkpoints \cup {None}, NEW replay \in BOOLEAN
  PROVE  Walking(c, replay) \in Walk /\ Listing \in Walk
BY Marks, Bounds DEF TypeOK, Walking, Listing, Walk, Nothing, Reader, Positions

\* Every update the steps make to the reader yields a reader.
LEMMA ReaderUpdates ==
  ASSUME NEW r \in Reader
  PROVE  /\ [r EXCEPT !.paused = TRUE] \in Reader
         /\ [r EXCEPT !.unsupported = TRUE] \in Reader
         /\ [r EXCEPT !.paused = FALSE, !.unsupported = FALSE] \in Reader
         /\ \A c \in Checkpoints \cup {None} : [r EXCEPT !.checkpoint = c] \in Reader
         /\ r.gen < MaxGens => [r EXCEPT !.gen = @ + 1, !.paused = FALSE] \in Reader
<1>1. r.gen < MaxGens => r.gen + 1 \in Gens
  BY Bounds DEF Reader, Gens
<1> QED BY <1>1 DEF Reader

\* A denial pauses the reader under the zcap it holds, and changes nothing else.
LEMMA CutTypes ==
  ASSUME TypeOK, PausedForCause, NEW g \in revoked
  PROVE  /\ Cut(g) \in Reader /\ Cut(g).gen = reader.gen
         /\ Cut(g).checkpoint = reader.checkpoint
         /\ Cut(g).paused => reader.gen \in revoked
<1>1. CASE g = reader.gen
  BY <1>1, ReaderUpdates DEF TypeOK, Cut, Reader
<1>2. CASE g # reader.gen
  BY <1>2 DEF TypeOK, Cut, PausedForCause
<1> QED BY <1>1, <1>2

\* The types of the fields of a walk.
LEMMA WalkFields ==
  ASSUME TypeOK, walk # None
  PROVE  /\ walk \in Walk /\ waiting > 0 /\ waiting \in Nat /\ walk.gen \in Gens /\ walk.replay \in BOOLEAN
         /\ walk.reached \in Checkpoints \cup {None} /\ After(walk.reached) \in Positions
         /\ walk.read \in [Posts -> 0..Denied] /\ walk.since \in Positions
         /\ walk.left \subseteq Posts
BY AfterType, Bounds DEF TypeOK, Walk

\* What a pull hands over is a version of each post, up to a position that does not go back.
LEMMA DeltaTypes ==
  ASSUME TypeOK, RangeInv, At("feed"), DeliverDelta(walk.read, walk.reached)
  PROVE  /\ view' \in [Posts -> Positions]
         /\ asOf' \in asOf..clock /\ After(walk.reached) <= asOf'
<1>1. walk # None /\ After(walk.reached) <= clock /\ After(walk.reached) \in Positions
      /\ walk.read \in [Posts -> 0..Denied] /\ \A p \in Posts : walk.read[p] # Denied
  BY WalkFields DEF At, RangeInv
<1>2. asOf' \in asOf..clock /\ After(walk.reached) <= asOf'
  BY <1>1, Bounds DEF DeliverDelta, Later, TypeOK, Positions
<1>3. \A p \in Posts : walk.read[p] # Unread => walk.read[p] \in Positions
  BY <1>1, Marks
<1> QED BY <1>2, <1>3 DEF DeliverDelta, TypeOK

LEMMA SnapshotTypes ==
  ASSUME TypeOK, NEW read \in [Posts -> 0..Denied], NEW upTo \in 0..clock,
         DeliverSnapshot(read, upTo)
  PROVE  /\ view' \in [Posts -> Positions]
         /\ asOf' \in asOf..clock /\ upTo <= asOf'
<1>1. asOf' \in asOf..clock /\ upTo <= asOf'
  BY Bounds DEF DeliverSnapshot, Later, TypeOK, Positions
<1>2. \A p \in Posts : read[p] \notin {Unread, Denied} => read[p] \in Positions
  BY Marks
<1>3. 0 \in Positions
  BY Bounds DEF Positions
<1> QED BY <1>1, <1>2, <1>3 DEF DeliverSnapshot

(***************************************************************************)
(* BaseInv, action by action                                               *)
(***************************************************************************)
\* The author and its server leave the reader and its walk alone.
LEMMA BaseServer ==
  ASSUME BaseInv,
         \/ \E p \in Posts, k \in Kinds : Write(p, k)
         \/ \E g \in Gens : Revoke(g)
         \/ Relayout \/ FlipFeed
  PROVE  BaseInv'
<1>1. ASSUME NEW p \in Posts, NEW k \in Kinds, Write(p, k) PROVE BaseInv'
  <2>1. clock + 1 \in Positions /\ clock' = clock + 1 /\ asOf' \in 0..clock'
    BY <1>1, Bounds DEF Write, BaseInv, TypeOK, Positions
  <2>2. post' \in [Posts -> [pos : Positions, kind : Kinds]]
    BY <1>1, <2>1 DEF Write, BaseInv, TypeOK
  <2>3. TypeOK'
    BY <1>1, <2>1, <2>2 DEF Write, BaseInv, TypeOK
  <2>4. RangeInv'
    <3>1. \A q \in Posts : post'[q].pos <= clock'
      BY <1>1, <2>1 DEF Write, BaseInv, RangeInv, TypeOK, Positions
    <3>2. walk # None => After(walk.reached) <= clock' /\ walk.since <= clock'
      BY <2>1, WalkFields DEF BaseInv, RangeInv, TypeOK, Positions
    <3> QED BY <1>1, <3>1, <3>2 DEF Write, BaseInv, RangeInv, At, After
  <2> QED BY <1>1, <2>3, <2>4 DEF Write, BaseInv, PausedForCause
<1>2. ASSUME NEW g \in Gens, Revoke(g) PROVE BaseInv'
  BY <1>2 DEF Revoke, BaseInv, TypeOK, RangeInv, PausedForCause, At, After, server
<1>3. ASSUME Relayout PROVE BaseInv'
  BY <1>3, Bounds DEF Relayout, BaseInv, TypeOK, RangeInv, PausedForCause, At, After
<1>4. ASSUME FlipFeed PROVE BaseInv'
  BY <1>4, Bounds DEF FlipFeed, BaseInv, TypeOK, RangeInv, PausedForCause, At, After
<1> QED BY <1>1, <1>2, <1>3, <1>4

\* A pull is called, takes its turn, or falls back to the listing.
LEMMA BaseBegins ==
  ASSUME BaseInv, Pull \/ StartPull \/ FeedUnavailable \/ CheckpointRefused
  PROVE  BaseInv'
<1>1. ASSUME Pull PROVE BaseInv'
  <2>1. waiting' \in 0..MaxWaiting /\ waiting' > 0
    BY <1>1, Bounds DEF Pull, BaseInv, TypeOK
  <2> QED BY <1>1, <2>1 DEF Pull, BaseInv, TypeOK, RangeInv, PausedForCause, At, After, server
<1>2. ASSUME UNCHANGED <<server, revoked, getter, view, asOf, faults, crashes>>,
             reader' \in Reader, reader'.checkpoint = reader.checkpoint,
             reader'.gen = reader.gen, reader'.paused = reader.paused,
             waiting' \in 0..MaxWaiting, walk' # None => waiting' > 0,
             \/ walk' = None \/ walk' = Listing
             \/ \E c \in {None, reader.checkpoint}, r \in BOOLEAN : walk' = Walking(c, r)
      PROVE  BaseInv'
  <2>0. reader.checkpoint \in Checkpoints \cup {None}
    BY DEF BaseInv, TypeOK, Reader
  <2>1. walk' \in Walk \cup {None}
    <3>1. ASSUME NEW c \in {None, reader.checkpoint}, NEW r \in BOOLEAN, walk' = Walking(c, r)
          PROVE  walk' \in Walk
      BY <2>0, <3>1, BeginTypes DEF BaseInv
    <3> QED BY <1>2, <3>1, BeginTypes DEF BaseInv
  <2>2. TypeOK'
    BY <1>2, <2>1 DEF BaseInv, TypeOK, server
  <2>3. walk' # None => /\ After(walk.reached)' <= clock' /\ walk'.since <= clock'
                        /\ \A p \in Posts : walk'.read[p] = Unread
    <3>0. clock \in Nat /\ 0 <= clock /\ After(reader.checkpoint) <= clock /\ After(None) = 0
          /\ clock' = clock
      BY <1>2, <2>0, AfterType, Bounds DEF BaseInv, RangeInv, TypeOK, After, Positions, server
    <3>1. ASSUME NEW c \in {None, reader.checkpoint}, NEW r \in BOOLEAN, walk' = Walking(c, r)
          PROVE  /\ After(walk.reached)' <= clock' /\ walk'.since <= clock'
                 /\ \A p \in Posts : walk'.read[p] = Unread
      BY <3>0, <3>1 DEF Walking, Nothing, After
    <3>2. ASSUME walk' = Listing
          PROVE  /\ After(walk.reached)' <= clock' /\ walk'.since <= clock'
                 /\ \A p \in Posts : walk'.read[p] = Unread
      BY <3>0, <3>2 DEF Listing, Nothing, After
    <3> QED BY <1>2, <3>1, <3>2
  <2>4. RangeInv'
    BY <1>2, <2>3, Marks DEF BaseInv, RangeInv, At, After, server
  <2> QED BY <1>2, <2>2, <2>4 DEF BaseInv, PausedForCause
<1>3. ASSUME StartPull PROVE BaseInv'
  <2>1. waiting' \in 0..MaxWaiting /\ (walk' # None => waiting' > 0)
    <3>1. waiting \in 0..MaxWaiting /\ waiting > 0
      BY <1>3 DEF StartPull, BaseInv, TypeOK
    <3>2. \/ waiting' = waiting - 1 /\ walk' = None
          \/ waiting' = waiting
      BY <1>3 DEF StartPull
    <3> QED BY <3>1, <3>2, Bounds
  <2> QED BY <1>2, <1>3, <2>1 DEF StartPull, BaseInv, TypeOK
<1>4. ASSUME FeedUnavailable PROVE BaseInv'
  BY <1>2, <1>4, Bounds, WalkFields, ReaderUpdates DEF FeedUnavailable, BaseInv, TypeOK, At, Reader
<1>5. ASSUME CheckpointRefused PROVE BaseInv'
  <2>1. waiting' \in 0..MaxWaiting /\ (walk' # None => waiting' > 0)
    <3>1. waiting \in 0..MaxWaiting /\ waiting > 0
      BY <1>5, WalkFields DEF CheckpointRefused, BaseInv, TypeOK, At
    <3>2. \/ waiting' = waiting - 1 /\ walk' = None
          \/ waiting' = waiting
      BY <1>5 DEF CheckpointRefused, Answered
    <3> QED BY <3>1, <3>2, Bounds
  <2> QED BY <1>2, <1>5, <2>1 DEF CheckpointRefused, BaseInv, TypeOK, Answered
<1> QED BY <1>1, <1>3, <1>4, <1>5

\* A pull ends: with a delta, with a snapshot, with nothing, or cut.
LEMMA BaseEnds ==
  ASSUME BaseInv, walk # None, Answered,
         UNCHANGED <<server, revoked, getter, crashes>>, faults' \in 0..MaxFaults,
         reader' \in Reader, reader'.paused => reader'.gen \in revoked,
         view' \in [Posts -> Positions], asOf' \in 0..clock, After(reader'.checkpoint) <= asOf'
  PROVE  BaseInv'
<1>1. waiting' \in 0..MaxWaiting /\ walk' = None
  BY WalkFields, Bounds DEF Answered, BaseInv, TypeOK
<1>2. TypeOK'
  BY <1>1 DEF BaseInv, TypeOK, server
<1>3. RangeInv'
  BY <1>1 DEF BaseInv, RangeInv, At, After, server
<1> QED BY <1>2, <1>3 DEF BaseInv, PausedForCause

\* A pull under way reads on: what it has read, and how far, stays of its types.
LEMMA BaseReads ==
  ASSUME BaseInv, walk # None, walk' \in Walk, walk'.since = walk.since,
         After(walk.reached)' <= clock,
         walk'.at = "feed" => walk.at = "feed" /\ \A p \in Posts : walk'.read[p] # Denied,
         UNCHANGED <<server, revoked, reader, waiting, getter, view, asOf, faults, crashes>>
  PROVE  BaseInv'
<1>1. TypeOK'
  BY DEF BaseInv, TypeOK, server
<1>2. RangeInv'
  BY DEF BaseInv, RangeInv, At, After, server
<1> QED BY <1>1, <1>2 DEF BaseInv, PausedForCause

\* The answers to a walk of the feed.
LEMMA BaseFeed ==
  ASSUME BaseInv, FeedPage \/ FeedEnd \/ FeedCut
  PROVE  BaseInv'
<1> USE DEF At
<1>1. ASSUME FeedPage PROVE BaseInv'
  <2>1. PICK last \in Feed(walk.reached) :
       walk' = [walk EXCEPT
         !.read = [p \in Posts |-> IF p \in Feed(walk.reached) /\ post[p].pos <= post[last].pos
                                     THEN Body(p) ELSE walk.read[p]],
         !.reached = [layout |-> layout, pos |-> post[last].pos]]
    BY <1>1 DEF FeedPage
  <2>2. walk # None /\ walk.at = "feed" /\ last \in Posts
        /\ UNCHANGED <<server, revoked, reader, waiting, getter, view, asOf, faults, crashes>>
    BY <1>1 DEF FeedPage, Feed
  <2>3. [layout |-> layout, pos |-> post[last].pos] \in Checkpoints
    BY <2>2 DEF BaseInv, TypeOK, Checkpoints
  <2>4. \A p \in Posts : Body(p) \in 0..Denied /\ Body(p) # Denied
    BY BodyType, Marks DEF BaseInv
  <2>5. walk \in Walk /\ walk.read \in [Posts -> 0..Denied]
    BY <2>2, WalkFields DEF BaseInv
  <2>6. walk' \in Walk
    BY <2>1, <2>3, <2>4, <2>5 DEF Walk
  <2>7. walk'.since = walk.since /\ walk'.at = "feed"
        /\ walk'.reached = [layout |-> layout, pos |-> post[last].pos]
        /\ \A p \in Posts : walk'.read[p] # Denied
    BY <2>1, <2>2, <2>4, <2>5 DEF Walk, BaseInv, RangeInv
  <2>8. After(walk.reached)' <= clock
    BY <2>2, <2>3, <2>7, BoundsAssumption DEF After, BaseInv, RangeInv
  <2> QED BY <2>2, <2>6, <2>7, <2>8, BaseReads
<1>2. ASSUME FeedEnd PROVE BaseInv'
  <2>1. walk # None /\ walk.reached \in Checkpoints \cup {None} /\ After(walk.reached) <= clock
        /\ After(walk.reached) \in 0..clock /\ walk.read \in [Posts -> 0..Denied]
    BY <1>2, WalkFields, Bounds DEF FeedEnd, BaseInv, RangeInv, Positions, TypeOK
  <2>2. view' \in [Posts -> Positions] /\ asOf' \in asOf..clock /\ After(walk.reached) <= asOf'
    BY <1>2, <2>1, DeltaTypes, SnapshotTypes DEF FeedEnd, BaseInv
  <2>3. reader' \in Reader /\ reader'.paused = reader.paused /\ reader'.gen = reader.gen
        /\ reader'.checkpoint = walk.reached
    BY <1>2, <2>1, ReaderUpdates DEF FeedEnd, BaseInv, TypeOK, Reader
  <2>4. asOf' \in 0..clock
    BY <2>2, Bounds DEF BaseInv, TypeOK, Positions
  <2> QED BY <1>2, <2>1, <2>2, <2>3, <2>4, BaseEnds DEF FeedEnd, BaseInv, PausedForCause, TypeOK
<1>3. ASSUME FeedCut PROVE BaseInv'
  <2>1. walk # None /\ walk.reached \in Checkpoints \cup {None} /\ walk.gen \in revoked
    BY <1>3, WalkFields DEF FeedCut, BaseInv, Verifies
  <2>2. view' \in [Posts -> Positions] /\ asOf' \in asOf..clock /\ After(walk.reached) <= asOf'
    BY <1>3, DeltaTypes DEF FeedCut, BaseInv
  <2>3. /\ Cut(walk.gen) \in Reader /\ Cut(walk.gen).gen = reader.gen
        /\ Cut(walk.gen).paused => reader.gen \in revoked
    BY <2>1, CutTypes DEF BaseInv
  <2>4. /\ reader' \in Reader /\ reader'.gen = reader.gen /\ reader'.checkpoint = walk.reached
        /\ reader'.paused => reader.gen \in revoked
    BY <1>3, <2>1, <2>3, ReaderUpdates DEF FeedCut, Reader
  <2>5. asOf' \in 0..clock
    BY <2>2, Bounds DEF BaseInv, TypeOK, Positions
  <2> QED BY <1>3, <2>1, <2>2, <2>4, <2>5, BaseEnds DEF FeedCut, BaseInv, TypeOK
<1> QED BY <1>1, <1>2, <1>3

\* A pull that fails, or whose listing is cut, tells nothing; a whole listing tells it all.
LEMMA BaseListingEnds ==
  ASSUME BaseInv, walk # None, UNCHANGED <<server, revoked, getter, crashes>>,
         faults' \in 0..MaxFaults,
         \/ Answered /\ UNCHANGED <<reader, view, asOf>>
         \/ ~Verifies /\ ListingCut
         \/ \E read \in [Posts -> 0..Denied] : ListingWhole(read, walk.since)
  PROVE  BaseInv'
<1>1. walk.since \in 0..clock /\ asOf \in 0..clock
  BY WalkFields, Bounds DEF BaseInv, RangeInv, TypeOK, Positions
<1>2. ASSUME Answered, UNCHANGED <<reader, view, asOf>> PROVE BaseInv'
  BY <1>1, <1>2, BaseEnds DEF BaseInv, TypeOK, RangeInv, PausedForCause
<1>3. ASSUME ~Verifies, ListingCut PROVE BaseInv'
  <2>1. /\ reader' \in Reader /\ reader'.gen = reader.gen /\ reader'.checkpoint = reader.checkpoint
        /\ reader'.paused => reader.gen \in revoked
    BY <1>3, CutTypes DEF ListingCut, BaseInv, Verifies
  <2> QED BY <1>1, <1>3, <2>1, BaseEnds DEF ListingCut, Replied, BaseInv, TypeOK, RangeInv
<1>4. ASSUME NEW read \in [Posts -> 0..Denied], ListingWhole(read, walk.since) PROVE BaseInv'
  <2>1. view' \in [Posts -> Positions] /\ asOf' \in asOf..clock
    BY <1>1, <1>4, SnapshotTypes DEF ListingWhole, BaseInv
  <2>2. asOf' \in 0..clock /\ asOf <= asOf'
    BY <2>1, Bounds DEF BaseInv, TypeOK, Positions
  <2>3. After(reader'.checkpoint) <= asOf'
    <3>1. After(reader.checkpoint) \in Positions /\ After(reader.checkpoint) <= asOf
      BY AfterType DEF BaseInv, TypeOK, RangeInv, Reader
    <3> QED BY <1>1, <1>4, <2>2, <3>1, Bounds DEF ListingWhole, Positions, BaseInv, TypeOK
  <2> QED BY <1>4, <2>1, <2>2, <2>3, BaseEnds DEF ListingWhole, BaseInv, TypeOK, PausedForCause
<1> QED BY <1>2, <1>3, <1>4

\* The answers to a listing's pull.
LEMMA BaseListing ==
  ASSUME BaseInv, List \/ (\E p \in Posts : ReadBody(p)) \/ AssertVisible \/ PullFails
  PROVE  BaseInv'
<1> USE DEF At
<1>1. ASSUME List PROVE BaseInv'
  <2>1. walk # None /\ walk \in Walk /\ UNCHANGED <<server, revoked, getter, faults, crashes>>
        /\ faults' \in 0..MaxFaults
    BY <1>1, WalkFields DEF List, BaseInv, TypeOK
  <2>2. Nothing \in [Posts -> 0..Denied]
    BY Marks DEF Nothing
  <2>3. CASE ~Verifies \/ Listed = {}
    BY <1>1, <2>1, <2>2, <2>3, BaseListingEnds DEF List
  <2>4. CASE Verifies /\ Listed # {}
    <3>1. walk' = [walk EXCEPT !.at = "bodies", !.left = Listed]
          /\ UNCHANGED <<reader, waiting, view, asOf>>
      BY <1>1, <2>4 DEF List
    <3>2. walk' \in Walk /\ walk'.since = walk.since /\ walk'.reached = walk.reached /\ walk'.at # "feed"
      BY <2>1, <3>1 DEF Walk, Listed
    <3> QED BY <2>1, <3>1, <3>2, BaseReads DEF BaseInv, RangeInv, After
  <2> QED BY <2>3, <2>4
<1>2. ASSUME NEW p \in Posts, ReadBody(p) PROVE BaseInv'
  <2> DEFINE read == [walk.read EXCEPT ![p] = BodyAnswer(p)]
  <2>1. walk # None /\ walk \in Walk /\ walk.at = "bodies"
        /\ UNCHANGED <<server, revoked, getter, faults, crashes>> /\ faults' \in 0..MaxFaults
    BY <1>2, WalkFields DEF ReadBody, BaseInv, TypeOK
  <2>2. BodyAnswer(p) \in 0..Denied
    BY BodyType, Marks DEF BodyAnswer, BaseInv
  <2>3. read \in [Posts -> 0..Denied]
    BY <2>1, <2>2 DEF Walk
  <2>4. ASSUME walk' \in Walk, walk'.since = walk.since, walk'.reached = walk.reached, walk'.at # "feed",
               UNCHANGED <<reader, waiting, view, asOf>>
        PROVE  BaseInv'
    BY <2>1, <2>4, BaseReads DEF BaseInv, RangeInv, After
  <2>5. CASE walk.left = {p}
    <3>1. Settled(read)
      BY <1>2, <2>5 DEF ReadBody
    <3>2. CASE ListingWhole(read, walk.since)
      BY <2>1, <2>3, <3>2, BaseListingEnds
    <3>3. CASE /\ walk' = [walk EXCEPT !.at = "visible", !.read = read, !.left = {}]
               /\ UNCHANGED <<reader, waiting, view, asOf>>
      BY <2>1, <2>3, <2>4, <3>3 DEF Walk
    <3> QED BY <3>1, <3>2, <3>3 DEF Settled
  <2>6. CASE walk.left # {p}
    <3>1. /\ walk' = [walk EXCEPT !.read = read, !.left = walk.left \ {p}]
          /\ UNCHANGED <<reader, waiting, view, asOf>>
      BY <1>2, <2>6 DEF ReadBody
    <3> QED BY <2>1, <2>3, <2>4, <3>1 DEF Walk
  <2> QED BY <2>5, <2>6
<1>3. ASSUME AssertVisible PROVE BaseInv'
  <2>1. walk # None /\ UNCHANGED <<server, revoked, getter, faults, crashes>>
        /\ faults' \in 0..MaxFaults /\ walk.read \in [Posts -> 0..Denied]
    BY <1>3, WalkFields DEF AssertVisible, BaseInv, TypeOK
  <2> QED BY <1>3, <2>1, BaseListingEnds DEF AssertVisible
<1>4. ASSUME PullFails PROVE BaseInv'
  <2>1. faults' \in 0..MaxFaults
    BY <1>4, Bounds DEF PullFails, BaseInv, TypeOK
  <2> QED BY <1>4, <2>1, BaseListingEnds DEF PullFails
<1> QED BY <1>1, <1>2, <1>3, <1>4

\* The app's gets, replacements and restarts.
LEMMA BaseApp ==
  ASSUME BaseInv, Get \/ GetStep \/ Replace \/ Reopen
  PROVE  BaseInv'
<1>1. ASSUME Get PROVE BaseInv'
  <2>1. getter' \in Getter
    BY <1>1 DEF Get, BaseInv, TypeOK, Getter, Reader
  <2> QED BY <1>1, <2>1 DEF Get, BaseInv, TypeOK, RangeInv, PausedForCause, At, After, server
<1>2. ASSUME NEW p \in Posts, GetAnswer(p) PROVE BaseInv'
  <2>1. getter' \in Getter \cup {None}
    BY <1>2 DEF GetAnswer, BaseInv, TypeOK, Getter
  <2> QED BY <1>2, <2>1 DEF GetAnswer, BaseInv, TypeOK, RangeInv, PausedForCause, At, After, server
<1>3. ASSUME GetVisible PROVE BaseInv'
  <2>1. /\ reader' \in Reader /\ reader'.gen = reader.gen /\ reader'.checkpoint = reader.checkpoint
        /\ reader'.paused => reader.gen \in revoked
    BY <1>3, CutTypes DEF GetVisible, BaseInv, TypeOK, PausedForCause
  <2> QED BY <1>3, <2>1 DEF GetVisible, BaseInv, TypeOK, RangeInv, PausedForCause, At, After, server
<1>4. ASSUME Replace PROVE BaseInv'
  <2>1. reader' \in Reader /\ reader'.paused = FALSE /\ reader'.checkpoint = reader.checkpoint
    BY <1>4, ReaderUpdates DEF Replace, BaseInv, TypeOK, Reader
  <2> QED BY <1>4, <2>1 DEF Replace, BaseInv, TypeOK, RangeInv, PausedForCause, At, After, server
<1>5. ASSUME Reopen PROVE BaseInv'
  <2>1. reader' \in Reader /\ reader'.paused = FALSE /\ reader'.checkpoint = reader.checkpoint
    BY <1>5, ReaderUpdates DEF Reopen, BaseInv, TypeOK, Reader
  <2>2. crashes' \in 0..MaxCrashes /\ waiting' \in 0..MaxWaiting
    BY <1>5, Bounds DEF Reopen, BaseInv, TypeOK
  <2> QED BY <1>5, <2>1, <2>2 DEF Reopen, BaseInv, TypeOK, RangeInv, PausedForCause, At, After, server
<1> QED BY <1>1, <1>2, <1>3, <1>4, <1>5 DEF GetStep

LEMMA BaseInit == Init => BaseInv
<1> SUFFICES ASSUME Init PROVE BaseInv
  OBVIOUS
<1>1. reader \in Reader /\ reader.paused = FALSE /\ After(reader.checkpoint) = 0
  BY Bounds DEF Init, Reader, Gens, After
<1>2. post \in [Posts -> [pos : Positions, kind : Kinds]] /\ \A p \in Posts : post[p].pos = 0
  BY Bounds DEF Init, Positions, Kinds
<1>3. TypeOK
  BY <1>1, <1>2, Bounds DEF Init, TypeOK, Positions
<1>4. RangeInv /\ PausedForCause
  BY <1>1, <1>2 DEF Init, RangeInv, PausedForCause, At
<1> QED BY <1>3, <1>4 DEF BaseInv

LEMMA BaseKeeps == BaseInv /\ [Next]_vars => BaseInv'
<1> SUFFICES ASSUME BaseInv, [Next]_vars PROVE BaseInv'
  OBVIOUS
<1>1. ASSUME UNCHANGED vars PROVE BaseInv'
  BY <1>1 DEF vars, server, BaseInv, TypeOK, RangeInv, PausedForCause, At, After
<1> QED BY <1>1, BaseServer, BaseBegins, BaseFeed, BaseListing, BaseApp DEF Next, Environment, PullStep

LEMMA BaseReachable == Spec => []BaseInv
BY BaseInit, BaseKeeps, PTL DEF Spec

(***************************************************************************)
(* The reader follows: FollowInv, and the step of the Follower             *)
(***************************************************************************)
\* What the consumer's side of a state is read from, as numbers.
LEMMA Numbers ==
  ASSUME BaseInv, NEW p \in Posts
  PROVE  /\ clock \in Nat /\ asOf \in Nat /\ post[p].pos \in Nat /\ view[p] \in Nat /\ Body(p) \in Nat
         /\ asOf <= clock /\ post[p].pos <= clock /\ post[p] \in [pos : Positions, kind : Kinds]
         /\ Body(p) <= post[p].pos
BY Bounds DEF BaseInv, RangeInv, TypeOK, Positions, Body

\* A pull that tells the consumer is a delivery of the Follower.
LEMMA Delivered ==
  ASSUME BaseInv, BaseInv', VersionInv, Current', UNCHANGED server, walk' = None, asOf <= asOf',
         \A p \in Posts : view'[p] <= post[p].pos /\ (view'[p] # 0 => view[p] <= view'[p])
  PROVE  FollowInv' /\ F!Deliver
<1>1. VersionInv'
  BY DEF VersionInv, server
<1>2. FeedInv' /\ ListInv'
  BY DEF FeedInv, ListInv, At
<1>3. asOf' \in asOf..clock
  BY Bounds DEF BaseInv, TypeOK, Positions, server
<1>4. view' \in [Posts -> 0..clock]
  <2>1. \A p \in Posts : view'[p] \in 0..clock
    <3> TAKE p \in Posts
    <3>1. view'[p] \in Nat /\ clock \in Nat /\ post[p].pos \in Nat /\ post[p].pos <= clock
      BY Numbers, Bounds DEF BaseInv, TypeOK, Positions
    <3> QED BY <3>1
  <2> QED BY <2>1 DEF BaseInv, TypeOK
<1>5. F!Current'
  BY DEF F!Current, Current, F!Shown, Body
<1>6. \A p \in Posts : view'[p] # 0 => view'[p] >= view[p]
  BY Numbers, Bounds DEF BaseInv, TypeOK, Positions
<1> QED BY <1>1, <1>2, <1>3, <1>4, <1>5, <1>6 DEF FollowInv, F!Deliver, server

\* A step that neither writes nor tells is none of the Follower's.
LEMMA Untold ==
  ASSUME VersionInv, Current, UNCHANGED <<clock, post, view, asOf>>
  PROVE  /\ Current' /\ UNCHANGED F!vars
         /\ \A p \in Posts : /\ post'[p].pos = 0 => post'[p].kind = "gone"
                             /\ view'[p] <= post'[p].pos
BY DEF VersionInv, Current, Body, F!vars

\* The author's write is the Follower's: a walk under way has still to meet it.
LEMMA FollowsWrite ==
  ASSUME BaseInv, FollowInv, NEW p \in Posts, NEW k \in Kinds, Write(p, k)
  PROVE  FollowInv' /\ F!Write(p, k)
<1>1. clock' = clock + 1 /\ post' = [post EXCEPT ![p] = [pos |-> clock + 1, kind |-> k]]
      /\ clock \in Nat /\ asOf \in Nat /\ asOf <= clock
  BY Numbers DEF Write
<1>2. post'[p].pos = clock + 1 /\ Body(p)' \in {0, clock + 1}
      /\ \A q \in Posts : q # p => post'[q] = post[q] /\ Body(q)' = Body(q)
  BY <1>1 DEF BaseInv, TypeOK, Body
<1>3. UNCHANGED <<view, asOf, walk, reader, revoked>>
  BY DEF Write
<1>4. VersionInv'
  <2> SUFFICES ASSUME NEW q \in Posts
               PROVE /\ post'[q].pos = 0 => post'[q].kind = "gone"
                     /\ view'[q] <= post'[q].pos
                     /\ walk' # None /\ walk'.read[q] \in Positions =>
                          /\ walk'.read[q] <= post'[q].pos
                          /\ walk'.read[q] # 0 => view'[q] <= walk'.read[q]
    BY DEF VersionInv
  <2>1. \A n \in Nat : n <= post[q].pos => n <= post'[q].pos
    BY <1>1, <1>2, Numbers
  <2>2. walk # None /\ walk.read[q] \in Positions => walk.read[q] \in Nat
    BY Bounds DEF Positions
  <2> QED BY <1>1, <1>2, <1>3, <2>1, <2>2, Numbers DEF FollowInv, VersionInv
<1>5. Current'
  BY <1>1, <1>2, <1>3 DEF FollowInv, Current
<1>6. walk # None => After(walk.reached) \in Nat /\ After(walk.reached) <= clock
                     /\ walk.since \in Nat /\ walk.since <= clock
  BY WalkFields, Bounds DEF BaseInv, RangeInv, Positions
<1>7. FeedInv'
  <2> SUFFICES ASSUME At("feed"), NEW q \in Posts
               PROVE /\ post'[q].pos <= After(walk.reached) =>
                          \/ walk.read[q] = Body(q)'
                          \/ /\ walk.read[q] = Unread /\ view[q] = Body(q)'
                             /\ walk.replay => post'[q].pos = 0
                     /\ post'[q].pos > After(walk.reached) /\ walk.read[q] # Unread => post'[q].pos > asOf
    BY <1>3 DEF FeedInv, At, After
  <2>1. CASE q = p
    BY <1>1, <1>2, <1>6, <2>1 DEF At
  <2>2. CASE q # p
    BY <1>2, <2>2 DEF FollowInv, FeedInv
  <2> QED BY <2>1, <2>2
<1>8. ListInv'
  <2>1. At("bodies") \/ At("visible") =>
          \A q \in Posts \ walk.left : post'[q].pos <= walk.since =>
            \/ walk.read[q] = Body(q)'
            \/ walk.read[q] \in {Unread, Denied} /\ Body(q)' = 0
            \/ walk.read[q] = Denied /\ walk.gen \in revoked
    <3> SUFFICES ASSUME At("bodies") \/ At("visible"), NEW q \in Posts \ walk.left,
                        post'[q].pos <= walk.since
                 PROVE  \/ walk.read[q] = Body(q)'
                        \/ walk.read[q] \in {Unread, Denied} /\ Body(q)' = 0
                        \/ walk.read[q] = Denied /\ walk.gen \in revoked
      OBVIOUS
    <3>1. q # p
      BY <1>1, <1>2, <1>6 DEF At
    <3> QED BY <1>2, <3>1 DEF FollowInv, ListInv
  <2> QED BY <1>3, <2>1 DEF FollowInv, ListInv, At, Nothing
<1>9. F!Write(p, k)
  BY DEF Write, F!Write
<1> QED BY <1>4, <1>5, <1>7, <1>8, <1>9 DEF FollowInv

\* A step beside the walk, or one that drops it, tells nothing.
LEMMA FollowsBeside ==
  ASSUME FollowInv, UNCHANGED <<clock, post, view, asOf>>, revoked \subseteq revoked',
         \/ walk' = None
         \/ walk' = walk /\ (At("list") \/ At("bodies") => reader'.gen = reader.gen)
  PROVE  FollowInv' /\ UNCHANGED F!vars
<1>1. Current' /\ UNCHANGED F!vars
  BY Untold DEF FollowInv
<1>2. VersionInv'
  BY Untold DEF FollowInv, VersionInv
<1>3. FeedInv'
  BY DEF FollowInv, FeedInv, At, Body
<1>4. ListInv'
  <2>1. CASE walk' = None
    BY <2>1 DEF ListInv, At
  <2>2. CASE walk' = walk /\ (At("list") \/ At("bodies") => reader'.gen = reader.gen)
    <3>1. \A p \in Posts : Body(p)' = Body(p)
      BY DEF Body
    <3> QED BY <2>2, <3>1 DEF FollowInv, ListInv, At, Nothing
  <2> QED BY <2>1, <2>2
<1> QED BY <1>1, <1>2, <1>3, <1>4 DEF FollowInv

\* A walk starts where the consumer stands: after its checkpoint, or, in a replay, before every post.
LEMMA FollowsStart ==
  ASSUME BaseInv, FollowInv, UNCHANGED <<clock, post, view, asOf, revoked>>, reader'.gen = reader.gen,
         walk' \in {Listing, Walking(reader.checkpoint, FALSE), Walking(None, TRUE)}
  PROVE  FollowInv' /\ UNCHANGED F!vars
<1>1. Current' /\ UNCHANGED F!vars
  BY Untold DEF FollowInv
<1>2. \A p \in Posts : walk'.read[p] = Unread
  BY DEF Listing, Walking, Nothing
<1>3. VersionInv'
  BY <1>2, Untold, Marks DEF FollowInv, VersionInv
<1>4. FeedInv'
  <2> SUFFICES ASSUME NEW p \in Posts, At("feed")', post[p].pos <= After(walk.reached)'
               PROVE  view[p] = Body(p) /\ (walk'.replay => post[p].pos = 0)
    BY <1>2 DEF FeedInv, Body
  <2>1. CASE walk' = Walking(reader.checkpoint, FALSE)
    <3>1. post[p].pos <= After(reader.checkpoint) /\ ~walk'.replay
      BY <2>1 DEF Walking, After
    <3>2. After(reader.checkpoint) \in Nat /\ After(reader.checkpoint) <= asOf
      BY AfterType, Bounds DEF BaseInv, RangeInv, TypeOK, Reader, Positions
    <3>3. post[p].pos <= asOf
      BY <3>1, <3>2, Numbers
    <3> QED BY <3>1, <3>3 DEF FollowInv, Current
  <2>2. CASE walk' = Walking(None, TRUE)
    <3>1. post[p].pos = 0
      BY <2>2, Numbers DEF Walking, After
    <3> QED BY <3>1, Numbers DEF FollowInv, VersionInv, Body
  <2>3. CASE walk' = Listing
    BY <2>3 DEF Listing, At
  <2> QED BY <2>1, <2>2, <2>3
<1>5. ListInv'
  <2>1. CASE walk' = Listing
    BY <2>1, Numbers, Bounds DEF ListInv, Listing, At, Nothing, BaseInv, TypeOK, Positions
  <2>2. CASE walk'.at = "feed"
    BY <2>2 DEF ListInv, At
  <2> QED BY <2>1, <2>2 DEF Walking
<1> QED BY <1>1, <1>3, <1>4, <1>5 DEF FollowInv

\* A page: the posts it holds are read as they are.
LEMMA FollowsPage ==
  ASSUME BaseInv, FollowInv, FeedPage
  PROVE  FollowInv' /\ UNCHANGED F!vars
<1>1. PICK last \in Feed(walk.reached) :
     walk' = [walk EXCEPT
       !.read = [p \in Posts |-> IF p \in Feed(walk.reached) /\ post[p].pos <= post[last].pos
                                   THEN Body(p) ELSE walk.read[p]],
       !.reached = [layout |-> layout, pos |-> post[last].pos]]
  BY DEF FeedPage
<1>2. walk # None /\ walk.at = "feed" /\ last \in Posts /\ walk \in Walk
      /\ UNCHANGED <<clock, post, view, asOf, revoked, reader>>
      /\ After(walk.reached) \in Nat /\ post[last].pos > After(walk.reached)
  BY <1>1, WalkFields, Bounds DEF FeedPage, Feed, At, BaseInv, server, Positions
<1>3. walk'.at = "feed" /\ walk'.replay = walk.replay /\ After(walk.reached)' = post[last].pos
      /\ \A p \in Posts : walk'.read[p] =
           IF post[p].pos > After(walk.reached) /\ post[p].pos <= post[last].pos
             THEN Body(p) ELSE walk.read[p]
  <2>1. [layout |-> layout, pos |-> post[last].pos] \in Checkpoints
    BY <1>2 DEF BaseInv, TypeOK, Checkpoints
  <2> QED BY <1>1, <1>2, <2>1, BoundsAssumption DEF Walk, After, Feed
<1>4. Current' /\ UNCHANGED F!vars
  BY <1>2, Untold DEF FollowInv
<1>5. VersionInv'
  <2> SUFFICES ASSUME NEW p \in Posts, walk'.read[p] \in Positions
               PROVE  walk'.read[p] <= post[p].pos /\ (walk'.read[p] # 0 => view[p] <= walk'.read[p])
    BY <1>2, Untold DEF FollowInv, VersionInv
  <2>1. CASE walk'.read[p] = Body(p)
    BY <2>1, Numbers DEF FollowInv, VersionInv, Body
  <2>2. CASE walk'.read[p] = walk.read[p]
    BY <1>2, <2>2 DEF FollowInv, VersionInv
  <2> QED BY <1>3, <2>1, <2>2
<1>6. FeedInv'
  <2> SUFFICES ASSUME NEW p \in Posts
               PROVE /\ post[p].pos <= post[last].pos =>
                          \/ walk'.read[p] = Body(p)
                          \/ /\ walk'.read[p] = Unread /\ view[p] = Body(p)
                             /\ walk.replay => post[p].pos = 0
                     /\ post[p].pos > post[last].pos /\ walk'.read[p] # Unread => post[p].pos > asOf
    BY <1>2, <1>3 DEF FeedInv, Body
  <2>1. CASE post[p].pos <= After(walk.reached)
    BY <1>2, <1>3, <2>1, Numbers DEF FollowInv, FeedInv, At
  <2>2. CASE post[p].pos > After(walk.reached)
    BY <1>2, <1>3, <2>2, Numbers DEF FollowInv, FeedInv, At
  <2> QED BY <1>2, <2>1, <2>2, Numbers
<1>7. ListInv'
  BY <1>3 DEF ListInv, At
<1> QED BY <1>4, <1>5, <1>6, <1>7 DEF FollowInv

\* A walk that ends with a delta, cut or whole, leaves the consumer current as far as it reached.
LEMMA DeltaFollows ==
  ASSUME BaseInv, BaseInv', FollowInv, At("feed"), DeliverDelta(walk.read, walk.reached),
         walk' = None, UNCHANGED server
  PROVE  FollowInv' /\ F!Deliver
<1>1. After(walk.reached) \in Nat /\ asOf <= asOf' /\ \/ asOf' = asOf /\ After(walk.reached) <= asOf
                                                      \/ asOf' = After(walk.reached)
  BY WalkFields, Bounds DEF At, BaseInv, TypeOK, DeliverDelta, Later, Positions
<1>2. \A p \in Posts : /\ view'[p] = IF walk.read[p] = Unread THEN view[p] ELSE walk.read[p]
                       /\ walk.read[p] # Unread => walk.read[p] \in Positions
  BY WalkFields, Marks DEF DeliverDelta, At, BaseInv, RangeInv
<1>3. \A p \in Posts : view'[p] <= post[p].pos /\ (view'[p] # 0 => view[p] <= view'[p])
  BY <1>2, Numbers DEF FollowInv, VersionInv, At
<1>4. Current'
  <2> SUFFICES ASSUME NEW p \in Posts, post[p].pos <= asOf' PROVE view'[p] = Body(p)
    BY DEF Current, Body, server
  <2>1. CASE post[p].pos <= After(walk.reached)
    BY <1>2, <2>1, BodyType, Marks DEF FollowInv, FeedInv, BaseInv
  <2>2. CASE post[p].pos > After(walk.reached)
    BY <1>1, <1>2, <2>2, Numbers DEF FollowInv, FeedInv, Current
  <2> QED BY <1>1, <2>1, <2>2, Numbers
<1> QED BY <1>1, <1>3, <1>4, Delivered DEF FollowInv

LEMMA FollowsFeedEnds ==
  ASSUME BaseInv, BaseInv', FollowInv, FeedEnd \/ FeedCut
  PROVE  FollowInv' /\ F!Deliver
<1>1. CASE FeedCut
  BY <1>1, DeltaFollows DEF FeedCut, Answered
<1>2. CASE FeedEnd /\ ~walk.replay
  BY <1>2, DeltaFollows DEF FeedEnd, Answered
<1>3. CASE FeedEnd /\ walk.replay
  <2>1. walk # None /\ walk.at = "feed" /\ DeliverSnapshot(walk.read, After(walk.reached))
        /\ walk' = None /\ UNCHANGED server /\ Feed(walk.reached) = {} /\ After(walk.reached) \in Nat
    BY <1>3, WalkFields, Bounds DEF FeedEnd, Answered, At, BaseInv, Positions
  <2>2. \A p \in Posts : post[p].pos <= After(walk.reached)
    BY <2>1, Numbers DEF Feed
  <2>3. \A p \in Posts : view'[p] = Body(p)
    <3> TAKE p \in Posts
    <3>1. CASE walk.read[p] = Body(p)
      BY <2>1, <3>1, BodyType, Marks DEF DeliverSnapshot, BaseInv
    <3>2. CASE walk.read[p] = Unread /\ post[p].pos = 0
      BY <2>1, <3>2, Numbers DEF DeliverSnapshot
    <3> QED BY <1>3, <2>1, <2>2, <3>1, <3>2 DEF FollowInv, FeedInv, At
  <2>4. Current'
    BY <2>1, <2>3 DEF Current, Body, server
  <2>5. \A p \in Posts : view'[p] <= post[p].pos /\ (view'[p] # 0 => view[p] <= view'[p])
    BY <2>3, Numbers DEF FollowInv, VersionInv, Body
  <2>6. asOf <= asOf'
    BY <2>1, Bounds DEF DeliverSnapshot, Later, BaseInv, TypeOK, Positions
  <2> QED BY <2>1, <2>4, <2>5, <2>6, Delivered DEF FollowInv
<1> QED BY <1>1, <1>2, <1>3

\* A whole listing of what the author holds, or held when it was called, is a delivery.
LEMMA ListingFollows ==
  ASSUME BaseInv, BaseInv', FollowInv, walk # None, walk.at # "feed", UNCHANGED server,
         NEW read \in [Posts -> 0..Denied], ListingWhole(read, walk.since),
         \A p \in Posts : read[p] \in Positions =>
           read[p] <= post[p].pos /\ (read[p] # 0 => view[p] <= read[p]),
         \A p \in Posts : post[p].pos <= walk.since =>
           read[p] = Body(p) \/ (read[p] \in {Unread, Denied} /\ Body(p) = 0)
  PROVE  FollowInv' /\ F!Deliver
<1>1. asOf' = walk.since /\ asOf <= asOf' /\ DeliverSnapshot(read, walk.since) /\ walk' = None
  <2>1. walk.since \in Nat /\ asOf <= walk.since
    BY WalkFields, Bounds DEF BaseInv, FollowInv, ListInv, Positions
  <2> QED BY <2>1, Bounds DEF ListingWhole, DeliverSnapshot, Later, Answered, BaseInv, TypeOK, Positions
<1>2. \A p \in Posts : /\ view'[p] = IF read[p] \in {Unread, Denied} THEN 0 ELSE read[p]
                       /\ read[p] \notin {Unread, Denied} => read[p] \in Positions
  BY <1>1, Marks DEF DeliverSnapshot
<1>3. \A p \in Posts : view'[p] <= post[p].pos /\ (view'[p] # 0 => view[p] <= view'[p])
  BY <1>2, Numbers
<1>4. Current'
  <2> SUFFICES ASSUME NEW p \in Posts, post[p].pos <= walk.since PROVE view'[p] = Body(p)
    BY <1>1 DEF Current, Body, server
  <2>1. Body(p) \notin {Unread, Denied}
    BY BodyType, Marks DEF BaseInv
  <2> QED BY <1>2, <2>1
<1> QED BY <1>1, <1>3, <1>4, Delivered DEF FollowInv

\* The listing is answered: what it names has still to be read, what it leaves out shows no post.
LEMMA FollowsList ==
  ASSUME BaseInv, BaseInv', FollowInv, List
  PROVE  FollowInv' /\ (UNCHANGED F!vars \/ F!Deliver)
<1>1. walk # None /\ walk.at = "list" /\ walk \in Walk /\ walk.read = Nothing /\ UNCHANGED <<server, revoked>>
  BY WalkFields DEF List, At, BaseInv, FollowInv, ListInv
<1>2. \A p \in Posts \ Listed : Body(p) = 0
  BY DEF Listed, Body
<1>3. CASE ListingCut
  BY <1>1, <1>3, FollowsBeside DEF ListingCut, Answered, Replied, server
<1>4. CASE Listed = {} /\ ListingWhole(Nothing, walk.since)
  <2>1. Nothing \in [Posts -> 0..Denied] /\ \A p \in Posts : Nothing[p] = Unread
    BY Marks DEF Nothing
  <2> QED BY <1>1, <1>2, <1>4, <2>1, Marks, ListingFollows
<1>5. CASE /\ walk' = [walk EXCEPT !.at = "bodies", !.left = Listed]
           /\ UNCHANGED <<reader, waiting, view, asOf>>
  <2>1. walk'.at = "bodies" /\ walk'.left = Listed /\ walk'.gen = walk.gen /\ walk'.since = walk.since
        /\ walk'.read = walk.read /\ \A p \in Posts : walk.read[p] = Unread
    BY <1>1, <1>5 DEF Walk, Nothing
  <2>2. Current' /\ UNCHANGED F!vars
    BY <1>1, <1>5, Untold DEF FollowInv, server
  <2>3. VersionInv'
    BY <1>1, <1>5, <2>1, Untold, Marks DEF FollowInv, VersionInv, server
  <2>4. FeedInv'
    BY <2>1 DEF FeedInv, At
  <2>5. ListInv'
    BY <1>1, <1>2, <1>5, <2>1 DEF FollowInv, ListInv, At, Body, server
  <2> QED BY <2>2, <2>3, <2>4, <2>5 DEF FollowInv
<1> QED BY <1>3, <1>4, <1>5 DEF List

\* A body is answered as the post stands, or null where the zcap verifies no more.  The last of them
\* ends the listing, unless a null among them has to be settled under the zcap it was called with.
LEMMA FollowsBody ==
  ASSUME BaseInv, BaseInv', FollowInv, NEW p \in Posts, ReadBody(p)
  PROVE  FollowInv' /\ (UNCHANGED F!vars \/ F!Deliver)
<1> DEFINE read == [walk.read EXCEPT ![p] = BodyAnswer(p)]
<1>1. walk # None /\ walk.at = "bodies" /\ walk \in Walk /\ walk.gen = reader.gen /\ p \in walk.left
      /\ UNCHANGED <<server, revoked>>
  BY WalkFields DEF ReadBody, At, BaseInv, FollowInv, ListInv
<1>2. BodyAnswer(p) = Body(p) \/ (BodyAnswer(p) = Denied /\ (Body(p) = 0 \/ walk.gen \in revoked))
  BY DEF BodyAnswer, Body, Verifies
<1>3. read \in [Posts -> 0..Denied] /\ read[p] = BodyAnswer(p)
      /\ \A q \in Posts : q # p => read[q] = walk.read[q]
  BY <1>1, <1>2, BodyType, Marks DEF Walk, BaseInv
<1>4. \A q \in Posts : read[q] \in Positions => read[q] <= post[q].pos /\ (read[q] # 0 => view[q] <= read[q])
  <2> TAKE q \in Posts
  <2>1. CASE q = p
    BY <1>2, <1>3, <2>1, Marks, Numbers DEF FollowInv, VersionInv, Body
  <2>2. CASE q # p
    BY <1>1, <1>3, <2>2 DEF FollowInv, VersionInv
  <2> QED BY <2>1, <2>2
<1>5. \A q \in Posts \ (walk.left \ {p}) : post[q].pos <= walk.since =>
        \/ read[q] = Body(q)
        \/ read[q] \in {Unread, Denied} /\ Body(q) = 0
        \/ read[q] = Denied /\ walk.gen \in revoked
  BY <1>1, <1>2, <1>3 DEF FollowInv, ListInv, At
<1>6. ASSUME walk' \in Walk, walk'.read = read, walk'.gen = walk.gen, walk'.since = walk.since,
             \/ walk'.at = "bodies" /\ walk'.left = walk.left \ {p}
             \/ walk'.at = "visible" /\ walk'.left = {} /\ walk.left = {p},
             UNCHANGED <<reader, view, asOf>>
      PROVE  FollowInv' /\ UNCHANGED F!vars
  <2>1. Current' /\ UNCHANGED F!vars
    BY <1>1, <1>6, Untold DEF FollowInv, server
  <2>2. VersionInv'
    BY <1>1, <1>4, <1>6, Untold DEF FollowInv, VersionInv, server
  <2>3. FeedInv'
    BY <1>6 DEF FeedInv, At
  <2>4. \A q \in Posts : Body(q)' = Body(q)
    BY <1>1 DEF Body, server
  <2>5. ListInv'
    BY <1>1, <1>5, <1>6, <2>4 DEF FollowInv, ListInv, At, server
  <2> QED BY <2>1, <2>2, <2>3, <2>5 DEF FollowInv
<1>7. CASE walk.left = {p}
  <2>1. Settled(read)
    BY <1>7 DEF ReadBody
  <2>2. CASE /\ walk' = [walk EXCEPT !.at = "visible", !.read = read, !.left = {}]
             /\ UNCHANGED <<reader, waiting, view, asOf>>
    BY <1>1, <1>3, <1>6, <1>7, <2>2 DEF Walk
  <2>3. CASE ~(\E q \in Posts : Null(read, q)) /\ ListingWhole(read, walk.since)
    <3>1. \A q \in Posts : read[q] # Denied
      BY <2>3 DEF Null
    <3>2. \A q \in Posts : post[q].pos <= walk.since =>
            read[q] = Body(q) \/ (read[q] \in {Unread, Denied} /\ Body(q) = 0)
      BY <1>5, <1>7, <3>1
    <3> QED BY <1>1, <1>3, <1>4, <2>3, <3>2, ListingFollows
  <2> QED BY <1>1, <2>1, <2>2, <2>3 DEF Settled
<1>8. CASE walk.left # {p}
  <2>1. /\ walk' = [walk EXCEPT !.read = read, !.left = walk.left \ {p}]
        /\ UNCHANGED <<reader, waiting, view, asOf>>
    BY <1>8 DEF ReadBody
  <2> QED BY <1>1, <1>3, <1>6, <2>1 DEF Walk
<1> QED BY <1>7, <1>8

\* The container read settles the nulls: under a zcap that verifies, none was a refusal.
LEMMA FollowsVisible ==
  ASSUME BaseInv, BaseInv', FollowInv, AssertVisible
  PROVE  FollowInv' /\ (UNCHANGED F!vars \/ F!Deliver)
<1>1. walk # None /\ walk.at = "visible" /\ walk.read \in [Posts -> 0..Denied] /\ UNCHANGED <<server, revoked>>
  BY WalkFields DEF AssertVisible, At, BaseInv
<1>2. CASE ~Verifies
  BY <1>1, <1>2, FollowsBeside DEF AssertVisible, ListingCut, Answered, Replied, server, At
<1>3. CASE Verifies
  <2>1. \A p \in Posts : walk.read[p] \in Positions =>
          walk.read[p] <= post[p].pos /\ (walk.read[p] # 0 => view[p] <= walk.read[p])
    BY <1>1 DEF FollowInv, VersionInv
  <2>2. \A p \in Posts : post[p].pos <= walk.since =>
          walk.read[p] = Body(p) \/ (walk.read[p] \in {Unread, Denied} /\ Body(p) = 0)
    BY <1>1, <1>3 DEF FollowInv, ListInv, At, Verifies
  <2> QED BY <1>1, <1>3, <2>1, <2>2, ListingFollows DEF AssertVisible
<1> QED BY <1>2, <1>3

LEMMA FollowsInit == Init => FollowInv /\ F!Init
<1> SUFFICES ASSUME Init PROVE FollowInv /\ F!Init
  OBVIOUS
<1>1. \A p \in Posts : post[p].pos = 0 /\ post[p].kind = "gone" /\ view[p] = 0 /\ Body(p) = 0
  BY DEF Init, Body
<1>2. VersionInv /\ Current
  BY <1>1 DEF Init, VersionInv, Current
<1>3. FeedInv /\ ListInv
  BY DEF Init, FeedInv, ListInv, At
<1>4. F!Init
  BY DEF Init, F!Init
<1> QED BY <1>2, <1>3, <1>4 DEF FollowInv

\* Every step of the reader is one of the Follower, or none, and keeps FollowInv.
LEMMA FollowsStep ==
  ASSUME ~RenewOverListing
  PROVE  BaseInv /\ BaseInv' /\ FollowInv /\ [Next]_vars => FollowInv' /\ [F!Next]_(F!vars)
<1> SUFFICES ASSUME BaseInv, BaseInv', FollowInv, [Next]_vars
             PROVE  FollowInv' /\ [F!Next]_(F!vars)
  OBVIOUS
<1>1. ASSUME NEW p \in Posts, NEW k \in Kinds, Write(p, k) PROVE FollowInv' /\ F!Next
  BY <1>1, FollowsWrite DEF F!Next, Kinds, F!Kinds
<1>2. ASSUME \/ \E g \in Gens : Revoke(g)
             \/ Relayout \/ FlipFeed \/ PullFails \/ Reopen \/ Pull \/ Get \/ GetStep \/ UNCHANGED vars
      PROVE  FollowInv' /\ UNCHANGED F!vars
  <2>1. UNCHANGED <<clock, post, view, asOf>> /\ revoked \subseteq revoked'
    BY <1>2 DEF Revoke, Relayout, FlipFeed, PullFails, Reopen, Pull, Get, GetStep, GetVisible, GetAnswer,
                vars, server
  <2>2. walk' = None \/ (walk' = walk /\ reader'.gen = reader.gen)
    <3>1. CASE GetVisible
      BY <3>1, CutTypes DEF GetVisible, BaseInv
    <3>2. CASE ~GetVisible
      BY <1>2, <3>2 DEF Revoke, Relayout, FlipFeed, PullFails, Answered, Reopen, Pull, Get, GetStep,
                        GetAnswer, vars
    <3> QED BY <3>1, <3>2
  <2> QED BY <2>1, <2>2, FollowsBeside
<1>3. ASSUME Replace PROVE FollowInv' /\ UNCHANGED F!vars
  BY <1>3, FollowsBeside DEF Replace, server
<1>4. ASSUME StartPull \/ FeedUnavailable \/ CheckpointRefused PROVE FollowInv' /\ UNCHANGED F!vars
  <2>1. UNCHANGED <<clock, post, view, asOf, revoked>>
    BY <1>4 DEF StartPull, FeedUnavailable, CheckpointRefused, server
  <2>2. reader'.gen = reader.gen
    BY <1>4 DEF StartPull, FeedUnavailable, CheckpointRefused, BaseInv, TypeOK, Reader
  <2>3. walk' = None \/ walk' \in {Listing, Walking(reader.checkpoint, FALSE), Walking(None, TRUE)}
    BY <1>4 DEF StartPull, FeedUnavailable, CheckpointRefused, Answered
  <2> QED BY <2>1, <2>2, <2>3, FollowsStart, FollowsBeside
<1>5. ASSUME FeedPage \/ FeedEnd \/ FeedCut \/ List \/ (\E p \in Posts : ReadBody(p)) \/ AssertVisible
      PROVE  FollowInv' /\ (UNCHANGED F!vars \/ F!Next)
  BY <1>5, FollowsPage, FollowsFeedEnds, FollowsList, FollowsBody, FollowsVisible DEF F!Next
<1> QED BY <1>1, <1>2, <1>3, <1>4, <1>5 DEF Next, Environment, PullStep

(***************************************************************************)
(* The theorems                                                            *)
(***************************************************************************)
\* Every reachable state of the reader is well-typed, whatever the author, its server and the app do.
THEOREM ReaderTypeCorrect == Spec => []TypeOK
BY BaseReachable, PTL DEF BaseInv

\* A reader is paused only by a denial of the zcap it holds, in whatever order pulls, gets, denials
\* and replacements land (audienceReader.ts:128).
THEOREM PausedOnlyForCause == Spec => []PausedForCause
BY BaseReachable, PTL DEF BaseInv

\* While no zcap is replaced under a listing (the snapshot of which a replacement may truncate), pages,
\* cuts, replays, fallbacks, masked denials and restarts never let the checkpoint or a snapshot run
\* ahead of what the consumer was told.
THEOREM ToldIsCurrent ==
  ASSUME ~RenewOverListing
  PROVE  Spec => []Current
<1>1. Init => FollowInv
  BY FollowsInit
<1>2. BaseInv /\ BaseInv' /\ FollowInv /\ [Next]_vars => FollowInv'
  BY FollowsStep
<1>3. FollowInv => Current
  BY DEF FollowInv
<1> QED BY <1>1, <1>2, <1>3, BaseReachable, PTL DEF Spec

\* Under the same assumption the reader implements a Follower: what it tells its consumer is current up
\* to a position that never goes back, and rolls no post back.
THEOREM ReaderImplements ==
  ASSUME ~RenewOverListing
  PROVE  Spec => Implements
<1>1. Init => FollowInv /\ F!Init
  BY FollowsInit
<1>2. BaseInv /\ BaseInv' /\ FollowInv /\ [Next]_vars => FollowInv' /\ [F!Next]_(F!vars)
  BY FollowsStep
<1>3. Spec => F!Spec
  BY <1>1, <1>2, BaseReachable, PTL DEF Spec, F!Spec
<1> QED BY <1>3 DEF Implements

=============================================================================
