--------------------------- MODULE AudienceReader ----------------------------
(***************************************************************************)
(* The reader of one audience (src/storage/audienceReader.ts): pulls over  *)
(* the author's changes feed, the listing a server without a feed falls    *)
(* back to, the single reads, and the capability that is revoked and       *)
(* replaced under any of them.  The author's server is external: a set of  *)
(* posts with the position of their last write.                            *)
(*                                                                         *)
(* An action is one request answered, or one synchronous call of the app.  *)
(* A request travels with the zcap captured when its pull or its get       *)
(* began; a pull hands over to the consumer what it read in one step with  *)
(* the move of its checkpoint, before any other answer can arrive.  How    *)
(* many entries a page holds is left to the server.                        *)
(***************************************************************************)
EXTENDS Naturals, FiniteSets

CONSTANTS
  Posts,
  None,
  MaxWrites,        \* bound: writes of the author
  MaxGens,          \* bound: replacements of the zcap
  MaxLayouts,       \* bound: feed layouts the server retires
  MaxFlips,         \* bound: times the server gains or loses its feed
  MaxFaults,        \* bound: requests that fail for another reason
  MaxCrashes,       \* bound: restarts of the app
  MaxWaiting,       \* bound: pulls called and not answered
  RenewOverListing  \* whether a zcap may be replaced while a listing is read

VARIABLES
  clock, post,      \* the author's collection
  feedOn, layout,   \* whether it has a feed, and the feed's layout
  revoked,          \* the zcaps that verify no more
  reader,           \* the fields of the AudienceReader
  waiting,          \* pulls on the chain, the running one included
  walk,             \* the read of the running pull
  getter,           \* the get under way
  view, asOf,       \* the consumer: what it shows, and up to which position
  faults, crashes, flips

server == <<clock, post, feedOn, layout, flips>>
vars   == <<server, revoked, reader, waiting, walk, getter, view, asOf, faults, crashes>>

Gens        == 0..MaxGens
Positions   == 0..MaxWrites
Checkpoints == [layout : 0..MaxLayouts, pos : Positions]
Kinds       == {"json", "blob", "gone"}

ASSUME BoundsAssumption ==
  /\ {MaxWrites, MaxGens, MaxLayouts, MaxFlips, MaxFaults, MaxCrashes, MaxWaiting} \subseteq Nat
  /\ RenewOverListing \in BOOLEAN
  /\ None \notin Checkpoints

Unread      == MaxWrites + 1      \* a post the read has not met
Denied      == MaxWrites + 2      \* a listed post whose body was refused: null

Reader == [gen : Gens, checkpoint : Checkpoints \cup {None}, paused : BOOLEAN, unsupported : BOOLEAN]
Walk   == [at : {"feed", "list", "bodies", "visible"}, gen : Gens, replay : BOOLEAN,
           reached : Checkpoints \cup {None}, read : [Posts -> 0..Denied], left : SUBSET Posts,
           since : Positions]
Getter == [at : {"get", "visible"}, gen : Gens]

(* One type invariant. *)
TypeOK ==
  /\ clock \in Positions
  /\ post \in [Posts -> [pos : Positions, kind : Kinds]]
  /\ feedOn \in BOOLEAN /\ layout \in 0..MaxLayouts
  /\ revoked \subseteq Gens
  /\ reader \in Reader
  /\ waiting \in 0..MaxWaiting
  /\ walk \in Walk \cup {None} /\ (walk # None => waiting > 0)
  /\ getter \in Getter \cup {None}
  /\ view \in [Posts -> Positions] /\ asOf \in 0..clock
  /\ faults \in 0..MaxFaults /\ crashes \in 0..MaxCrashes /\ flips \in 0..MaxFlips
------------------------------------------------------------------------------
(* The author and its server. *)

Write(p, k) ==
  /\ clock < MaxWrites
  /\ k = "gone" => post[p].kind # "gone"
  /\ clock' = clock + 1
  /\ post' = [post EXCEPT ![p] = [pos |-> clock + 1, kind |-> k]]
  /\ UNCHANGED <<feedOn, layout, flips, revoked, reader, waiting, walk, getter, view, asOf,
                 faults, crashes>>

(* The last zcap of the bound stays valid, so that a reader can catch up. *)
Revoke(g) ==
  /\ g <= reader.gen /\ g < MaxGens /\ g \notin revoked
  /\ revoked' = revoked \cup {g}
  /\ UNCHANGED <<server, reader, waiting, walk, getter, view, asOf, faults, crashes>>

Relayout ==
  /\ layout < MaxLayouts
  /\ layout' = layout + 1
  /\ UNCHANGED <<clock, post, feedOn, flips, revoked, reader, waiting, walk, getter, view, asOf,
                 faults, crashes>>

FlipFeed ==
  /\ flips < MaxFlips
  /\ flips' = flips + 1 /\ feedOn' = ~feedOn
  /\ UNCHANGED <<clock, post, layout, revoked, reader, waiting, walk, getter, view, asOf,
                 faults, crashes>>

(* What a read of a post's body answers: only a JSON one is a post. *)
Body(p) == IF post[p].kind = "json" THEN post[p].pos ELSE 0

Listed == {p \in Posts : post[p].kind # "gone"}

(* The entries after a checkpoint; a refused checkpoint has none. *)
Accepted(c)  == c # None => c.layout = layout
After(c)     == IF c = None THEN 0 ELSE c.pos
Feed(c)      == {p \in Posts : post[p].pos > After(c)}
------------------------------------------------------------------------------
(* The reader. *)

Later(a, b) == IF a > b THEN a ELSE b

(* A pull ends: what the consumer holds and what comes next. *)
Answered ==
  /\ walk' = None
  /\ waiting' = waiting - 1

Replied == view' = view /\ asOf' = asOf

(* A delta is applied over what the consumer holds. *)
DeliverDelta(read, reached) ==
  /\ view' = [p \in Posts |-> IF read[p] = Unread THEN view[p] ELSE read[p]]
  /\ asOf' = Later(asOf, After(reached))

(* A snapshot replaces it: a post that is not in it is gone. *)
DeliverSnapshot(read, upTo) ==
  /\ view' = [p \in Posts |-> IF read[p] \in {Unread, Denied} THEN 0 ELSE read[p]]
  /\ asOf' = Later(asOf, upTo)

(* Mutant: whatever zcap the denied request left under. *)
CutAlways(g) == [reader EXCEPT !.paused = TRUE]

(* A denial pauses the reader only when its request left under the zcap it *)
(* still holds. *)
Cut(g) == IF g = reader.gen THEN [reader EXCEPT !.paused = TRUE] ELSE reader

Nothing == [p \in Posts |-> Unread]

Walking(c, replay) ==
  [at |-> "feed", gen |-> reader.gen, replay |-> replay, reached |-> c,
   read |-> Nothing, left |-> {}, since |-> 0]

Listing ==
  [at |-> "list", gen |-> reader.gen, replay |-> FALSE, reached |-> None,
   read |-> Nothing, left |-> {}, since |-> clock]

(* pull(): onto the chain. *)
Pull ==
  /\ waiting < MaxWaiting
  /\ waiting' = waiting + 1
  /\ UNCHANGED <<server, revoked, reader, walk, getter, view, asOf, faults, crashes>>

(* Its turn on the chain. *)
StartPull ==
  /\ walk = None /\ waiting > 0
  /\ IF reader.paused
       THEN waiting' = waiting - 1 /\ walk' = None
       ELSE /\ waiting' = waiting
            /\ walk' = IF reader.unsupported THEN Listing ELSE Walking(reader.checkpoint, FALSE)
  /\ UNCHANGED <<server, revoked, reader, getter, view, asOf, faults, crashes>>

At(step) == walk # None /\ walk.at = step
Verifies == walk.gen \notin revoked

(* Mutant: the page commits the checkpoint. *)
FeedPageCommits ==
  /\ At("feed") /\ Verifies /\ feedOn /\ Accepted(walk.reached)
  /\ \E last \in Feed(walk.reached) :
       LET reached == [layout |-> layout, pos |-> post[last].pos] IN
       /\ walk' = [walk EXCEPT
            !.read = [p \in Posts |-> IF p \in Feed(walk.reached) /\ post[p].pos <= post[last].pos
                                        THEN Body(p) ELSE @[p]],
            !.reached = reached]
       /\ reader' = [reader EXCEPT !.checkpoint = reached]
  /\ UNCHANGED <<server, revoked, waiting, getter, view, asOf, faults, crashes>>

(* A page of the feed: any number of the entries that follow. *)
FeedPage ==
  /\ At("feed") /\ Verifies /\ feedOn /\ Accepted(walk.reached)
  /\ \E last \in Feed(walk.reached) :
       walk' = [walk EXCEPT
         !.read = [p \in Posts |-> IF p \in Feed(walk.reached) /\ post[p].pos <= post[last].pos
                                     THEN Body(p) ELSE @[p]],
         !.reached = [layout |-> layout, pos |-> post[last].pos]]
  /\ UNCHANGED <<server, revoked, reader, waiting, getter, view, asOf, faults, crashes>>

(* The end of the feed: the checkpoint moves with what it covers.  A walk  *)
(* from the start, in place of a refused checkpoint, is a snapshot. *)
FeedEnd ==
  /\ At("feed") /\ Verifies /\ feedOn /\ Accepted(walk.reached)
  /\ Feed(walk.reached) = {}
  /\ reader' = [reader EXCEPT !.checkpoint = walk.reached]
  /\ IF walk.replay THEN DeliverSnapshot(walk.read, After(walk.reached))
                    ELSE DeliverDelta(walk.read, walk.reached)
  /\ Answered
  /\ UNCHANGED <<server, revoked, getter, faults, crashes>>

(* A denied page: what was read before it is answered, as a delta. *)
FeedCut ==
  /\ At("feed") /\ ~Verifies
  /\ reader' = [Cut(walk.gen) EXCEPT !.checkpoint = walk.reached]
  /\ DeliverDelta(walk.read, walk.reached)
  /\ Answered
  /\ UNCHANGED <<server, revoked, getter, faults, crashes>>

(* 405 or 501: from here on the listing. *)
FeedUnavailable ==
  /\ At("feed") /\ Verifies /\ ~feedOn
  /\ reader' = [reader EXCEPT !.unsupported = TRUE]
  /\ walk' = Listing
  /\ UNCHANGED <<server, revoked, waiting, getter, view, asOf, faults, crashes>>

(* 400: the checkpoint is refused.  Once, the feed is replayed from its    *)
(* start; without a checkpoint to blame, or in the replay, the pull fails. *)
CheckpointRefused ==
  /\ At("feed") /\ Verifies /\ feedOn /\ ~Accepted(walk.reached)
  /\ IF reader.checkpoint # None /\ ~walk.replay
       THEN walk' = Walking(None, TRUE) /\ waiting' = waiting
       ELSE Answered
  /\ UNCHANGED <<server, revoked, reader, getter, view, asOf, faults, crashes>>

(* Any other failure of any request of the pull rejects it. *)
PullFails ==
  /\ walk # None /\ faults < MaxFaults
  /\ faults' = faults + 1
  /\ Answered
  /\ UNCHANGED <<server, revoked, reader, getter, view, asOf, crashes>>

(* The listing's pull ends whole, or cut: nothing is kept of a cut one. *)
ListingWhole(read, since) ==
  /\ DeliverSnapshot(read, since) /\ Answered /\ UNCHANGED reader
ListingCut ==
  /\ reader' = Cut(walk.gen) /\ Answered /\ Replied

List ==
  /\ At("list")
  /\ IF ~Verifies THEN ListingCut
     ELSE IF Listed = {} THEN ListingWhole(Nothing, walk.since)
     ELSE /\ walk' = [walk EXCEPT !.at = "bodies", !.left = Listed]
          /\ UNCHANGED <<reader, waiting, view, asOf>>
  /\ UNCHANGED <<server, revoked, getter, faults, crashes>>

(* A null body is a deletion, or a masked denial: once all are answered    *)
(* one container read tells them apart, unless the zcap was replaced. *)
Null(read, p) == read[p] = Denied
BodyAnswer(p) == IF Verifies /\ post[p].kind # "gone" THEN Body(p) ELSE Denied
Settled(read) ==
  IF (\E p \in Posts : Null(read, p)) /\ walk.gen = reader.gen
    THEN /\ walk' = [walk EXCEPT !.at = "visible", !.read = read, !.left = {}]
         /\ UNCHANGED <<reader, waiting, view, asOf>>
    ELSE ListingWhole(read, walk.since)

ReadBody(p) ==
  /\ At("bodies") /\ p \in walk.left
  /\ LET read == [walk.read EXCEPT ![p] = BodyAnswer(p)] IN
       IF walk.left = {p} THEN Settled(read)
       ELSE /\ walk' = [walk EXCEPT !.read = read, !.left = @ \ {p}]
            /\ UNCHANGED <<reader, waiting, view, asOf>>
  /\ UNCHANGED <<server, revoked, getter, faults, crashes>>

AssertVisible ==
  /\ At("visible")
  /\ IF Verifies THEN ListingWhole(walk.read, walk.since) ELSE ListingCut
  /\ UNCHANGED <<server, revoked, getter, faults, crashes>>

(* get(): one read, whose null is settled the same way. *)
Get ==
  /\ getter = None /\ ~reader.paused
  /\ getter' = [at |-> "get", gen |-> reader.gen]
  /\ UNCHANGED <<server, revoked, reader, waiting, walk, view, asOf, faults, crashes>>

GetAnswer(p) ==
  /\ getter # None /\ getter.at = "get"
  /\ LET null == getter.gen \in revoked \/ post[p].kind = "gone" IN
       getter' = IF null /\ getter.gen = reader.gen
                   THEN [getter EXCEPT !.at = "visible"] ELSE None
  /\ UNCHANGED <<server, revoked, reader, waiting, walk, view, asOf, faults, crashes>>

GetVisible ==
  /\ getter # None /\ getter.at = "visible"
  /\ reader' = IF getter.gen \in revoked THEN Cut(getter.gen) ELSE reader
  /\ getter' = None
  /\ UNCHANGED <<server, revoked, waiting, walk, view, asOf, faults, crashes>>

(* Mutant: the replacement leaves the reader paused. *)
ReplaceStillPaused ==
  /\ reader.gen < MaxGens
  /\ At("list") \/ At("bodies") => RenewOverListing
  /\ reader' = [reader EXCEPT !.gen = @ + 1]
  /\ UNCHANGED <<server, revoked, waiting, walk, getter, view, asOf, faults, crashes>>

(* replaceCapability(), synchronous.  A refused one changes nothing. *)
Replace ==
  /\ reader.gen < MaxGens
  /\ At("list") \/ At("bodies") => RenewOverListing
  /\ reader' = [reader EXCEPT !.gen = @ + 1, !.paused = FALSE]
  /\ UNCHANGED <<server, revoked, waiting, walk, getter, view, asOf, faults, crashes>>

(* Mutant: the walk of the reader before goes on. *)
ReopenRunning ==
  /\ crashes < MaxCrashes
  /\ crashes' = crashes + 1
  /\ reader' = [reader EXCEPT !.paused = FALSE, !.unsupported = FALSE]
  /\ waiting' = 0 /\ getter' = None
  /\ UNCHANGED <<server, revoked, walk, view, asOf, faults>>

(* The app restarts: a new reader from the checkpoint it kept. *)
Reopen ==
  /\ crashes < MaxCrashes
  /\ crashes' = crashes + 1
  /\ reader' = [reader EXCEPT !.paused = FALSE, !.unsupported = FALSE]
  /\ waiting' = 0 /\ walk' = None /\ getter' = None
  /\ UNCHANGED <<server, revoked, view, asOf, faults>>
------------------------------------------------------------------------------
Init ==
  /\ clock = 0 /\ post = [p \in Posts |-> [pos |-> 0, kind |-> "gone"]]
  /\ feedOn \in BOOLEAN /\ layout = 0 /\ flips = 0
  /\ revoked = {}
  /\ reader = [gen |-> 0, checkpoint |-> None, paused |-> FALSE, unsupported |-> FALSE]
  /\ waiting = 0 /\ walk = None /\ getter = None
  /\ view = [p \in Posts |-> 0] /\ asOf = 0
  /\ faults = 0 /\ crashes = 0

Environment ==
  \/ \E p \in Posts, k \in Kinds : Write(p, k)
  \/ \E g \in Gens : Revoke(g)
  \/ Relayout \/ FlipFeed \/ PullFails \/ Reopen

PullStep ==
  \/ StartPull
  \/ FeedPage \/ FeedEnd \/ FeedCut \/ FeedUnavailable \/ CheckpointRefused
  \/ List \/ (\E p \in Posts : ReadBody(p)) \/ AssertVisible

GetStep == GetVisible \/ \E p \in Posts : GetAnswer(p)

Next == Environment \/ Pull \/ PullStep \/ Get \/ GetStep \/ Replace

Spec == Init /\ [][Next]_vars

(* Requests are answered; the app polls, and its agent replaces a zcap     *)
(* once the reader asks for one. *)
FairSpec ==
  /\ Spec
  /\ WF_vars(PullStep) /\ WF_vars(GetStep)
  /\ WF_vars(Pull) /\ WF_vars(reader.paused /\ Replace)
------------------------------------------------------------------------------
(* A paused reader was denied under the zcap it holds: no answer to a      *)
(* request that left under an earlier one can pause it, in whatever order  *)
(* pulls, gets, denials and replacements land (audienceReader.ts:128, "a   *)
(* denial raised by a request that left under the previous zcap cannot     *)
(* pause the reader"). *)
PausedForCause == reader.paused => reader.gen \in revoked

(* What the consumer was told is current up to the position it was told:   *)
(* neither a checkpoint nor a snapshot runs ahead of the changes handed    *)
(* over (audienceReader.ts:86-97 and 219-226). *)
Current == \A p \in Posts : post[p].pos <= asOf => view[p] = Body(p)

(* Pulls, cuts, replays, fallbacks and restarts implement a follower that  *)
(* shows everything up to a position that never goes back. *)
F == INSTANCE Follower WITH clock <- clock, post <- post, view <- view, asOf <- asOf
Implements == F!Spec

(* Once the author stops writing, an app that keeps pulling and replaces   *)
(* its zcap when asked ends up showing the author's posts. *)
Converges == <>[](\A p \in Posts : view[p] = Body(p))
------------------------------------------------------------------------------
(* What a walk under way has still to tell: the invariants that make       *)
(* TypeOK and Current inductive. *)

(* No checkpoint is ahead of what was told, no post and no walk ahead of   *)
(* the author; a walk of the feed has no body refused. *)
RangeInv ==
  /\ \A p \in Posts : post[p].pos <= clock
  /\ After(reader.checkpoint) <= asOf
  /\ walk # None => After(walk.reached) <= clock /\ walk.since <= clock
  /\ At("feed") => \A p \in Posts : walk.read[p] # Denied

(* A post not yet written is none; one is shown in a version it had, and   *)
(* read in one no older than the one shown. *)
VersionInv ==
  \A p \in Posts :
    /\ post[p].pos = 0 => post[p].kind = "gone"
    /\ view[p] <= post[p].pos
    /\ walk # None /\ walk.read[p] \in Positions =>
         walk.read[p] <= post[p].pos /\ (walk.read[p] # 0 => view[p] <= walk.read[p])

(* A walk of the feed has read, or left as shown, every post up to the     *)
(* position it reached, and a post written after that is one the consumer  *)
(* was not yet told of.  A replay has read them all. *)
FeedInv ==
  At("feed") => \A p \in Posts :
    /\ post[p].pos <= After(walk.reached) =>
         \/ walk.read[p] = Body(p)
         \/ /\ walk.read[p] = Unread /\ view[p] = Body(p)
            /\ walk.replay => post[p].pos = 0
    /\ post[p].pos > After(walk.reached) /\ walk.read[p] # Unread => post[p].pos > asOf

(* A listing was called under the zcap the reader holds; of a post not     *)
(* written since, its answer is the body, or null for a post that shows    *)
(* none or a zcap that verifies no more. *)
ListInv ==
  /\ At("list") \/ At("bodies") => walk.gen = reader.gen
  /\ At("list") => walk.read = Nothing
  /\ walk # None /\ walk.at # "feed" => asOf <= walk.since
  /\ At("bodies") \/ At("visible") =>
       \A p \in Posts \ walk.left : post[p].pos <= walk.since =>
         \/ walk.read[p] = Body(p)
         \/ walk.read[p] \in {Unread, Denied} /\ Body(p) = 0
         \/ walk.read[p] = Denied /\ walk.gen \in revoked
  /\ At("visible") => walk.left = {}

FollowInv == VersionInv /\ Current /\ FeedInv /\ ListInv
==============================================================================
