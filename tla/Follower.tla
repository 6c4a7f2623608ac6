------------------------------ MODULE Follower -------------------------------
(***************************************************************************)
(* What a reader of an audience promises its consumer, and nothing of how: *)
(* the posts it was told of are current up to a position of the author's   *)
(* writes that never goes back, and no post is rolled back to an earlier   *)
(* version.  AudienceReader implements it.                                 *)
(***************************************************************************)
EXTENDS Naturals

CONSTANTS Posts, MaxWrites

VARIABLES
  clock,   \* position of the author's last write
  post,    \* what the author's collection holds
  view,    \* the version of each post the consumer shows, 0 for none
  asOf     \* the position up to which it shows everything

vars == <<clock, post, view, asOf>>

Kinds    == {"json", "blob", "gone"}
Stored   == [pos : 0..MaxWrites, kind : Kinds]

(* Only a JSON resource is a post. *)
Shown(p) == IF post[p].kind = "json" THEN post[p].pos ELSE 0

Current == \A p \in Posts : post[p].pos <= asOf => view[p] = Shown(p)

Write(p, k) ==
  /\ clock < MaxWrites
  /\ k = "gone" => post[p].kind # "gone"
  /\ clock' = clock + 1
  /\ post' = [post EXCEPT ![p] = [pos |-> clock + 1, kind |-> k]]
  /\ UNCHANGED <<view, asOf>>

Deliver ==
  /\ asOf' \in asOf..clock
  /\ view' \in [Posts -> 0..clock]
  /\ \A p \in Posts : view'[p] # 0 => view'[p] >= view[p]
  /\ Current'
  /\ UNCHANGED <<clock, post>>

Init ==
  /\ clock = 0 /\ asOf = 0
  /\ post = [p \in Posts |-> [pos |-> 0, kind |-> "gone"]]
  /\ view = [p \in Posts |-> 0]

Next == Deliver \/ \E p \in Posts, k \in Kinds : Write(p, k)

Spec == Init /\ [][Next]_vars
==============================================================================
