---------------------------- MODULE MCEntityStore ----------------------------
(***************************************************************************)
(* Small instances of EntityStore: one document, whose writes, pulls and   *)
(* listings interfere, or two, which share the hydration index.            *)
(***************************************************************************)
EXTENDS EntityStore, TLC

CONSTANTS i1, i2, o1, o2, o3, p1, p2

AllKinds   == {"insert", "update", "upsert", "remove"}
WriteKinds == {"upsert", "remove"}

\* CONSTRAINT Uncrossed: a behaviour is followed up to its first crossing, since the
\* properties claim nothing after it.
Symmetry == Permutations(Ops) \cup Permutations(Pulls) \cup Permutations(Ids)
==============================================================================
