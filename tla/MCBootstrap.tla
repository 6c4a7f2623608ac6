---------------------------- MODULE MCBootstrap ----------------------------
(* A small instance of Bootstrap. *)
EXTENDS Bootstrap, TLC

CONSTANTS c1, p1, s1, a, b
Symmetry == Permutations({a, b})

\* CONSTRAINT OneIntruder: the governing logs, the Metadata objects and the controller are changed
\* from outside in behaviours of their own, each as often as MaxEvents allows: the bring-up carries
\* nothing from one of them to another.
LogsQuiet    == \A c \in Governed : Len(log[c]) <= 1
ObjectsQuiet == \A c \in Registry :
  meta[c] # None => meta[c].indexes # "theirs" /\ meta[c].plain = 0 /\ meta[c].edits = 0
AppQuiet     ==
  /\ "app" \notin ctl.imports \cup ctl.starting \cup {ctl.held}
  /\ act.at \in {"pass", "shared", "start", "up"} => ~ctl.stopped
OneIntruder  ==
  /\ LogsQuiet \/ ObjectsQuiet
  /\ AppQuiet \/ (LogsQuiet /\ ObjectsQuiet)
=============================================================================
