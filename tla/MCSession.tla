------------------------------ MODULE MCSession ------------------------------
(***************************************************************************)
(* Small instances of Session: the calls an app makes, and the steps whose *)
(* storage or network call may fail.                                       *)
(***************************************************************************)
EXTENDS Session, TLC

CONSTANTS a1, a2, n1, n2, s1, s2

Boot    == [kind |-> "boot"]
Destroy == [kind |-> "destroy"]
Clear   == [kind |-> "clear"]
Logout  == [kind |-> "logout", wipe |-> FALSE]
Erase   == [kind |-> "logout", wipe |-> TRUE]
Connect == [kind |-> "connect", merge |-> TRUE,
            grants |-> [acct |-> a1, space |-> s1, exp |-> Ttl]]

NoFaults == {}
PopupCalls == {Boot, Destroy, Clear, Logout, Erase}
AdoptCalls == {Connect, Destroy, Boot, Logout, Erase, Clear}

\* Every step of every task may fail but three kinds: those of clearLocalData and a
\* logout's clearing of the persisted session, which leave a status behind whose
\* replica is gone, and the peek of a boot.
Kinds == {"boot", "login", "connect", "logout", "clear", "renew", "destroy"}
MostFaults ==
  {f \in Kinds \X Steps : f[1] # "clear" /\ f \notin {<<"logout", "forget">>, <<"boot", "begin">>}}

\* Openings of the anonymous replica that fail twice: a boot's first and second attempt,
\* a merge's collect and the re-open after it.
TwiceFaults == {<<"boot", "openAnon">>, <<"login", "read">>, <<"login", "openAnon">>}

NoCalls    == {}

\* The app's writes are interchangeable.
WriteSymmetry == Permutations(Writes)

\* Failing steps under which NoAnonymousSync and AnswerSettles, with ClearCalls for Calls,
\* and OneReplicaOpen, with BootCalls, no longer hold: the README names the instances.
ClearCalls     == {Clear}
BootCalls      == {Boot}
StrandingFault == {<<"clear", "landLocal">>}
MintFaults     == {<<"clear", "anonSeed">>, <<"login", "openConn">>}
HalfOpenFaults == {<<"boot", "begin">>, <<"boot", "landLocal">>}
==============================================================================
