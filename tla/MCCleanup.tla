------------------------------ MODULE MCCleanup ------------------------------
(***************************************************************************)
(* Instances of Cleanup for TLC.                                           *)
(***************************************************************************)
EXTENDS Cleanup, TLC

CONSTANTS v1, v2, s1, s2, p1, p2

\* v1 is shared by two sources, of different profiles.
SharedLinks == {<<s1, v1>>, <<s2, v1>>, <<s2, v2>>}
TwoProfiles == s1 :> p1 @@ s2 :> p2

\* s1 follows its profile's retention, s2 has its own.
Days == s1 :> None @@ s2 :> 2
OneDay == [p \in Profiles |-> 1]

Sizes == v1 :> 1 @@ v2 :> 2
Small == [p \in Profiles |-> 1]

\* How often operators and failures may act.
CleanupBudget == [requests |-> 1, failures |-> 1]
==============================================================================
