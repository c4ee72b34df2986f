---------------------------- MODULE SessionLedger ----------------------------
(***************************************************************************)
(* What the backend promises about sessions, with no token, request or     *)
(* query in sight: a session begins with a login, never seen before, one   *)
(* at a time; sessions end, many at once after a logout or a reset; and    *)
(* one that has ended never comes back, whoever is refreshing it then.     *)
(***************************************************************************)
EXTENDS Naturals

VARIABLES
    begun,  \* how many sessions there have been
    live    \* those that can still be continued

vars == <<begun, live>>

Init ==
    /\ begun = 0
    /\ live = {}

Begin ==
    /\ begun' = begun + 1
    /\ \E s \in live' : s.login = begun' /\ live' = live \cup {s}

End ==
    /\ begun' = begun
    /\ live' \subseteq live

Next == Begin \/ End

Spec == Init /\ [][Next]_vars

=============================================================================
