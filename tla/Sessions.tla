------------------------------ MODULE Sessions ------------------------------
(***************************************************************************)
(* What signing in promises: a login session is opened once, lives through *)
(* any number of rotations of its refresh token, and once it has ended it  *)
(* is never resumed.  The handlers of Accounts perform each of these in    *)
(* several steps.                                                          *)
(***************************************************************************)
CONSTANT Families       \* login sessions

VARIABLE session

Stages == {"none", "open", "ended"}

SessionsInit == session = [f \in Families |-> "none"]

Open(f) ==
    /\ session[f] = "none"
    /\ session' = [session EXCEPT ![f] = "open"]

\* Logout, expiry and the revocation of everything a user holds
End(ending) ==
    /\ \A f \in ending : session[f] = "open"
    /\ session' = [f \in Families |-> IF f \in ending THEN "ended" ELSE session[f]]

SessionsNext ==
    \/ \E f \in Families : Open(f)
    \/ \E ending \in SUBSET Families : End(ending)

SessionsSpec == SessionsInit /\ [][SessionsNext]_session
=============================================================================
