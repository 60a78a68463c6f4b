------------------------------ MODULE OneShot -------------------------------
(***************************************************************************)
(* What a store of one-time secrets promises: a secret is issued once,     *)
(* accepted for at most one holder, ever, and may be withdrawn without     *)
(* being accepted.  Recovery codes and passkey ceremonies implement it.    *)
(***************************************************************************)
CONSTANTS Secrets, Holders

VARIABLES issued,      \* secrets handed out so far
          live,        \* secrets that would be accepted now
          accepted     \* <<secret, holder>>: acceptances so far

oneShotVars == <<issued, live, accepted>>

OneShotTypeOK ==
    /\ issued \in SUBSET Secrets
    /\ live \in SUBSET issued
    /\ accepted \in SUBSET (issued \X Holders)

OneShotInit == issued \in SUBSET Secrets /\ live = issued /\ accepted = {}

Issue(s) ==
    /\ s \notin issued
    /\ issued' = issued \cup {s}
    /\ live' \in SUBSET (live \cup {s})
    /\ UNCHANGED accepted

Withdraw ==
    /\ live' \in SUBSET live
    /\ UNCHANGED <<issued, accepted>>

Accept(s, h) ==
    /\ s \in live
    /\ live' = live \ {s}
    /\ accepted' = accepted \cup {<<s, h>>}
    /\ UNCHANGED issued

OneShotNext ==
    \/ \E s \in Secrets : Issue(s)
    \/ Withdraw
    \/ \E s \in Secrets, h \in Holders : Accept(s, h)

OneShotSpec == OneShotInit /\ [][OneShotNext]_oneShotVars

(* No secret is accepted for two holders.                                  *)
AtMostOnce ==
    \A a, b \in accepted : a[1] = b[1] => a = b
=============================================================================
