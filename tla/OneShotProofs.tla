--------------------------- MODULE OneShotProofs ----------------------------
(* What every implementation of OneShot inherits.                          *)
EXTENDS OneShot, TLAPS

(* An accepted secret is no longer live, so it is never accepted again.    *)
AcceptedIsSpent ==
    /\ OneShotTypeOK
    /\ \A a \in accepted : a[1] \notin live
    /\ AtMostOnce

(* No secret is ever accepted for two holders.                             *)
THEOREM OneShotAcceptsOnce == OneShotSpec => []AtMostOnce
<1>1. OneShotInit => AcceptedIsSpent
  BY DEF OneShotInit, AcceptedIsSpent, OneShotTypeOK, AtMostOnce
<1>2. AcceptedIsSpent /\ [OneShotNext]_oneShotVars => AcceptedIsSpent'
  <2> SUFFICES ASSUME AcceptedIsSpent, [OneShotNext]_oneShotVars PROVE AcceptedIsSpent'
    OBVIOUS
  <2>1. ASSUME NEW s \in Secrets, NEW h \in Holders, Accept(s, h) PROVE AcceptedIsSpent'
    <3>1. OneShotTypeOK'
      BY <2>1 DEF AcceptedIsSpent, OneShotTypeOK, Accept
    <3>2. ASSUME NEW a \in accepted' PROVE a[1] \notin live'
      BY <2>1, <3>2 DEF AcceptedIsSpent, Accept
    <3>3. AtMostOnce'
      <4> SUFFICES ASSUME NEW a \in accepted', NEW b \in accepted', a[1] = b[1]
                   PROVE  a = b
        BY DEF AtMostOnce
      <4>1. \A x \in accepted : x[1] # s
        BY <2>1 DEF AcceptedIsSpent, Accept
      <4> QED
        BY <2>1, <4>1 DEF AcceptedIsSpent, AtMostOnce, Accept
    <3> QED
      BY <3>1, <3>2, <3>3 DEF AcceptedIsSpent
  <2>2. ASSUME NEW s \in Secrets, Issue(s) PROVE AcceptedIsSpent'
    <3>1. \A a \in accepted : a[1] # s
      BY <2>2 DEF AcceptedIsSpent, OneShotTypeOK, Issue
    <3>2. OneShotTypeOK'
      BY <2>2 DEF AcceptedIsSpent, OneShotTypeOK, Issue
    <3> QED
      BY <2>2, <3>1, <3>2 DEF AcceptedIsSpent, AtMostOnce, Issue
  <2>3. CASE Withdraw
    BY <2>3 DEF AcceptedIsSpent, OneShotTypeOK, AtMostOnce, Withdraw
  <2>4. CASE UNCHANGED oneShotVars
    BY <2>4 DEF AcceptedIsSpent, OneShotTypeOK, AtMostOnce, oneShotVars
  <2> QED
    BY <2>1, <2>2, <2>3, <2>4 DEF OneShotNext
<1>3. AcceptedIsSpent => AtMostOnce
  BY DEF AcceptedIsSpent
<1> QED
  BY <1>1, <1>2, <1>3, PTL DEF OneShotSpec
=============================================================================
