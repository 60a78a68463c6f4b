--------------------------- MODULE PasskeyProofs ----------------------------
(***************************************************************************)
(* Theorems about Passkey, for every set of requests, users and            *)
(* credentials and every number of restarts.                               *)
(***************************************************************************)
EXTENDS Passkey, TLAPS

(* One request moves on, to well-formed locals.                            *)
LEMMA RequestMoves ==
  ASSUME RequestTypeOK, StoreTypeOK, NEW r \in Requests, NEW l \in Local,
         req' = [req EXCEPT ![r] = l],
         LocalOK(l)', UNCHANGED answers
  PROVE  RequestTypeOK'
<1>1. req' \in [Requests -> Local]
  BY DEF RequestTypeOK
<1>2. ASSUME NEW q \in Requests PROVE LocalOK(req[q])'
  <2>1. CASE q = r
    <3>1. req'[q] = l
      BY <2>1 DEF RequestTypeOK
    <3> QED
      BY <3>1 DEF LocalOK
  <2>2. CASE q # r
    <3>1. req'[q] = req[q] /\ LocalOK(req[q])
      BY <2>2 DEF RequestTypeOK
    <3> QED
      BY <3>1 DEF LocalOK
  <2> QED
    BY <2>1, <2>2
<1> QED
  BY <1>1, <1>2 DEF RequestTypeOK

LEMMA RequestFinishes ==
  ASSUME RequestTypeOK, StoreTypeOK, NEW r \in Requests, Finish(r), UNCHANGED answers
  PROVE  RequestTypeOK'
<1>1. Finished \in Local
  BY DEF Finished, Blank, Local, PCs
<1>2. LocalOK(Finished)'
  BY DEF LocalOK, Finished, Blank
<1> QED
  BY <1>1, <1>2, RequestMoves DEF Finish

LEMMA RequestsStay ==
  ASSUME RequestTypeOK, UNCHANGED <<req, answers>>
  PROVE  RequestTypeOK'
BY DEF RequestTypeOK, LocalOK

LEMMA PasskeyInitTypeOK == Init => PasskeyTypeOK
<1> SUFFICES ASSUME Init PROVE PasskeyTypeOK
  OBVIOUS
<1>1. RequestTypeOK
  <2>1. Blank \in Local
    BY DEF Blank, Local, PCs
  <2> QED
    BY <2>1 DEF Init, RequestTypeOK, LocalOK, Blank
<1>2. MemoryTypeOK /\ HistoryTypeOK
  BY PasskeyAssumption DEF Init, MemoryTypeOK, HistoryTypeOK, Times
<1>3. StoreTypeOK
  BY DEF Init, StoreTypeOK, Row
<1> QED
  BY <1>1, <1>2, <1>3 DEF PasskeyTypeOK

(* Arrivals: the new locals come from what the request presents.           *)
LEMMA ArriveTypeOK ==
  ASSUME PasskeyTypeOK, NEW r \in Requests, Arrive(r)
  PROVE  PasskeyTypeOK'
<1> USE DEF Env, memory, devices, history, PasskeyTypeOK
<1>0. req[r] \in Local
  BY DEF RequestTypeOK
<1>1. ASSUME NEW u \in Users, BeginRegisterArrive(r, u) PROVE PasskeyTypeOK'
  <2>1. PICK l \in Local : l = [req[r] EXCEPT !.pc = "begin", !.user = u]
    BY <1>0 DEF Local, PCs
  <2>2. req' = [req EXCEPT ![r] = l] /\ LocalOK(l)'
    BY <1>0, <1>1, <2>1 DEF BeginRegisterArrive, LocalOK, Local, RequestTypeOK
  <2>3. RequestTypeOK'
    BY <1>1, <2>2, RequestMoves DEF BeginRegisterArrive
  <2> QED
    BY <1>1, <2>3 DEF BeginRegisterArrive, MemoryTypeOK, StoreTypeOK, HistoryTypeOK
<1>2. ASSUME NEW t \in Requests, FinishRegisterArrive(r, t) PROVE PasskeyTypeOK'
  <2>1. attested[t] \in Users
    BY <1>2 DEF FinishRegisterArrive, StoreTypeOK, Credentials
  <2>2. PICK l \in Local : l = [req[r] EXCEPT !.pc = "claim", !.user = attested[t], !.ref = t]
    BY <1>0, <2>1 DEF Local, PCs
  <2>3. req' = [req EXCEPT ![r] = l] /\ LocalOK(l)'
    BY <1>0, <1>2, <2>1, <2>2 DEF FinishRegisterArrive, LocalOK, Local, RequestTypeOK
  <2>4. RequestTypeOK'
    BY <1>2, <2>3, RequestMoves DEF FinishRegisterArrive
  <2> QED
    BY <1>2, <2>4 DEF FinishRegisterArrive, MemoryTypeOK, StoreTypeOK, HistoryTypeOK
<1>3. CASE BeginLogin(r)
  <2>1. RequestTypeOK'
    BY <1>3, RequestFinishes DEF BeginLogin
  <2>2. MemoryTypeOK'
    BY <1>3 DEF BeginLogin, MemoryTypeOK
  <2> QED
    BY <1>3, <2>1, <2>2 DEF BeginLogin, StoreTypeOK, HistoryTypeOK
<1>4. ASSUME NEW t \in Requests, FinishLoginArrive(r, t) PROVE PasskeyTypeOK'
  <2>1. PICK l \in Local : l = [req[r] EXCEPT !.pc = "take", !.ref = t]
    BY <1>0 DEF Local, PCs
  <2>2. req' = [req EXCEPT ![r] = l] /\ LocalOK(l)'
    BY <1>0, <1>4, <2>1 DEF FinishLoginArrive, LocalOK, Local, RequestTypeOK
  <2>3. RequestTypeOK'
    BY <1>4, <2>2, RequestMoves DEF FinishLoginArrive
  <2> QED
    BY <1>4, <2>3 DEF FinishLoginArrive, MemoryTypeOK, StoreTypeOK, HistoryTypeOK
<1>5. ASSUME NEW c \in Credentials, NEW u \in Users, DeleteCredential(r, c, u)
      PROVE  PasskeyTypeOK'
  <2>1. RequestTypeOK'
    BY <1>5, RequestFinishes DEF DeleteCredential
  <2>2. StoreTypeOK' /\ HistoryTypeOK'
    BY <1>5 DEF DeleteCredential, StoreTypeOK, HistoryTypeOK
  <2> QED
    BY <1>5, <2>1, <2>2 DEF DeleteCredential, MemoryTypeOK
<1> QED
  BY <1>1, <1>2, <1>3, <1>4, <1>5 DEF Arrive

LEMMA RequestGoes ==
  ASSUME RequestTypeOK, StoreTypeOK, NEW r \in Requests, NEW pc \in PCs, Goto(r, pc),
         LocalOK([req[r] EXCEPT !.pc = pc]), UNCHANGED answers
  PROVE  RequestTypeOK'
<1>1. PICK l \in Local : l = [req[r] EXCEPT !.pc = pc]
  BY DEF RequestTypeOK, Local
<1>2. req' = [req EXCEPT ![r] = l] /\ LocalOK(l)'
  BY <1>1 DEF Goto, RequestTypeOK, LocalOK
<1> QED
  BY <1>2, RequestMoves

(* Registration steps. *)
LEMMA RegisterTypeOK ==
  ASSUME PasskeyTypeOK, NEW r \in Requests,
         BeginRegister(r) \/ Claim(r) \/ InsertCredential(r)
  PROVE  PasskeyTypeOK'
<1> USE DEF Env, memory, devices, history, PasskeyTypeOK
<1>0. req[r] \in Local /\ LocalOK(req[r])
  BY DEF RequestTypeOK
<1>1. CASE BeginRegister(r)
  <2>1. req[r].user \in Users
    BY <1>0, <1>1 DEF BeginRegister, At, LocalOK
  <2>2. RequestTypeOK'
    BY <1>1, RequestFinishes DEF BeginRegister
  <2>3. MemoryTypeOK'
    BY <1>1, <2>1 DEF BeginRegister, MemoryTypeOK, Ceremony
  <2>4. StoreTypeOK' /\ HistoryTypeOK'
    BY <1>1, <2>1 DEF BeginRegister, StoreTypeOK, HistoryTypeOK, Credentials
  <2> QED
    BY <2>2, <2>3, <2>4
<1>2. CASE Claim(r)
  <2>1. req[r].user \in Users /\ req[r].ref \in Requests
    BY <1>0, <1>2 DEF Claim, At, LocalOK
  <2>2. LocalOK([req[r] EXCEPT !.pc = "insert"])
    BY <1>0, <2>1 DEF LocalOK, Local
  <2>3. RequestTypeOK'
    <3>1. "insert" \in PCs /\ UNCHANGED answers
      BY <1>2 DEF PCs, Claim
    <3>2. Goto(r, "insert") \/ Finish(r)
      BY <1>2 DEF Claim
    <3> QED
      BY <2>2, <3>1, <3>2, RequestGoes, RequestFinishes
  <2>4. MemoryTypeOK'
    BY <1>2, <2>1 DEF Claim, MemoryTypeOK
  <2>5. HistoryTypeOK'
    BY <1>2, <2>1 DEF Claim, HistoryTypeOK
  <2> QED
    BY <1>2, <2>3, <2>4, <2>5 DEF Claim, StoreTypeOK
<1>3. CASE InsertCredential(r)
  <2>1. req[r].user \in Users /\ req[r].ref \in Requests
    BY <1>0, <1>3 DEF InsertCredential, At, LocalOK
  <2>2. RequestTypeOK'
    BY <1>3, RequestFinishes DEF InsertCredential
  <2>3. StoreTypeOK'
    BY <1>3, <2>1 DEF InsertCredential, StoreTypeOK, Row
  <2> QED
    BY <1>3, <2>2, <2>3 DEF InsertCredential, MemoryTypeOK, HistoryTypeOK
<1> QED
  BY <1>1, <1>2, <1>3

(* Login steps. *)
LEMMA LoginTypeOK ==
  ASSUME PasskeyTypeOK, NEW r \in Requests,
         TakeLogin(r) \/ LoadUser(r) \/ LookUpOwner(r) \/ UpdateSignCount(r) \/ CreateSession(r)
  PROVE  PasskeyTypeOK'
<1> USE DEF Env, memory, devices, history, PasskeyTypeOK
<1>0. req[r] \in Local /\ LocalOK(req[r])
  BY DEF RequestTypeOK
<1>1. CASE TakeLogin(r)
  <2> DEFINE t == req[r].ref
  <2>1. t \in Requests /\ answers[t] \in Answer
    BY <1>0, <1>1 DEF TakeLogin, At, LocalOK, StoreTypeOK
  <2>2. answers[t].cred \in Credentials
    BY <2>1 DEF Answer
  <2>3. RequestTypeOK'
    <3>1. PICK l \in Local : l = [req[r] EXCEPT !.pc = "load", !.cred = answers[t].cred]
      BY <1>0, <2>2 DEF Local, PCs
    <3>2. CASE req' = [req EXCEPT ![r] = l]
      <4>1. LocalOK(l)'
        BY <1>0, <1>1, <2>1, <2>2, <3>1, NoneIsNoRecord DEF TakeLogin, LocalOK, Local
      <4> QED
        BY <1>1, <3>2, <4>1, RequestMoves DEF TakeLogin
    <3>3. CASE Finish(r)
      BY <1>1, <3>3, RequestFinishes DEF TakeLogin
    <3> QED
      BY <1>1, <3>1, <3>2, <3>3 DEF TakeLogin, RequestTypeOK
  <2>4. MemoryTypeOK' /\ HistoryTypeOK'
    BY <1>1, <2>1 DEF TakeLogin, MemoryTypeOK, HistoryTypeOK
  <2> QED
    BY <1>1, <2>3, <2>4 DEF TakeLogin, StoreTypeOK
<1>2. CASE LoadUser(r)
  <2> DEFINE c == req[r].cred
             n == Verified(creds[c].count, answers[req[r].ref].count)
  <2>1. c \in Credentials /\ answers[req[r].ref] \in Answer
    BY <1>0, <1>2 DEF LoadUser, At, LocalOK, StoreTypeOK
  <2>2. CASE creds[c] # None
    <3>1. n \in Nat
      BY <2>1, <2>2 DEF Verified, StoreTypeOK, Row, Answer
    <3>2. PICK l \in Local : l = [req[r] EXCEPT !.pc = "owner", !.count = n]
      BY <1>0, <3>1 DEF Local, PCs
    <3>3. req' = [req EXCEPT ![r] = l]
      BY <1>2, <2>2, <3>2 DEF LoadUser, RequestTypeOK
    <3>4. LocalOK(l)'
      BY <1>0, <2>1, <3>2 DEF LocalOK, Local
    <3>5. RequestTypeOK'
      BY <1>2, <3>3, <3>4, RequestMoves DEF LoadUser
    <3> QED
      BY <1>2, <3>5 DEF LoadUser, MemoryTypeOK, StoreTypeOK, HistoryTypeOK
  <2>3. CASE creds[c] = None
    <3>1. RequestTypeOK'
      BY <1>2, <2>3, RequestFinishes DEF LoadUser
    <3> QED
      BY <1>2, <3>1 DEF LoadUser, MemoryTypeOK, StoreTypeOK, HistoryTypeOK
  <2> QED
    BY <2>2, <2>3
<1>3. CASE LookUpOwner(r)
  <2>1. "update" \in PCs /\ LocalOK([req[r] EXCEPT !.pc = "update"])
    BY <1>0, <1>3 DEF LookUpOwner, At, LocalOK, Local, PCs
  <2>2. RequestTypeOK'
    BY <1>3, <2>1, RequestGoes, RequestFinishes DEF LookUpOwner
  <2> QED
    BY <1>3, <2>2 DEF LookUpOwner, MemoryTypeOK, StoreTypeOK, HistoryTypeOK
<1>4. CASE UpdateSignCount(r)
  <2>1. req[r].cred \in Credentials /\ req[r].count \in Nat
    BY <1>0, <1>4 DEF UpdateSignCount, At, LocalOK, Local
  <2>2. "session" \in PCs /\ LocalOK([req[r] EXCEPT !.pc = "session"])
    BY <1>0, <2>1 DEF LocalOK, Local, PCs
  <2>3. RequestTypeOK'
    BY <1>4, <2>2, RequestGoes DEF UpdateSignCount
  <2>4. StoreTypeOK'
    <3>1. CASE creds[req[r].cred] = None
      BY <1>4, <3>1 DEF UpdateSignCount, StoreTypeOK
    <3>2. CASE creds[req[r].cred] # None
      <4>1. [creds[req[r].cred] EXCEPT !.count = req[r].count] \in Row
        BY <2>1, <3>2 DEF StoreTypeOK, Row
      <4>2. creds' \in [Credentials -> Row \cup {None}]
        BY <1>4, <2>1, <3>2, <4>1 DEF UpdateSignCount, StoreTypeOK
      <4> QED
        BY <1>4, <4>2 DEF UpdateSignCount, StoreTypeOK
    <3> QED
      BY <3>1, <3>2
  <2> QED
    BY <1>4, <2>3, <2>4 DEF UpdateSignCount, MemoryTypeOK, HistoryTypeOK
<1>5. CASE CreateSession(r)
  <2>1. req[r].cred \in Credentials
    BY <1>0, <1>5 DEF CreateSession, At, LocalOK
  <2>2. RequestTypeOK'
    BY <1>5, RequestFinishes DEF CreateSession
  <2>3. StoreTypeOK'
    BY <1>5, <2>1 DEF CreateSession, StoreTypeOK
  <2> QED
    BY <1>5, <2>2, <2>3 DEF CreateSession, MemoryTypeOK, HistoryTypeOK
<1> QED
  BY <1>1, <1>2, <1>3, <1>4, <1>5

(* The browser, the sweeper, the clock, failures and restarts.             *)
LEMMA OthersTypeOK ==
  ASSUME PasskeyTypeOK,
         \/ \E t \in Requests, c \in Credentials : Sign(t, c)
         \/ SweepPending
         \/ \E r \in Requests : StatementFails(r)
         \/ Restart
         \/ Tick
         \/ UNCHANGED vars
  PROVE  PasskeyTypeOK'
<1> USE DEF Env, memory, devices, history, PasskeyTypeOK
<1>1. ASSUME NEW t \in Requests, NEW c \in Credentials, Sign(t, c) PROVE PasskeyTypeOK'
  <2>1. PICK n \in {0, counter[c] + 1} :
          /\ counter' = [counter EXCEPT ![c] = n]
          /\ answers' = [answers EXCEPT ![t] = [cred |-> c, count |-> n]]
    BY <1>1 DEF Sign
  <2>2. n \in Nat /\ [cred |-> c, count |-> n] \in Answer
    BY <2>1 DEF StoreTypeOK, Answer
  <2>3. StoreTypeOK'
    BY <1>1, <2>1, <2>2 DEF Sign, StoreTypeOK
  <2>4. \A q \in Requests : answers[q] # None => answers'[q] # None
    BY <2>1, <2>2, NoneIsNoRecord DEF StoreTypeOK
  <2>5. RequestTypeOK'
    <3>1. req' = req
      BY <1>1 DEF Sign
    <3>2. \A q \in Requests : LocalOK(req[q])'
      BY <2>4, <3>1 DEF RequestTypeOK, LocalOK
    <3> QED
      BY <3>1, <3>2 DEF RequestTypeOK
  <2> QED
    BY <1>1, <2>3, <2>5 DEF Sign, MemoryTypeOK, HistoryTypeOK
<1>2. CASE SweepPending
  <2>1. MemoryTypeOK'
    BY <1>2 DEF SweepPending, MemoryTypeOK
  <2>2. RequestTypeOK'
    BY <1>2, RequestsStay DEF SweepPending
  <2> QED
    BY <1>2, <2>1, <2>2 DEF SweepPending, StoreTypeOK, HistoryTypeOK
<1>3. ASSUME NEW r \in Requests, StatementFails(r) PROVE PasskeyTypeOK'
  <2>1. req[r] \in Local /\ LocalOK(req[r]) /\ UNCHANGED answers
    BY <1>3 DEF RequestTypeOK, StatementFails
  <2>2. CASE At(r, "update")
    <3>1. "session" \in PCs /\ LocalOK([req[r] EXCEPT !.pc = "session"])
      BY <2>1, <2>2 DEF At, LocalOK, Local, PCs
    <3> QED
      BY <1>3, <2>1, <2>2, <3>1, RequestGoes, PasskeyAssumption
      DEF StatementFails, MemoryTypeOK, StoreTypeOK, HistoryTypeOK
  <2>3. CASE ~At(r, "update")
    BY <1>3, <2>1, <2>3, RequestFinishes, PasskeyAssumption
    DEF StatementFails, MemoryTypeOK, StoreTypeOK, HistoryTypeOK
  <2> QED
    BY <2>2, <2>3
<1>4. CASE Restart
  <2>1. MemoryTypeOK'
    BY <1>4, PasskeyAssumption DEF Restart, MemoryTypeOK
  <2>2. RequestTypeOK'
    <3>1. Finished \in Local /\ LocalOK(Finished)'
      BY DEF Finished, Blank, Local, PCs, LocalOK
    <3>2. req' \in [Requests -> Local]
      BY <1>4, <3>1 DEF Restart, RequestTypeOK
    <3>3. ASSUME NEW q \in Requests PROVE LocalOK(req[q])'
      <4>1. req'[q] = Finished \/ (req'[q] = req[q] /\ LocalOK(req[q]))
        BY <1>4 DEF Restart, RequestTypeOK
      <4> QED
        BY <1>4, <3>1, <4>1 DEF Restart, LocalOK
    <3> QED
      BY <3>2, <3>3 DEF RequestTypeOK
  <2> QED
    BY <1>4, <2>1, <2>2 DEF Restart, StoreTypeOK, HistoryTypeOK
<1>5. CASE Tick \/ UNCHANGED vars
  <2>1. MemoryTypeOK'
    BY <1>5, PasskeyAssumption DEF Tick, vars, MemoryTypeOK, Times
  <2>2. RequestTypeOK'
    BY <1>5, RequestsStay DEF Tick, vars
  <2> QED
    BY <1>5, <2>1, <2>2 DEF Tick, vars, StoreTypeOK, HistoryTypeOK
<1> QED
  BY <1>1, <1>2, <1>3, <1>4, <1>5

(* Every table, map and local of the passkey handlers stays well formed.   *)
THEOREM PasskeyTypeCorrect == Spec => []PasskeyTypeOK
<1>1. PasskeyTypeOK /\ [Next]_vars => PasskeyTypeOK'
  <2> SUFFICES ASSUME PasskeyTypeOK, [Next]_vars PROVE PasskeyTypeOK'
    OBVIOUS
  <2>1. ASSUME NEW r \in Requests, Arrive(r) PROVE PasskeyTypeOK'
    BY <2>1, ArriveTypeOK
  <2>2. ASSUME NEW r \in Requests, Step(r) PROVE PasskeyTypeOK'
    BY <2>2, RegisterTypeOK, LoginTypeOK DEF Step
  <2>3. CASE \/ \E t \in Requests, c \in Credentials : Sign(t, c)
             \/ SweepPending
             \/ \E r \in Requests : StatementFails(r)
             \/ Restart
             \/ Tick
             \/ UNCHANGED vars
    BY <2>3, OthersTypeOK
  <2> QED
    BY <2>1, <2>2, <2>3 DEF Next
<1> QED
  BY <1>1, PasskeyInitTypeOK, PTL DEF Spec

-----------------------------------------------------------------------------
(* A challenge is issued once, by a request that is then done; it waits in *)
(* one place at most: the login map, or the entry of the user an           *)
(* authenticator made a credential for.                                    *)
CeremonyInv ==
    /\ PasskeyTypeOK
    /\ \A t \in begun : At(t, "done")
    /\ \A t \in Requests : attested[t] # None => t \in begun
    /\ \A t \in Requests : pendingLogin[t] # None => t \in begun /\ attested[t] = None
    /\ \A u \in Users : pending[u] # None =>
          pending[u].challenge \in begun /\ attested[pending[u].challenge] = u

LiveCeremonies ==
    {t \in Requests : \/ pendingLogin[t] # None
                      \/ \E u \in Users : pending[u] # None /\ pending[u].challenge = t}

LEMMA CeremonyInit == Init => CeremonyInv /\ Ceremonies!OneShotInit
<1> SUFFICES ASSUME Init PROVE CeremonyInv /\ Ceremonies!OneShotInit
  OBVIOUS
<1>1. CeremonyInv
  BY PasskeyInitTypeOK, PasskeyAssumption DEF Init, CeremonyInv, Credentials
<1>2. Ceremonies!OneShotInit
  BY DEF Init, Ceremonies!OneShotInit
<1> QED
  BY <1>1, <1>2

(* The steps that touch no ceremony.                                       *)
LEMMA CeremonyUnchanged ==
  ASSUME CeremonyInv, PasskeyTypeOK', UNCHANGED <<pending, pendingLogin, attested, begun, taken>>,
         \A r \in Requests : At(r, "done") => At(r, "done")'
  PROVE  CeremonyInv' /\ [Ceremonies!OneShotNext]_Ceremonies!oneShotVars
<1>1. CeremonyInv'
  BY DEF CeremonyInv, PasskeyTypeOK, HistoryTypeOK
<1>2. UNCHANGED Ceremonies!oneShotVars
  BY DEF Ceremonies!oneShotVars
<1> QED
  BY <1>1, <1>2

(* Entries that disappear without being accepted.                          *)
LEMMA CeremonyWithdrawn ==
  ASSUME CeremonyInv, PasskeyTypeOK', UNCHANGED <<attested, begun, taken>>,
         \A u \in Users : pending'[u] \in {pending[u], None},
         \A t \in Requests : pendingLogin'[t] \in {pendingLogin[t], None},
         \A r \in Requests : At(r, "done") => At(r, "done")'
  PROVE  CeremonyInv' /\ [Ceremonies!OneShotNext]_Ceremonies!oneShotVars
<1>1. CeremonyInv'
  BY DEF CeremonyInv, PasskeyTypeOK, HistoryTypeOK
<1>2. LiveCeremonies' \subseteq LiveCeremonies
  BY DEF LiveCeremonies
<1>3. Ceremonies!Withdraw
  BY <1>2 DEF Ceremonies!Withdraw, LiveCeremonies
<1> QED
  BY <1>1, <1>3 DEF Ceremonies!OneShotNext

LEMMA DoneStays ==
  ASSUME RequestTypeOK, NEW r \in Requests, ~At(r, "done"),
         NEW l, req' = [req EXCEPT ![r] = l]
  PROVE  \A q \in Requests : At(q, "done") => At(q, "done")'
BY DEF RequestTypeOK, At

(* BeginRegister and BeginLogin issue their challenge.                     *)
LEMMA CeremonyBegins ==
  ASSUME CeremonyInv, PasskeyTypeOK', NEW r \in Requests,
         BeginRegister(r) \/ BeginLogin(r)
  PROVE  CeremonyInv' /\ [Ceremonies!OneShotNext]_Ceremonies!oneShotVars
<1> USE DEF memory, devices, Env
<1>0. /\ r \notin begun /\ begun' = begun \cup {r} /\ taken' = taken
      /\ RequestTypeOK /\ MemoryTypeOK /\ StoreTypeOK /\ begun \in SUBSET Requests
      /\ LocalOK(req[r])
  BY DEF CeremonyInv, PasskeyTypeOK, RequestTypeOK, HistoryTypeOK, At, BeginRegister, BeginLogin
<1>1. \A q \in begun' : At(q, "done")'
  <2>1. ~At(r, "done")
    BY DEF BeginRegister, BeginLogin, At
  <2>2. Finish(r)
    BY DEF BeginRegister, BeginLogin
  <2>3. At(r, "done")'
    BY <1>0, <2>2 DEF Finish, Finished, Blank, At, RequestTypeOK
  <2>4. \A q \in Requests : At(q, "done") => At(q, "done")'
    BY <1>0, <2>1, <2>2, DoneStays DEF Finish
  <2> QED
    BY <1>0, <2>3, <2>4 DEF CeremonyInv
<1>2. CASE BeginRegister(r)
  <2> DEFINE u == req[r].user
  <2>1. u \in Users /\ u # None
    BY <1>0, <1>2, PasskeyAssumption DEF BeginRegister, At, LocalOK
  <2>2. /\ pending' = [pending EXCEPT ![u] = [challenge |-> r, created |-> now]]
        /\ attested' = [attested EXCEPT ![r] = u]
        /\ pendingLogin' = pendingLogin
    BY <1>2 DEF BeginRegister
  <2>3. r \in Credentials /\ attested'[r] = u /\ pendingLogin[r] = None
    BY <1>0, <2>2 DEF Credentials, StoreTypeOK, CeremonyInv
  <2>4. \A t \in Requests : attested'[t] # None => t \in begun'
    BY <1>0, <2>2 DEF CeremonyInv, StoreTypeOK, Credentials
  <2>5. \A t \in Requests : pendingLogin'[t] # None => t \in begun' /\ attested'[t] = None
    BY <1>0, <2>2, <2>3 DEF CeremonyInv, StoreTypeOK, Credentials
  <2>6. ASSUME NEW v \in Users, pending'[v] # None
        PROVE  pending'[v].challenge \in begun' /\ attested'[pending'[v].challenge] = v
    <3>1. CASE v = u
      <4>1. pending'[v].challenge = r
        BY <1>0, <2>1, <2>2, <3>1 DEF MemoryTypeOK
      <4> QED
        BY <1>0, <2>3, <3>1, <4>1
    <3>2. CASE v # u
      <4>1. pending'[v] = pending[v]
        BY <1>0, <2>1, <2>2, <3>2 DEF MemoryTypeOK
      <4>2. pending[v].challenge \in begun /\ attested[pending[v].challenge] = v
        BY <2>6, <4>1 DEF CeremonyInv
      <4>3. pending[v].challenge # r
        BY <1>0, <4>2
      <4> QED
        BY <1>0, <2>2, <4>1, <4>2, <4>3 DEF StoreTypeOK, Credentials
    <3> QED
      BY <3>1, <3>2
  <2>7. CeremonyInv'
    BY <1>1, <2>4, <2>5, <2>6 DEF CeremonyInv
  <2>8. LiveCeremonies' \subseteq LiveCeremonies \cup {r}
    <3> SUFFICES ASSUME NEW t \in LiveCeremonies', t # r PROVE t \in LiveCeremonies
      OBVIOUS
    <3>1. t \in Requests
      BY DEF LiveCeremonies
    <3>2. CASE pendingLogin'[t] # None
      BY <2>2, <3>1, <3>2 DEF LiveCeremonies
    <3>3. ASSUME NEW v \in Users, pending'[v] # None, pending'[v].challenge = t
          PROVE  t \in LiveCeremonies
      <4>1. CASE v = u
        <5>1. pending'[v].challenge = r
          BY <1>0, <2>1, <2>2, <4>1 DEF MemoryTypeOK
        <5> QED
          BY <3>3, <5>1
      <4>2. CASE v # u
        <5>1. pending'[v] = pending[v]
          BY <1>0, <2>1, <2>2, <4>2 DEF MemoryTypeOK
        <5> QED
          BY <3>1, <3>3, <5>1 DEF LiveCeremonies
      <4> QED
        BY <4>1, <4>2
    <3> QED
      BY <3>2, <3>3 DEF LiveCeremonies
  <2>9. Ceremonies!Issue(r)
    BY <1>0, <2>8 DEF Ceremonies!Issue, LiveCeremonies
  <2> QED
    BY <2>7, <2>9 DEF Ceremonies!OneShotNext
<1>3. CASE BeginLogin(r)
  <2>1. pendingLogin' = [pendingLogin EXCEPT ![r] = now] /\ UNCHANGED <<pending, attested>>
    BY <1>3 DEF BeginLogin
  <2>2. attested[r] = None
    BY <1>0 DEF CeremonyInv
  <2>3. CeremonyInv'
    BY <1>0, <1>1, <2>1, <2>2 DEF CeremonyInv, MemoryTypeOK
  <2>4. LiveCeremonies' \subseteq LiveCeremonies \cup {r}
    BY <1>0, <2>1 DEF LiveCeremonies, MemoryTypeOK
  <2>5. Ceremonies!Issue(r)
    BY <1>0, <2>4 DEF Ceremonies!Issue, LiveCeremonies
  <2> QED
    BY <2>3, <2>5 DEF Ceremonies!OneShotNext
<1> QED
  BY <1>2, <1>3

(* The ceremony that is taken was waiting, and waits no more.              *)
LEMMA CeremonyTaken ==
  ASSUME CeremonyInv, PasskeyTypeOK', NEW r \in Requests, Claim(r) \/ TakeLogin(r)
  PROVE  CeremonyInv' /\ [Ceremonies!OneShotNext]_Ceremonies!oneShotVars
<1> USE DEF memory, devices, Env
<1>0. /\ RequestTypeOK /\ MemoryTypeOK /\ LocalOK(req[r]) /\ taken \in SUBSET (Requests \X Requests)
      /\ req[r].ref \in Requests
      /\ UNCHANGED <<attested, begun>>
  BY DEF CeremonyInv, PasskeyTypeOK, RequestTypeOK, HistoryTypeOK, At, Claim, TakeLogin, LocalOK
<1> DEFINE t == req[r].ref
<1>1. \A q \in Requests : At(q, "done") => At(q, "done")'
  <2>1. ~At(r, "done")
    BY DEF Claim, TakeLogin, At
  <2>2. \E l : req' = [req EXCEPT ![r] = l]
    BY <1>0 DEF Claim, TakeLogin, Goto, Finish, RequestTypeOK
  <2> QED
    BY <1>0, <2>1, <2>2, DoneStays
<1>2. /\ \A u \in Users : pending'[u] \in {pending[u], None}
      /\ \A x \in Requests : pendingLogin'[x] \in {pendingLogin[x], None}
  BY <1>0 DEF Claim, TakeLogin, MemoryTypeOK
<1>3. CASE taken' = taken
  BY <1>0, <1>1, <1>2, <1>3, CeremonyWithdrawn
<1>4. CASE taken' # taken
  <2>1. taken' = taken \cup {<<t, r>>}
    BY <1>4 DEF Claim, TakeLogin
  <2>2. CeremonyInv'
    BY <1>0, <1>1, <1>2, <2>1 DEF CeremonyInv, HistoryTypeOK, PasskeyTypeOK
  <2>3. t \in LiveCeremonies /\ LiveCeremonies' = LiveCeremonies \ {t}
    <3>1. CASE Claim(r)
      <4> DEFINE u == req[r].user
      <4>1. /\ u \in Users /\ pending[u] # None /\ pending[u].challenge = t
            /\ pending' = [pending EXCEPT ![u] = None] /\ pendingLogin' = pendingLogin
        BY <1>0, <1>4, <3>1 DEF Claim, At, LocalOK
      <4>2. attested[t] = u
        BY <4>1 DEF CeremonyInv
      <4>3. pendingLogin[t] = None
        BY <1>0, <4>1, <4>2, PasskeyAssumption DEF CeremonyInv
      <4>4. \A v \in Users : v # u /\ pending[v] # None => pending[v].challenge # t
        BY <4>2 DEF CeremonyInv
      <4>5. \A v \in Users : pending'[v] = IF v = u THEN None ELSE pending[v]
        BY <1>0, <4>1 DEF MemoryTypeOK
      <4>6. t \in LiveCeremonies
        BY <1>0, <4>1 DEF LiveCeremonies
      <4>7. t \notin LiveCeremonies'
        BY <4>1, <4>3, <4>4, <4>5 DEF LiveCeremonies
      <4>8. \A x \in LiveCeremonies : x # t => x \in LiveCeremonies'
        BY <4>1, <4>5 DEF LiveCeremonies
      <4>9. LiveCeremonies' \subseteq LiveCeremonies
        BY <4>1, <4>5 DEF LiveCeremonies
      <4> QED
        BY <4>6, <4>7, <4>8, <4>9
    <3>2. CASE TakeLogin(r)
      <4>1. /\ pendingLogin[t] # None
            /\ pendingLogin' = [pendingLogin EXCEPT ![t] = None] /\ pending' = pending
        BY <1>4, <3>2 DEF TakeLogin
      <4>2. attested[t] = None
        BY <1>0, <4>1 DEF CeremonyInv
      <4>3. \A v \in Users : pending[v] # None => pending[v].challenge # t
        BY <4>2, PasskeyAssumption DEF CeremonyInv
      <4>4. \A x \in Requests : pendingLogin'[x] = IF x = t THEN None ELSE pendingLogin[x]
        BY <1>0, <4>1 DEF MemoryTypeOK
      <4> QED
        BY <1>0, <4>1, <4>3, <4>4 DEF LiveCeremonies
    <3> QED
      BY <3>1, <3>2
  <2>4. PICK x \in Requests : x = t
    BY <1>0
  <2>5. Ceremonies!Accept(x, r)
    BY <1>0, <2>1, <2>3, <2>4 DEF Ceremonies!Accept, LiveCeremonies
  <2> QED
    BY <2>2, <2>5 DEF Ceremonies!OneShotNext
<1> QED
  BY <1>3, <1>4

(* A WebAuthn ceremony is accepted for one request at most, and a replaced,*)
(* swept or lost one for none: Passkey implements OneShot.                 *)
THEOREM CeremoniesImplementOneShot == Spec => CeremoniesAreOneShot
<1>1. CeremonyInv /\ PasskeyTypeOK' /\ [Next]_vars
        => CeremonyInv' /\ [Ceremonies!OneShotNext]_Ceremonies!oneShotVars
  <2> SUFFICES ASSUME CeremonyInv, PasskeyTypeOK', [Next]_vars
               PROVE  CeremonyInv' /\ [Ceremonies!OneShotNext]_Ceremonies!oneShotVars
    OBVIOUS
  <2> USE DEF memory, devices, history, Env
  <2>0. RequestTypeOK /\ MemoryTypeOK
    BY DEF CeremonyInv, PasskeyTypeOK
  <2>1. ASSUME NEW r \in Requests, Arrive(r), ~BeginLogin(r)
        PROVE  CeremonyInv' /\ [Ceremonies!OneShotNext]_Ceremonies!oneShotVars
    <3>1. UNCHANGED <<pending, pendingLogin, attested, begun, taken>> /\ ~At(r, "done")
      BY <2>1 DEF Arrive, BeginRegisterArrive, FinishRegisterArrive, FinishLoginArrive,
                  DeleteCredential, At
    <3>2. \E l : req' = [req EXCEPT ![r] = l]
      BY <2>0, <2>1 DEF Arrive, BeginRegisterArrive, FinishRegisterArrive, FinishLoginArrive,
                  DeleteCredential, Finish, RequestTypeOK
    <3> QED
      BY <2>0, <3>1, <3>2, DoneStays, CeremonyUnchanged
  <2>2. ASSUME NEW r \in Requests,
               InsertCredential(r) \/ LoadUser(r) \/ LookUpOwner(r) \/ UpdateSignCount(r)
                 \/ CreateSession(r) \/ StatementFails(r)
        PROVE  CeremonyInv' /\ [Ceremonies!OneShotNext]_Ceremonies!oneShotVars
    <3>1. UNCHANGED <<pending, pendingLogin, attested, begun, taken>> /\ ~At(r, "done")
      BY <2>2 DEF InsertCredential, LoadUser, LookUpOwner, UpdateSignCount, CreateSession,
                  StatementFails, At
    <3>2. \E l : req' = [req EXCEPT ![r] = l]
      BY <2>0, <2>2 DEF InsertCredential, LoadUser, LookUpOwner, UpdateSignCount, CreateSession,
                  StatementFails, Goto, Finish, RequestTypeOK
    <3> QED
      BY <2>0, <3>1, <3>2, DoneStays, CeremonyUnchanged
  <2>3. ASSUME NEW t \in Requests, NEW c \in Credentials, Sign(t, c)
        PROVE  CeremonyInv' /\ [Ceremonies!OneShotNext]_Ceremonies!oneShotVars
    BY <2>3, CeremonyUnchanged DEF Sign, At
  <2>4. CASE Tick \/ UNCHANGED vars
    BY <2>4, CeremonyUnchanged DEF Tick, vars, At
  <2>5. CASE SweepPending \/ Restart
    <3>1. \A q \in Requests : At(q, "done") => At(q, "done")'
      BY <2>0, <2>5 DEF SweepPending, Restart, At, Finished, Blank, RequestTypeOK
    <3>2. /\ \A u \in Users : pending'[u] \in {pending[u], None}
          /\ \A x \in Requests : pendingLogin'[x] \in {pendingLogin[x], None}
      BY <2>0, <2>5 DEF SweepPending, Restart, MemoryTypeOK
    <3> QED
      BY <2>5, <3>1, <3>2, CeremonyWithdrawn DEF SweepPending, Restart
  <2>6. ASSUME NEW r \in Requests, BeginLogin(r) \/ BeginRegister(r)
        PROVE  CeremonyInv' /\ [Ceremonies!OneShotNext]_Ceremonies!oneShotVars
    BY <2>6, CeremonyBegins
  <2>7. ASSUME NEW r \in Requests, Claim(r) \/ TakeLogin(r)
        PROVE  CeremonyInv' /\ [Ceremonies!OneShotNext]_Ceremonies!oneShotVars
    BY <2>7, CeremonyTaken
  <2> QED
    BY <2>1, <2>2, <2>3, <2>4, <2>5, <2>6, <2>7 DEF Next, Step
<1> QED
  BY <1>1, CeremonyInit, PasskeyTypeCorrect, PTL
  DEF Spec, CeremoniesAreOneShot, Ceremonies!OneShotSpec

-----------------------------------------------------------------------------
(* A login that is past the look-up of its credential either still has it  *)
(* or was there when it was deleted.                                       *)
PastLookUp(r) == At(r, "update") \/ At(r, "session")

DeletedInv ==
    /\ PasskeyTypeOK
    /\ \A r \in Requests : PastLookUp(r) =>
          creds[req[r].cred] # None \/ <<req[r].cred, r>> \in late
    /\ DeletedCredentialIsDead

(* No row disappears, nobody passes the look-up, no session is created.    *)
LEMMA DeletedUnchanged ==
  ASSUME DeletedInv, PasskeyTypeOK',
         \A c \in Credentials : creds[c] # None => creds'[c] # None,
         UNCHANGED <<late, sessions>>,
         \A r \in Requests : PastLookUp(r)' => PastLookUp(r) /\ req'[r].cred = req[r].cred
  PROVE  DeletedInv'
<1>1. ASSUME NEW r \in Requests, PastLookUp(r)'
      PROVE  creds'[req'[r].cred] # None \/ <<req'[r].cred, r>> \in late'
  <2>1. req[r].cred \in Credentials /\ PastLookUp(r) /\ req'[r].cred = req[r].cred
    BY <1>1 DEF DeletedInv, PasskeyTypeOK, RequestTypeOK, LocalOK, PastLookUp, At
  <2> QED
    BY <2>1 DEF DeletedInv
<1>2. DeletedCredentialIsDead'
  BY DEF DeletedInv, DeletedCredentialIsDead, PasskeyTypeOK, StoreTypeOK
<1> QED
  BY <1>1, <1>2 DEF DeletedInv

(* What a request does to the program counters of all.                     *)
LEMMA OneMoves ==
  ASSUME RequestTypeOK, NEW r \in Requests, NEW l, req' = [req EXCEPT ![r] = l]
  PROVE  \A q \in Requests : req'[q] = IF q = r THEN l ELSE req[q]
BY DEF RequestTypeOK

LEMMA DeletedStep ==
  ASSUME DeletedInv, PasskeyTypeOK', [Next]_vars
  PROVE  DeletedInv'
<1> USE DEF memory, devices, history, Env
<1>0. RequestTypeOK /\ StoreTypeOK /\ HistoryTypeOK
  BY DEF DeletedInv, PasskeyTypeOK
<1>1. ASSUME NEW r \in Requests, NEW c \in Credentials, NEW u \in Users, DeleteCredential(r, c, u)
      PROVE  DeletedInv'
  <2>1. \A q \in Requests : req'[q] = IF q = r THEN Finished ELSE req[q]
    BY <1>0, <1>1, OneMoves DEF DeleteCredential, Finish
  <2>2. ASSUME NEW q \in Requests, PastLookUp(q)' PROVE PastLookUp(q) /\ req'[q].cred = req[q].cred
    BY <2>1, <2>2 DEF PastLookUp, At, Finished, Blank
  <2>3. CASE UNCHANGED <<creds, late>>
    BY <1>1, <2>2, <2>3, DeletedUnchanged DEF DeleteCredential
  <2>4. CASE creds[c].user = u
    <3> DEFINE there == {x \in Requests : \/ sessions[x] = c
                                          \/ At(x, "update") /\ req[x].cred = c
                                          \/ At(x, "session") /\ req[x].cred = c}
    <3>1. /\ creds' = [creds EXCEPT ![c] = None] /\ sessions' = sessions
          /\ late' = late \cup {<<c, q>> : q \in there}
      BY <1>1, <2>4 DEF DeleteCredential
    <3>2. \A x \in there : <<c, x>> \in late'
      BY <3>1
    <3>3. late \subseteq late'
      BY <3>1
    <3>4. \A d \in Credentials : d # c => creds'[d] = creds[d]
      BY <1>0, <3>1 DEF StoreTypeOK
    <3>5. ASSUME NEW q \in Requests, PastLookUp(q)'
          PROVE  creds'[req'[q].cred] # None \/ <<req'[q].cred, q>> \in late'
      <4>1. PastLookUp(q) /\ req'[q].cred = req[q].cred /\ req[q].cred \in Credentials
        BY <1>0, <2>2, <3>5 DEF RequestTypeOK, LocalOK, PastLookUp, At
      <4>2. CASE req[q].cred = c
        <5>1. q \in there
          BY <4>1, <4>2 DEF PastLookUp
        <5> QED
          BY <3>2, <4>1, <4>2, <5>1
      <4>3. CASE req[q].cred # c
        BY <3>3, <3>4, <4>1, <4>3 DEF DeletedInv
      <4> QED
        BY <4>2, <4>3
    <3>6. ASSUME NEW q \in Requests, sessions'[q] # None
          PROVE  creds'[sessions'[q]] # None \/ <<sessions'[q], q>> \in late'
      <4>1. sessions'[q] = sessions[q] /\ sessions[q] \in Credentials
        BY <1>0, <3>1, <3>6 DEF StoreTypeOK
      <4>2. CASE sessions[q] = c
        <5>1. q \in there
          BY <4>2
        <5> QED
          BY <3>2, <4>1, <4>2, <5>1
      <4>3. CASE sessions[q] # c
        BY <3>3, <3>4, <3>6, <4>1, <4>3 DEF DeletedInv, DeletedCredentialIsDead
      <4> QED
        BY <4>2, <4>3
    <3> QED
      BY <3>5, <3>6 DEF DeletedInv, DeletedCredentialIsDead
  <2> QED
    BY <1>1, <2>3, <2>4 DEF DeleteCredential
<1>2. ASSUME NEW r \in Requests,
             \/ \E u \in Users : BeginRegisterArrive(r, u)
             \/ \E t \in Requests : FinishRegisterArrive(r, t) \/ FinishLoginArrive(r, t)
             \/ BeginLogin(r) \/ BeginRegister(r) \/ Claim(r) \/ TakeLogin(r) \/ LoadUser(r)
      PROVE  DeletedInv'
  <2>1. UNCHANGED <<creds, late, sessions>>
    BY <1>2 DEF BeginRegisterArrive, FinishRegisterArrive, FinishLoginArrive, BeginLogin,
                BeginRegister, Claim, TakeLogin, LoadUser
  <2>2. \/ Finish(r)
        \/ Goto(r, "insert")
        \/ \E u \in Users : req' = [req EXCEPT ![r].pc = "begin", ![r].user = u]
        \/ \E t \in Requests :
              \/ req' = [req EXCEPT ![r].pc = "claim", ![r].user = attested[t], ![r].ref = t]
              \/ req' = [req EXCEPT ![r].pc = "take", ![r].ref = t]
        \/ \E c : req' = [req EXCEPT ![r].pc = "load", ![r].cred = c]
        \/ \E n : req' = [req EXCEPT ![r].pc = "owner", ![r].count = n]
    BY <1>2 DEF BeginRegisterArrive, FinishRegisterArrive, FinishLoginArrive, BeginLogin,
                BeginRegister, Claim, TakeLogin, LoadUser
  <2>3. \A q \in Requests : q # r => req'[q] = req[q]
    BY <1>0, <2>2 DEF Finish, Goto, RequestTypeOK
  <2>4. req'[r].pc \notin {"update", "session"}
    <3>0. req \in [Requests -> Local]
      BY <1>0 DEF RequestTypeOK
    <3>1. CASE Finish(r)
      BY <3>0, <3>1 DEF Finish, Finished, Blank
    <3>2. CASE Goto(r, "insert")
      BY <3>0, <3>2 DEF Goto, Local
    <3>3. CASE \E u \in Users : req' = [req EXCEPT ![r].pc = "begin", ![r].user = u]
      BY <3>0, <3>3 DEF Local
    <3>4. CASE \E t \in Requests :
                 \/ req' = [req EXCEPT ![r].pc = "claim", ![r].user = attested[t], ![r].ref = t]
                 \/ req' = [req EXCEPT ![r].pc = "take", ![r].ref = t]
      BY <3>0, <3>4 DEF Local
    <3>5. CASE \E c : req' = [req EXCEPT ![r].pc = "load", ![r].cred = c]
      BY <3>0, <3>5 DEF Local
    <3>6. CASE \E n : req' = [req EXCEPT ![r].pc = "owner", ![r].count = n]
      BY <3>0, <3>6 DEF Local
    <3> QED
      BY <2>2, <3>1, <3>2, <3>3, <3>4, <3>5, <3>6
  <2>5. \A q \in Requests : PastLookUp(q)' => PastLookUp(q) /\ req'[q].cred = req[q].cred
    BY <2>3, <2>4 DEF PastLookUp, At
  <2> QED
    BY <2>1, <2>5, DeletedUnchanged
<1>3. ASSUME NEW r \in Requests, InsertCredential(r) PROVE DeletedInv'
  <2>1. req[r].ref \in Credentials /\ req[r].user \in Users
    BY <1>0, <1>3 DEF InsertCredential, At, RequestTypeOK, LocalOK, Credentials
  <2>2. creds'[req[r].ref] \in Row
    BY <1>0, <1>3, <2>1 DEF InsertCredential, StoreTypeOK, Row
  <2>3. \A c \in Credentials : creds[c] # None => creds'[c] # None
    BY <1>0, <1>3, <2>1, <2>2, NoneIsNoRecord DEF InsertCredential, StoreTypeOK
  <2>4. \A q \in Requests : req'[q] = IF q = r THEN Finished ELSE req[q]
    BY <1>0, <1>3, OneMoves DEF InsertCredential, Finish
  <2>5. \A q \in Requests : PastLookUp(q)' => PastLookUp(q) /\ req'[q].cred = req[q].cred
    BY <2>4 DEF PastLookUp, At, Finished, Blank
  <2> QED
    BY <1>3, <2>3, <2>5, DeletedUnchanged DEF InsertCredential
<1>4. ASSUME NEW r \in Requests, LookUpOwner(r) PROVE DeletedInv'
  <2>1. UNCHANGED <<creds, late, sessions>>
    BY <1>4 DEF LookUpOwner
  <2>2. CASE creds[req[r].cred] # None
    <3>1. \A q \in Requests : /\ q # r => req'[q] = req[q]
                              /\ req'[q].cred = req[q].cred
      BY <1>0, <1>4, <2>2 DEF LookUpOwner, Goto, RequestTypeOK, Local
    <3>2. \A q \in Requests : PastLookUp(q)' =>
            creds'[req'[q].cred] # None \/ <<req'[q].cred, q>> \in late'
      BY <2>1, <2>2, <3>1 DEF DeletedInv, PastLookUp, At
    <3> QED
      BY <2>1, <3>2 DEF DeletedInv, DeletedCredentialIsDead
  <2>3. CASE creds[req[r].cred] = None
    <3>1. \A q \in Requests : req'[q] = IF q = r THEN Finished ELSE req[q]
      BY <1>0, <1>4, <2>3, OneMoves DEF LookUpOwner, Finish
    <3>2. \A q \in Requests : PastLookUp(q)' => PastLookUp(q) /\ req'[q].cred = req[q].cred
      BY <3>1 DEF PastLookUp, At, Finished, Blank
    <3> QED
      BY <2>1, <3>2, DeletedUnchanged
  <2> QED
    BY <2>2, <2>3
<1>5. ASSUME NEW r \in Requests, UpdateSignCount(r) PROVE DeletedInv'
  <2>1. req[r].cred \in Credentials /\ req[r].count \in Nat
    BY <1>0, <1>5 DEF UpdateSignCount, At, RequestTypeOK, LocalOK, Local
  <2>2. \A c \in Credentials : creds[c] # None => creds'[c] # None
    <3>1. CASE creds[req[r].cred] = None
      BY <1>5, <3>1 DEF UpdateSignCount
    <3>2. CASE creds[req[r].cred] # None
      <4>1. [creds[req[r].cred] EXCEPT !.count = req[r].count] \in Row
        BY <1>0, <2>1, <3>2 DEF StoreTypeOK, Row
      <4> QED
        BY <1>0, <1>5, <2>1, <3>2, <4>1, NoneIsNoRecord DEF UpdateSignCount, StoreTypeOK
    <3> QED
      BY <3>1, <3>2
  <2>3. \A q \in Requests : PastLookUp(q)' => PastLookUp(q) /\ req'[q].cred = req[q].cred
    BY <1>0, <1>5 DEF UpdateSignCount, Goto, RequestTypeOK, Local, PastLookUp, At
  <2> QED
    BY <1>5, <2>2, <2>3, DeletedUnchanged DEF UpdateSignCount
<1>6. ASSUME NEW r \in Requests, CreateSession(r) PROVE DeletedInv'
  <2>1. \A q \in Requests : req'[q] = IF q = r THEN Finished ELSE req[q]
    BY <1>0, <1>6, OneMoves DEF CreateSession, Finish
  <2>2. \A q \in Requests : PastLookUp(q)' =>
          creds'[req'[q].cred] # None \/ <<req'[q].cred, q>> \in late'
    BY <1>6, <2>1 DEF CreateSession, DeletedInv, PastLookUp, At, Finished, Blank
  <2>3. DeletedCredentialIsDead'
    BY <1>0, <1>6 DEF CreateSession, DeletedInv, DeletedCredentialIsDead, PastLookUp, At, StoreTypeOK
  <2> QED
    BY <2>2, <2>3 DEF DeletedInv
<1>7. ASSUME NEW r \in Requests, StatementFails(r) PROVE DeletedInv'
  <2>1. \A q \in Requests : PastLookUp(q)' => PastLookUp(q) /\ req'[q].cred = req[q].cred
    BY <1>0, <1>7 DEF StatementFails, Goto, Finish, Finished, Blank, RequestTypeOK, Local,
                      PastLookUp, At
  <2> QED
    BY <1>7, <2>1, DeletedUnchanged DEF StatementFails
<1>8. CASE Restart
  <2>1. \A q \in Requests : PastLookUp(q)' => PastLookUp(q) /\ req'[q].cred = req[q].cred
    BY <1>0, <1>8 DEF Restart, Finished, Blank, RequestTypeOK, PastLookUp, At
  <2> QED
    BY <1>8, <2>1, DeletedUnchanged DEF Restart
<1>9. CASE \/ \E t \in Requests, c \in Credentials : Sign(t, c)
           \/ SweepPending \/ Tick \/ UNCHANGED vars
  <2>1. UNCHANGED <<creds, late, sessions, req>>
    BY <1>9 DEF Sign, SweepPending, Tick, vars
  <2> QED
    BY <2>1, DeletedUnchanged DEF PastLookUp, At
<1> QED
  BY <1>1, <1>2, <1>3, <1>4, <1>5, <1>6, <1>7, <1>8, <1>9 DEF Next, Arrive, Step

(* After a passkey is deleted, no login that had not yet looked it up can  *)
(* end in a session.                                                       *)
THEOREM DeletedPasskeyStaysDead == Spec => []DeletedCredentialIsDead
<1>1. Init => DeletedInv
  BY PasskeyInitTypeOK DEF Init, DeletedInv, DeletedCredentialIsDead, PastLookUp, At, Blank
<1>2. DeletedInv => DeletedCredentialIsDead
  BY DEF DeletedInv
<1> QED
  BY <1>1, <1>2, DeletedStep, PasskeyTypeCorrect, PTL DEF Spec

-----------------------------------------------------------------------------
(* Counts only ever come from an answer of the credential's authenticator. *)
Counting(r) == At(r, "owner") \/ At(r, "update")

CountInv ==
    /\ PasskeyTypeOK
    /\ StoredCountWasReported
    /\ \A t \in Requests : answers[t] # None => answers[t].count <= counter[answers[t].cred]
    /\ \A r \in Requests : /\ At(r, "load") => req[r].cred = answers[req[r].ref].cred
                           /\ Counting(r) => req[r].count <= counter[req[r].cred]

(* A step that leaves the devices alone, stores no count but 0, and makes  *)
(* no request load or carry one.                                           *)
LEMMA CountUnchanged ==
  ASSUME CountInv, UNCHANGED <<counter, answers>>, PasskeyTypeOK',
         \A c \in Credentials : creds'[c] # None =>
             creds'[c].count = 0 \/ (creds[c] # None /\ creds'[c].count = creds[c].count),
         \A r \in Requests :
             /\ At(r, "load")' => At(r, "load") /\ req'[r].ref = req[r].ref
                                                /\ req'[r].cred = req[r].cred
             /\ Counting(r)' => Counting(r) /\ req'[r].cred = req[r].cred
                                           /\ req'[r].count = req[r].count
  PROVE  CountInv'
<1>1. StoredCountWasReported'
  <2>1. \A c \in Credentials : counter[c] \in Nat
    BY DEF CountInv, PasskeyTypeOK, StoreTypeOK
  <2> QED
    BY <2>1 DEF CountInv, StoredCountWasReported
<1>2. \A t \in Requests : answers'[t] # None => answers'[t].count <= counter'[answers'[t].cred]
  BY DEF CountInv
<1>3. ASSUME NEW r \in Requests
      PROVE  /\ At(r, "load")' => req'[r].cred = answers'[req'[r].ref].cred
             /\ Counting(r)' => req'[r].count <= counter'[req'[r].cred]
  BY DEF CountInv
<1> QED
  BY <1>1, <1>2, <1>3 DEF CountInv

LEMMA CountStep ==
  ASSUME CountInv, PasskeyTypeOK', [Next]_vars
  PROVE  CountInv'
<1> USE DEF memory, devices, history, Env
<1>0. RequestTypeOK /\ StoreTypeOK /\ HistoryTypeOK
  BY DEF CountInv, PasskeyTypeOK
<1>1. ASSUME NEW r \in Requests,
             \/ BeginLogin(r) \/ BeginRegister(r) \/ InsertCredential(r) \/ CreateSession(r)
             \/ \E c \in Credentials, u \in Users : DeleteCredential(r, c, u)
      PROVE  CountInv'
  <2>1. \A q \in Requests : req'[q] = IF q = r THEN Finished ELSE req[q]
    BY <1>0, <1>1, OneMoves
    DEF BeginLogin, BeginRegister, InsertCredential, CreateSession, DeleteCredential, Finish
  <2>2. \A q \in Requests :
           /\ At(q, "load")' => At(q, "load") /\ req'[q] = req[q]
           /\ Counting(q)' => Counting(q) /\ req'[q] = req[q]
    BY <2>1 DEF Counting, At, Finished, Blank
  <2>3. ASSUME NEW c \in Credentials, creds'[c] # None
        PROVE  creds'[c].count = 0 \/ (creds[c] # None /\ creds'[c].count = creds[c].count)
    <3>1. CASE InsertCredential(r)
      <4>1. \/ creds'[c] = [user |-> req[r].user, count |-> 0]
            \/ creds'[c] = creds[c]
        BY <1>0, <3>1 DEF InsertCredential, StoreTypeOK
      <4> QED
        BY <2>3, <4>1
    <3>2. CASE \E d \in Credentials, u \in Users : DeleteCredential(r, d, u)
      <4>1. creds'[c] = None \/ creds'[c] = creds[c]
        BY <1>0, <3>2 DEF DeleteCredential, StoreTypeOK
      <4> QED
        BY <2>3, <4>1
    <3>3. CASE BeginLogin(r) \/ BeginRegister(r) \/ CreateSession(r)
      BY <2>3, <3>3 DEF BeginLogin, BeginRegister, CreateSession
    <3> QED
      BY <1>1, <3>1, <3>2, <3>3
  <2>4. UNCHANGED <<counter, answers>>
    BY <1>1 DEF BeginLogin, BeginRegister, InsertCredential, CreateSession, DeleteCredential
  <2> QED
    BY <2>2, <2>3, <2>4, CountUnchanged
<1>2. ASSUME NEW r \in Requests,
             \/ \E u \in Users : BeginRegisterArrive(r, u)
             \/ \E t \in Requests : FinishRegisterArrive(r, t) \/ FinishLoginArrive(r, t)
             \/ Claim(r) \/ StatementFails(r)
      PROVE  CountInv'
  <2>1. UNCHANGED <<creds, counter, answers>>
    BY <1>2 DEF BeginRegisterArrive, FinishRegisterArrive, FinishLoginArrive, Claim, StatementFails
  <2>0. req \in [Requests -> Local]
    BY <1>0 DEF RequestTypeOK
  <2>2. \/ Finish(r)
        \/ Goto(r, "insert") \/ Goto(r, "session")
        \/ \E u \in Users : req' = [req EXCEPT ![r].pc = "begin", ![r].user = u]
        \/ \E t \in Requests :
              \/ req' = [req EXCEPT ![r].pc = "claim", ![r].user = attested[t], ![r].ref = t]
              \/ req' = [req EXCEPT ![r].pc = "take", ![r].ref = t]
    BY <1>2 DEF BeginRegisterArrive, FinishRegisterArrive, FinishLoginArrive, Claim, StatementFails
  <2>3. \A q \in Requests : q # r => req'[q] = req[q]
    BY <2>0, <2>2 DEF Finish, Goto
  <2>4. req'[r].pc \notin {"load", "owner", "update"}
    <3>1. CASE Finish(r)
      BY <2>0, <3>1 DEF Finish, Finished, Blank
    <3>2. CASE Goto(r, "insert") \/ Goto(r, "session")
      BY <2>0, <3>2 DEF Goto, Local
    <3>3. CASE \E u \in Users : req' = [req EXCEPT ![r].pc = "begin", ![r].user = u]
      BY <2>0, <3>3 DEF Local
    <3>4. CASE \E t \in Requests :
                 \/ req' = [req EXCEPT ![r].pc = "claim", ![r].user = attested[t], ![r].ref = t]
                 \/ req' = [req EXCEPT ![r].pc = "take", ![r].ref = t]
      BY <2>0, <3>4 DEF Local
    <3> QED
      BY <2>2, <3>1, <3>2, <3>3, <3>4
  <2>5. \A q \in Requests :
           /\ At(q, "load")' => At(q, "load") /\ req'[q] = req[q]
           /\ Counting(q)' => Counting(q) /\ req'[q] = req[q]
    BY <2>3, <2>4 DEF Counting, At
  <2> QED
    BY <2>1, <2>5, CountUnchanged
<1>3. ASSUME NEW r \in Requests, TakeLogin(r) PROVE CountInv'
  <2>1. UNCHANGED <<creds, counter, answers>>
    BY <1>3 DEF TakeLogin
  <2>2. CASE Finish(r)
    <3>1. \A q \in Requests : req'[q] = IF q = r THEN Finished ELSE req[q]
      BY <1>0, <2>2, OneMoves DEF Finish
    <3>2. \A q \in Requests :
             /\ At(q, "load")' => At(q, "load") /\ req'[q] = req[q]
             /\ Counting(q)' => Counting(q) /\ req'[q] = req[q]
      BY <3>1 DEF Counting, At, Finished, Blank
    <3> QED
      BY <2>1, <3>2, CountUnchanged
  <2>3. CASE req' = [req EXCEPT ![r].pc = "load", ![r].cred = answers[req[r].ref].cred]
    <3>1. /\ \A q \in Requests : q # r => req'[q] = req[q]
          /\ req'[r].pc = "load" /\ req'[r].ref = req[r].ref
          /\ req'[r].cred = answers[req[r].ref].cred
      BY <1>0, <2>3 DEF RequestTypeOK, Local
    <3>2. \A q \in Requests :
             /\ At(q, "load")' => req'[q].cred = answers'[req'[q].ref].cred
             /\ Counting(q)' => req'[q].count <= counter'[req'[q].cred]
      BY <2>1, <3>1 DEF CountInv, Counting, At
    <3>3. /\ StoredCountWasReported'
          /\ \A t \in Requests : answers'[t] # None => answers'[t].count <= counter'[answers'[t].cred]
      BY <2>1 DEF CountInv, StoredCountWasReported
    <3> QED
      BY <3>2, <3>3 DEF CountInv
  <2> QED
    BY <1>3, <2>2, <2>3 DEF TakeLogin
<1>4. ASSUME NEW r \in Requests, LoadUser(r) PROVE CountInv'
  <2>1. UNCHANGED <<creds, counter, answers>>
    BY <1>4 DEF LoadUser
  <2>2. CASE creds[req[r].cred] = None
    <3>1. \A q \in Requests : req'[q] = IF q = r THEN Finished ELSE req[q]
      BY <1>0, <1>4, <2>2, OneMoves DEF LoadUser, Finish
    <3>2. \A q \in Requests :
             /\ At(q, "load")' => At(q, "load") /\ req'[q] = req[q]
             /\ Counting(q)' => Counting(q) /\ req'[q] = req[q]
      BY <3>1 DEF Counting, At, Finished, Blank
    <3> QED
      BY <2>1, <3>2, CountUnchanged
  <2>3. CASE creds[req[r].cred] # None
    <3> DEFINE n == Verified(creds[req[r].cred].count, answers[req[r].ref].count)
    <3>1. /\ req[r].cred \in Credentials /\ req[r].ref \in Requests
          /\ answers[req[r].ref] # None /\ req[r].cred = answers[req[r].ref].cred
      BY <1>0, <1>4 DEF LoadUser, At, RequestTypeOK, LocalOK, CountInv
    <3>2. /\ creds[req[r].cred].count <= counter[req[r].cred]
          /\ answers[req[r].ref].count <= counter[req[r].cred]
      BY <2>3, <3>1 DEF CountInv, StoredCountWasReported
    <3>3. n <= counter[req[r].cred]
      BY <3>2 DEF Verified
    <3>4. /\ \A q \in Requests : q # r => req'[q] = req[q]
          /\ req'[r].pc = "owner" /\ req'[r].cred = req[r].cred /\ req'[r].count = n
      BY <1>0, <1>4, <2>3 DEF LoadUser, RequestTypeOK, Local
    <3> HIDE DEF n
    <3>5. \A q \in Requests :
             /\ At(q, "load")' => req'[q].cred = answers'[req'[q].ref].cred
             /\ Counting(q)' => req'[q].count <= counter'[req'[q].cred]
      BY <2>1, <3>3, <3>4 DEF CountInv, Counting, At
    <3>6. /\ StoredCountWasReported'
          /\ \A t \in Requests : answers'[t] # None => answers'[t].count <= counter'[answers'[t].cred]
      BY <2>1 DEF CountInv, StoredCountWasReported
    <3> QED
      BY <3>5, <3>6 DEF CountInv
  <2> QED
    BY <2>2, <2>3
<1>5. ASSUME NEW r \in Requests, LookUpOwner(r) PROVE CountInv'
  <2>1. UNCHANGED <<creds, counter, answers>>
    BY <1>5 DEF LookUpOwner
  <2>2. \A q \in Requests :
           /\ At(q, "load")' => At(q, "load") /\ req'[q] = req[q]
           /\ Counting(q)' => Counting(q) /\ req'[q].cred = req[q].cred
                                         /\ req'[q].count = req[q].count
    <3>1. CASE Goto(r, "update")
      BY <1>0, <1>5, <3>1 DEF LookUpOwner, Goto, RequestTypeOK, Local, Counting, At
    <3>2. CASE Finish(r)
      BY <1>0, <3>2, OneMoves DEF Finish, Counting, At, Finished, Blank
    <3> QED
      BY <1>5, <3>1, <3>2 DEF LookUpOwner
  <2> QED
    BY <2>1, <2>2, CountUnchanged
<1>6. ASSUME NEW r \in Requests, UpdateSignCount(r) PROVE CountInv'
  <2>1. /\ UNCHANGED <<counter, answers>> /\ req[r].cred \in Credentials
        /\ req[r].count <= counter[req[r].cred]
    BY <1>0, <1>6 DEF UpdateSignCount, At, RequestTypeOK, LocalOK, CountInv, Counting
  <2>2. \A q \in Requests :
           /\ At(q, "load")' => At(q, "load") /\ req'[q] = req[q]
           /\ Counting(q)' => Counting(q) /\ req'[q] = req[q]
    BY <1>0, <1>6 DEF UpdateSignCount, Goto, RequestTypeOK, Local, Counting, At
  <2>3. ASSUME NEW c \in Credentials, creds'[c] # None
        PROVE  creds'[c].count <= counter'[c]
    <3>1. CASE creds'[c] = creds[c]
      BY <2>1, <2>3, <3>1 DEF CountInv, StoredCountWasReported
    <3>2. CASE c = req[r].cred /\ creds[c] # None
      <4>1. creds[c] \in Row /\ creds'[c] = [creds[c] EXCEPT !.count = req[r].count]
        BY <1>0, <1>6, <3>2 DEF UpdateSignCount, StoreTypeOK
      <4>2. creds'[c].count = req[r].count
        BY <4>1 DEF Row
      <4> QED
        BY <2>1, <3>2, <4>2
    <3> QED
      BY <1>0, <1>6, <3>1, <3>2 DEF UpdateSignCount, StoreTypeOK
  <2>4. \A q \in Requests :
           /\ At(q, "load")' => req'[q].cred = answers'[req'[q].ref].cred
           /\ Counting(q)' => req'[q].count <= counter'[req'[q].cred]
    BY <2>1, <2>2 DEF CountInv
  <2>5. \A t \in Requests : answers'[t] # None => answers'[t].count <= counter'[answers'[t].cred]
    BY <2>1 DEF CountInv
  <2> QED
    BY <2>3, <2>4, <2>5 DEF CountInv, StoredCountWasReported
<1>7. ASSUME NEW t \in Requests, NEW c \in Credentials, Sign(t, c) PROVE CountInv'
  <2>1. PICK n \in {0, counter[c] + 1} :
           /\ n = 0 => counter[c] = 0
           /\ counter' = [counter EXCEPT ![c] = n]
           /\ answers' = [answers EXCEPT ![t] = [cred |-> c, count |-> n]]
    BY <1>7 DEF Sign
  <2>2. /\ counter \in [Credentials -> Nat] /\ UNCHANGED <<creds, req>> /\ answers[t] = None
        /\ creds \in [Credentials -> Row \cup {None}]
        /\ answers \in [Requests -> Answer \cup {None}]
    BY <1>0, <1>7 DEF Sign, StoreTypeOK
  <2>3. counter'[c] = n /\ \A d \in Credentials : counter[d] <= counter'[d] /\ counter'[d] \in Nat
    BY <2>1, <2>2
  <2>4. ASSUME NEW d \in Credentials, NEW k \in Nat, k <= counter[d] PROVE k <= counter'[d]
    BY <2>2, <2>3, <2>4
  <2>5. StoredCountWasReported'
    BY <2>2, <2>4 DEF CountInv, StoredCountWasReported, Row
  <2>6. ASSUME NEW x \in Requests, answers'[x] # None
        PROVE  answers'[x].count <= counter'[answers'[x].cred]
    <3>1. CASE x = t
      <4>1. answers'[x] = [cred |-> c, count |-> n]
        BY <2>1, <2>2, <3>1
      <4> QED
        BY <2>3, <4>1
    <3>2. CASE x # t
      <4>1. answers'[x] = answers[x] /\ answers[x] \in Answer
        BY <2>1, <2>2, <2>6, <3>2
      <4>2. answers[x].cred \in Credentials /\ answers[x].count \in Nat
        BY <4>1 DEF Answer
      <4> QED
        BY <2>4, <2>6, <4>1, <4>2 DEF CountInv
    <3> QED
      BY <3>1, <3>2
  <2>7. ASSUME NEW q \in Requests, At(q, "load")
        PROVE  req'[q].cred = answers'[req'[q].ref].cred
    <3>1. req[q].ref \in Requests /\ answers[req[q].ref] # None
      BY <1>0, <2>7 DEF RequestTypeOK, LocalOK, At
    <3>2. answers'[req[q].ref] = answers[req[q].ref]
      BY <2>1, <2>2, <3>1
    <3> QED
      BY <2>2, <2>7, <3>2 DEF CountInv
  <2>8. ASSUME NEW q \in Requests, Counting(q)
        PROVE  req'[q].count <= counter'[req'[q].cred]
    <3>1. req[q].cred \in Credentials /\ req[q].count \in Nat
      BY <1>0, <2>8, NoneIsNoRecord DEF RequestTypeOK, LocalOK, Local, At, Counting
    <3> QED
      BY <2>2, <2>4, <2>8, <3>1 DEF CountInv
  <2>9. \A q \in Requests : (At(q, "load")' <=> At(q, "load")) /\ (Counting(q)' <=> Counting(q))
    BY <2>2 DEF At, Counting
  <2> QED
    BY <2>5, <2>6, <2>7, <2>8, <2>9 DEF CountInv
<1>8. CASE Restart
  <2>1. \A q \in Requests : req'[q] = req[q] \/ req'[q] = Finished
    BY <1>8 DEF Restart
  <2>2. \A q \in Requests :
           /\ At(q, "load")' => At(q, "load") /\ req'[q] = req[q]
           /\ Counting(q)' => Counting(q) /\ req'[q] = req[q]
    BY <2>1 DEF Counting, At, Finished, Blank
  <2> QED
    BY <1>8, <2>2, CountUnchanged DEF Restart
<1>9. CASE SweepPending \/ Tick \/ UNCHANGED vars
  <2>1. UNCHANGED <<creds, counter, answers, req>>
    BY <1>9 DEF SweepPending, Tick, vars
  <2> QED
    BY <2>1, CountUnchanged DEF Counting, At
<1> QED
  BY <1>1, <1>2, <1>3, <1>4, <1>5, <1>6, <1>7, <1>8, <1>9 DEF Next, Arrive, Step

(* FinishLogin stores no sign count that the authenticator of the          *)
(* credential has not reported, whatever overlaps or fails.                *)
THEOREM StoredCountsWereReported == Spec => []StoredCountWasReported
<1>1. Init => CountInv
  BY PasskeyInitTypeOK DEF Init, CountInv, StoredCountWasReported, Counting, At, Blank
<1>2. CountInv => StoredCountWasReported
  BY DEF CountInv
<1> QED
  BY <1>1, <1>2, CountStep, PasskeyTypeCorrect, PTL DEF Spec
=============================================================================
