----------------------------- MODULE AuthProofs -----------------------------
(***************************************************************************)
(* Theorems about Auth, for every set of requests, users, codes and every  *)
(* time zone.                                                              *)
(***************************************************************************)
EXTENDS Auth, TLAPS

(* Every statement of every handler keeps the tables well formed, and each *)
(* step of a handler finds the locals it needs.                            *)
LEMMA InitTypeOK == Init => TypeOK
<1> SUFFICES ASSUME Init PROVE TypeOK
  OBVIOUS
<1>1. DatabaseTypeOK /\ HistoryTypeOK
  BY DEF Init, DatabaseTypeOK, HistoryTypeOK
<1>2. RequestTypeOK
  <2>1. Blank \in Local
    BY DEF Blank, Local, PCs
  <2>2. QED
    BY <2>1 DEF Init, RequestTypeOK, LocalOK, Blank
<1> QED
  BY <1>1, <1>2, ParametersAssumption DEF Init, TypeOK, Times

(* A request that moves on keeps RequestTypeOK as long as its new locals   *)
(* are well formed and no reset row disappears.                            *)
LEMMA RequestStep ==
  ASSUME RequestTypeOK, NEW r \in Requests, NEW l \in Local,
         req' = [req EXCEPT ![r] = l], LocalOK(l, resets'),
         \A t \in Requests : resets[t] # None => resets'[t] # None
  PROVE  RequestTypeOK'
<1>1. req' \in [Requests -> Local]
  BY DEF RequestTypeOK
<1>2. ASSUME NEW q \in Requests PROVE LocalOK(req'[q], resets')
  <2>1. CASE q = r
    BY <2>1 DEF RequestTypeOK
  <2>2. CASE q # r
    <3>1. req'[q] = req[q] /\ LocalOK(req[q], resets)
      BY <2>2 DEF RequestTypeOK
    <3>2. QED
      BY <3>1 DEF LocalOK
  <2>3. QED
    BY <2>1, <2>2
<1>3. QED
  BY <1>1, <1>2 DEF RequestTypeOK

(* A step that leaves the request alone, in a database that keeps its rows.*)
LEMMA RequestUnchanged ==
  ASSUME RequestTypeOK, UNCHANGED <<req, resets>>
  PROVE  RequestTypeOK'
BY DEF RequestTypeOK, LocalOK

(* Giving up or answering is always a well-formed step.                    *)
LEMMA FinishStep ==
  ASSUME RequestTypeOK, NEW r \in Requests, Finish(r),
         \A t \in Requests : resets[t] # None => resets'[t] # None
  PROVE  RequestTypeOK'
<1>1. Finished \in Local
  BY DEF Finished, Blank, Local, PCs
<1>2. LocalOK(Finished, resets')
  BY DEF LocalOK, Finished, Blank
<1> QED
  BY <1>1, <1>2, RequestStep DEF Finish

LEMMA GotoStep ==
  ASSUME RequestTypeOK, NEW r \in Requests, NEW pc \in PCs, Goto(r, pc),
         LocalOK([req[r] EXCEPT !.pc = pc], resets'),
         \A t \in Requests : resets[t] # None => resets'[t] # None
  PROVE  RequestTypeOK'
<1>1. [req[r] EXCEPT !.pc = pc] \in Local
  BY DEF RequestTypeOK, Local
<1>2. PICK l \in Local : l = [req[r] EXCEPT !.pc = pc]
  BY <1>1
<1>3. req' = [req EXCEPT ![r] = l] /\ LocalOK(l, resets')
  BY <1>2 DEF Goto, RequestTypeOK
<1> QED
  BY <1>3, RequestStep

LEMMA LoginArriveTypeOK ==
  ASSUME TypeOK, NEW r \in Requests, NEW name \in Names, NEW ip \in IPs, LoginArrive(r, name, ip)
  PROVE  TypeOK'
<1> USE DEF LoginArrive, Env, db, history, At
<1>0. RequestTypeOK /\ req[r] \in Local /\ LocalOK(req[r], resets)
  BY DEF TypeOK, RequestTypeOK
<1>1. DatabaseTypeOK'
  BY DEF TypeOK, DatabaseTypeOK
<1>2. RequestTypeOK'
  <2> DEFINE moved == [req[r] EXCEPT !.pc = "lookup", !.name = name, !.ip = ip]
  <2>1. moved \in Local
    BY <1>0 DEF Local, PCs, TypeOK, RequestTypeOK, DatabaseTypeOK, HistoryTypeOK, ResetRow, SessionRow, Accepted, LinkValid
  <2>2. LocalOK(moved, resets')
    BY <1>0 DEF LocalOK, Local, TypeOK, DatabaseTypeOK, ResetRow, SessionRow, Accepted, LinkValid
  <2>3. PICK l \in Local : l = moved
    BY <2>1
  <2>4. CASE req' = [req EXCEPT ![r] = moved]
    BY <1>0, <2>2, <2>3, <2>4, RequestStep
  <2>5. CASE Finish(r)
    BY <1>0, <2>5, FinishStep
  <2> QED
    BY <2>4, <2>5 DEF TypeOK, RequestTypeOK
<1>3. HistoryTypeOK'
  BY DEF TypeOK, HistoryTypeOK
<1> QED
  BY <1>1, <1>2, <1>3 DEF TypeOK

LEMMA LoginLookupTypeOK ==
  ASSUME TypeOK, NEW r \in Requests, NEW pw \in Passwords, LoginLookup(r, pw)
  PROVE  TypeOK'
<1> USE DEF LoginLookup, Env, db, history, At
<1>0. RequestTypeOK /\ req[r] \in Local /\ LocalOK(req[r], resets)
  BY DEF TypeOK, RequestTypeOK
<1>1. DatabaseTypeOK'
  BY DEF TypeOK, DatabaseTypeOK
<1>2. RequestTypeOK'
  <2> DEFINE u == AccountOf[req[r].name]
             moved == [req[r] EXCEPT !.pc = "code", !.user = u, !.epoch = epoch[u]]
  <2>1. CASE u # None /\ pw = password[u]
    <3>1. u \in Users
      BY <1>0, <2>1, ParametersAssumption DEF LocalOK
    <3>2. moved \in Local
      BY <1>0, <3>1 DEF Local, PCs, TypeOK, HistoryTypeOK
    <3>3. LocalOK(moved, resets')
      BY <1>0, <3>1 DEF LocalOK, Local
    <3>4. PICK l \in Local : l = moved
      BY <3>2
    <3>5. req' = [req EXCEPT ![r] = moved]
      BY <2>1 DEF TypeOK, RequestTypeOK
    <3> QED
      BY <1>0, <3>3, <3>4, <3>5, RequestStep
  <2>2. CASE ~(u # None /\ pw = password[u])
    <3>1. Goto(r, "fail")
      BY <2>2
    <3>2. "fail" \in PCs /\ LocalOK([req[r] EXCEPT !.pc = "fail"], resets')
      BY <1>0 DEF PCs, LocalOK, Local
    <3> QED
      BY <1>0, <3>1, <3>2, GotoStep
  <2> QED
    BY <2>1, <2>2
<1>3. HistoryTypeOK'
  BY DEF TypeOK, HistoryTypeOK
<1> QED
  BY <1>1, <1>2, <1>3 DEF TypeOK

LEMMA LoginTOTPTypeOK ==
  ASSUME TypeOK, NEW r \in Requests, LoginTOTP(r)
  PROVE  TypeOK'
<1> USE DEF LoginTOTP, Env, db, history, At
<1>0. RequestTypeOK /\ req[r] \in Local /\ LocalOK(req[r], resets)
  BY DEF TypeOK, RequestTypeOK
<1>1. DatabaseTypeOK'
  BY DEF TypeOK, DatabaseTypeOK
<1>2. RequestTypeOK'
  <2>1. PICK pc \in {"clear", "fail"} : Goto(r, pc)
    OBVIOUS
  <2>2. pc \in PCs /\ LocalOK([req[r] EXCEPT !.pc = pc], resets')
    BY <1>0 DEF PCs, LocalOK, Local
  <2> QED
    BY <1>0, <2>1, <2>2, GotoStep
<1>3. HistoryTypeOK'
  BY DEF TypeOK, HistoryTypeOK
<1> QED
  BY <1>1, <1>2, <1>3 DEF TypeOK

LEMMA LoginRecoveryCodeTypeOK ==
  ASSUME TypeOK, NEW r \in Requests, NEW c \in Codes, LoginRecoveryCode(r, c)
  PROVE  TypeOK'
<1> USE DEF LoginRecoveryCode, Env, db, history, At
<1>0. RequestTypeOK /\ req[r] \in Local /\ LocalOK(req[r], resets)
  BY DEF TypeOK, RequestTypeOK
<1>1. DatabaseTypeOK'
  BY <1>0 DEF TypeOK, DatabaseTypeOK, LocalOK
<1>2. RequestTypeOK'
  <2> DEFINE moved == [req[r] EXCEPT !.pc = "clear", !.code = c]
  <2>1. CASE c \in unused[req[r].user]
    <3>1. moved \in Local
      BY <1>0 DEF Local, PCs
    <3>2. LocalOK(moved, resets')
      BY <1>0 DEF LocalOK, Local
    <3>3. PICK l \in Local : l = moved
      BY <3>1
    <3>4. req' = [req EXCEPT ![r] = moved]
      BY <2>1 DEF TypeOK, RequestTypeOK
    <3> QED
      BY <1>0, <3>2, <3>3, <3>4, RequestStep
  <2>2. CASE c \notin unused[req[r].user]
    <3>1. Goto(r, "fail")
      BY <2>2
    <3>2. "fail" \in PCs /\ LocalOK([req[r] EXCEPT !.pc = "fail"], resets')
      BY <1>0 DEF PCs, LocalOK, Local
    <3> QED
      BY <1>0, <3>1, <3>2, GotoStep
  <2> QED
    BY <2>1, <2>2
<1>3. HistoryTypeOK'
  BY <1>0 DEF TypeOK, HistoryTypeOK, LocalOK
<1> QED
  BY <1>1, <1>2, <1>3 DEF TypeOK

LEMMA LoginFailTypeOK ==
  ASSUME TypeOK, NEW r \in Requests, LoginFail(r)
  PROVE  TypeOK'
<1> USE DEF LoginFail, Env, db, history, At
<1>0. RequestTypeOK /\ req[r] \in Local /\ LocalOK(req[r], resets)
  BY DEF TypeOK, RequestTypeOK
<1>1. DatabaseTypeOK'
  BY <1>0 DEF TypeOK, DatabaseTypeOK, LocalOK, Keys
<1>2. RequestTypeOK'
  BY <1>0, FinishStep
<1>3. HistoryTypeOK'
  BY DEF TypeOK, HistoryTypeOK
<1> QED
  BY <1>1, <1>2, <1>3 DEF TypeOK

LEMMA LoginClearTypeOK ==
  ASSUME TypeOK, NEW r \in Requests, LoginClear(r)
  PROVE  TypeOK'
<1> USE DEF LoginClear, Env, db, history, At
<1>0. RequestTypeOK /\ req[r] \in Local /\ LocalOK(req[r], resets)
  BY DEF TypeOK, RequestTypeOK
<1>1. DatabaseTypeOK'
  BY <1>0 DEF TypeOK, DatabaseTypeOK, LocalOK, Keys
<1>2. RequestTypeOK'
  <2>1. "session" \in PCs /\ LocalOK([req[r] EXCEPT !.pc = "session"], resets')
    BY <1>0 DEF PCs, LocalOK, Local
  <2> QED
    BY <1>0, <2>1, GotoStep
<1>3. HistoryTypeOK'
  BY DEF TypeOK, HistoryTypeOK
<1> QED
  BY <1>1, <1>2, <1>3 DEF TypeOK

LEMMA LoginSessionTypeOK ==
  ASSUME TypeOK, NEW r \in Requests, LoginSession(r)
  PROVE  TypeOK'
<1> USE DEF LoginSession, Env, db, history, At
<1>0. RequestTypeOK /\ req[r] \in Local /\ LocalOK(req[r], resets)
  BY DEF TypeOK, RequestTypeOK
<1>1. DatabaseTypeOK'
  <2>1. [user |-> req[r].user, created |-> now,
         expires |-> Stored(now + SessionDuration), seen |-> req[r].epoch] \in SessionRow
    BY <1>0, ParametersAssumption DEF LocalOK, Local, SessionRow, Stored, TypeOK, Times
  <2> QED
    BY <2>1 DEF TypeOK, DatabaseTypeOK
<1>2. RequestTypeOK'
  BY <1>0, FinishStep
<1>3. HistoryTypeOK'
  BY DEF TypeOK, HistoryTypeOK
<1> QED
  BY <1>1, <1>2, <1>3 DEF TypeOK

LEMMA LogoutArriveTypeOK ==
  ASSUME TypeOK, NEW r \in Requests, NEW s \in Requests, LogoutArrive(r, s)
  PROVE  TypeOK'
<1> USE DEF LogoutArrive, Env, db, history, At
<1>0. RequestTypeOK /\ req[r] \in Local /\ LocalOK(req[r], resets)
  BY DEF TypeOK, RequestTypeOK
<1>1. DatabaseTypeOK'
  BY DEF TypeOK, DatabaseTypeOK
<1>2. RequestTypeOK'
  <2> DEFINE moved == [req[r] EXCEPT !.pc = "logout", !.ref = s]
  <2>1. moved \in Local
    BY <1>0 DEF Local, PCs, TypeOK, RequestTypeOK, DatabaseTypeOK, HistoryTypeOK, ResetRow, SessionRow, Accepted, LinkValid
  <2>2. LocalOK(moved, resets')
    BY <1>0 DEF LocalOK, Local, TypeOK, DatabaseTypeOK, ResetRow, SessionRow, Accepted, LinkValid
  <2>3. PICK l \in Local : l = moved
    BY <2>1
  <2>4. CASE req' = [req EXCEPT ![r] = moved]
    BY <1>0, <2>2, <2>3, <2>4, RequestStep
  <2>5. CASE Finish(r)
    BY <1>0, <2>5, FinishStep
  <2> QED
    BY <2>4, <2>5 DEF TypeOK, RequestTypeOK
<1>3. HistoryTypeOK'
  BY DEF TypeOK, HistoryTypeOK
<1> QED
  BY <1>1, <1>2, <1>3 DEF TypeOK

LEMMA LogoutDeleteTypeOK ==
  ASSUME TypeOK, NEW r \in Requests, LogoutDelete(r)
  PROVE  TypeOK'
<1> USE DEF LogoutDelete, Env, db, history, At
<1>0. RequestTypeOK /\ req[r] \in Local /\ LocalOK(req[r], resets)
  BY DEF TypeOK, RequestTypeOK
<1>1. DatabaseTypeOK'
  BY <1>0 DEF TypeOK, DatabaseTypeOK, LocalOK
<1>2. RequestTypeOK'
  BY <1>0, FinishStep
<1>3. HistoryTypeOK'
  BY DEF TypeOK, HistoryTypeOK
<1> QED
  BY <1>1, <1>2, <1>3 DEF TypeOK

LEMMA ForgotArriveTypeOK ==
  ASSUME TypeOK, NEW r \in Requests, NEW name \in Names, ForgotArrive(r, name)
  PROVE  TypeOK'
<1> USE DEF ForgotArrive, Env, db, history, At
<1>0. RequestTypeOK /\ req[r] \in Local /\ LocalOK(req[r], resets)
  BY DEF TypeOK, RequestTypeOK
<1>1. DatabaseTypeOK'
  BY DEF TypeOK, DatabaseTypeOK
<1>2. RequestTypeOK'
  <2> DEFINE moved == [req[r] EXCEPT !.pc = "insert", !.user = AccountOf[name]]
  <2>0. AccountOf[name] \in Users
    BY ParametersAssumption
  <2>1. moved \in Local
    BY <1>0, <2>0 DEF Local, PCs
  <2>2. LocalOK(moved, resets')
    BY <1>0, <2>0 DEF LocalOK, Local
  <2>3. PICK l \in Local : l = moved
    BY <2>1
  <2>4. req' = [req EXCEPT ![r] = moved]
    BY DEF TypeOK, RequestTypeOK
  <2> QED
    BY <1>0, <2>2, <2>3, <2>4, RequestStep
<1>3. HistoryTypeOK'
  BY DEF TypeOK, HistoryTypeOK
<1> QED
  BY <1>1, <1>2, <1>3 DEF TypeOK

LEMMA ForgotInsertTypeOK ==
  ASSUME TypeOK, NEW r \in Requests, ForgotInsert(r)
  PROVE  TypeOK'
<1> USE DEF ForgotInsert, Env, db, history, At
<1>0. RequestTypeOK /\ req[r] \in Local /\ LocalOK(req[r], resets)
  BY DEF TypeOK, RequestTypeOK
<1>1. DatabaseTypeOK'
  <2>1. [user |-> req[r].user, created |-> now,
         expires |-> Stored(now + ResetTokenTTL), used |-> FALSE] \in ResetRow
    BY <1>0, ParametersAssumption DEF LocalOK, Local, ResetRow, Stored, TypeOK, Times
  <2> QED
    BY <2>1 DEF TypeOK, DatabaseTypeOK
<1>2. RequestTypeOK'
  <2>1. "mail" \in PCs /\ LocalOK([req[r] EXCEPT !.pc = "mail"], resets')
    BY <1>0 DEF PCs, LocalOK, Local
  <2>2. resets'[r] # None
    <3>1. [user |-> req[r].user, created |-> now,
           expires |-> Stored(now + ResetTokenTTL), used |-> FALSE] \in ResetRow
      BY <1>0, ParametersAssumption DEF LocalOK, Local, ResetRow, Stored, TypeOK, Times
    <3> QED
      BY <3>1, NoneIsNoRow DEF TypeOK, DatabaseTypeOK
  <2>3. \A t \in Requests : resets[t] # None => resets'[t] # None
    BY <2>2 DEF TypeOK, DatabaseTypeOK
  <2> QED
    BY <1>0, <2>1, <2>3, GotoStep
<1>3. HistoryTypeOK'
  BY DEF TypeOK, HistoryTypeOK
<1> QED
  BY <1>1, <1>2, <1>3 DEF TypeOK

LEMMA ForgotMailTypeOK ==
  ASSUME TypeOK, NEW r \in Requests, ForgotMail(r)
  PROVE  TypeOK'
<1> USE DEF ForgotMail, Env, db, history, At
<1>0. RequestTypeOK /\ req[r] \in Local /\ LocalOK(req[r], resets)
  BY DEF TypeOK, RequestTypeOK
<1>1. DatabaseTypeOK'
  BY DEF TypeOK, DatabaseTypeOK
<1>2. RequestTypeOK'
  BY <1>0, FinishStep
<1>3. HistoryTypeOK'
  BY DEF TypeOK, HistoryTypeOK
<1> QED
  BY <1>1, <1>2, <1>3 DEF TypeOK

LEMMA ResetArriveTypeOK ==
  ASSUME TypeOK, NEW r \in Requests, NEW t \in Requests, NEW new \in Passwords, ResetArrive(r, t, new)
  PROVE  TypeOK'
<1> USE DEF ResetArrive, Env, db, history, At
<1>0. RequestTypeOK /\ req[r] \in Local /\ LocalOK(req[r], resets)
  BY DEF TypeOK, RequestTypeOK
<1>1. DatabaseTypeOK'
  BY DEF TypeOK, DatabaseTypeOK
<1>2. RequestTypeOK'
  <2>1. CASE LinkValid(t)
    <3> DEFINE moved == [req[r] EXCEPT !.pc = "update", !.ref = t,
                                       !.user = resets[t].user, !.new = new]
    <3>0. resets[t] # None /\ resets[t].user \in Users
      BY <2>1 DEF LinkValid, TypeOK, DatabaseTypeOK, ResetRow
    <3>1. moved \in Local
      BY <1>0, <3>0 DEF Local, PCs
    <3>2. LocalOK(moved, resets')
      BY <1>0, <3>0 DEF LocalOK, Local
    <3>3. PICK l \in Local : l = moved
      BY <3>1
    <3>4. req' = [req EXCEPT ![r] = moved]
      BY <2>1 DEF TypeOK, RequestTypeOK
    <3> QED
      BY <1>0, <3>2, <3>3, <3>4, RequestStep
  <2>2. CASE ~LinkValid(t)
    BY <1>0, <2>2, FinishStep
  <2> QED
    BY <2>1, <2>2
<1>3. HistoryTypeOK'
  BY DEF TypeOK, HistoryTypeOK
<1> QED
  BY <1>1, <1>2, <1>3 DEF TypeOK

LEMMA ResetUpdateTypeOK ==
  ASSUME TypeOK, NEW r \in Requests, ResetUpdate(r)
  PROVE  TypeOK'
<1> USE DEF ResetUpdate, Env, db, history, At
<1>0. RequestTypeOK /\ req[r] \in Local /\ LocalOK(req[r], resets)
  BY DEF TypeOK, RequestTypeOK
<1>1. DatabaseTypeOK'
  BY <1>0 DEF TypeOK, DatabaseTypeOK, LocalOK
<1>2. RequestTypeOK'
  <2>0. PICK e \in Nat : e = epoch[req[r].user] + 1
    BY <1>0 DEF LocalOK, TypeOK, HistoryTypeOK
  <2> DEFINE moved == [req[r] EXCEPT !.pc = "mark", !.epoch = e]
  <2>1. moved \in Local
    BY <1>0 DEF Local, PCs
  <2>2. LocalOK(moved, resets')
    BY <1>0 DEF LocalOK, Local
  <2>3. PICK l \in Local : l = moved
    BY <2>1
  <2>4. req' = [req EXCEPT ![r] = moved]
    BY <2>0 DEF TypeOK, RequestTypeOK
  <2> QED
    BY <1>0, <2>2, <2>3, <2>4, RequestStep
<1>3. HistoryTypeOK'
  BY <1>0 DEF TypeOK, HistoryTypeOK, LocalOK
<1> QED
  BY <1>1, <1>2, <1>3 DEF TypeOK

LEMMA ResetMarkTypeOK ==
  ASSUME TypeOK, NEW r \in Requests, ResetMark(r)
  PROVE  TypeOK'
<1> USE DEF ResetMark, Env, db, history, At
<1>0. RequestTypeOK /\ req[r] \in Local /\ LocalOK(req[r], resets)
  BY DEF TypeOK, RequestTypeOK
<1>1. DatabaseTypeOK'
  <2>1. req[r].ref \in Requests /\ resets[req[r].ref] \in ResetRow
    BY <1>0 DEF LocalOK, TypeOK, DatabaseTypeOK
  <2>2. [resets[req[r].ref] EXCEPT !.used = TRUE] \in ResetRow
    BY <2>1 DEF ResetRow
  <2>3. resets' = [resets EXCEPT ![req[r].ref] = [resets[req[r].ref] EXCEPT !.used = TRUE]]
    BY <2>1 DEF TypeOK, DatabaseTypeOK
  <2> QED
    BY <2>1, <2>2, <2>3 DEF TypeOK, DatabaseTypeOK
<1>2. RequestTypeOK'
  <2>1. "sweep" \in PCs /\ LocalOK([req[r] EXCEPT !.pc = "sweep"], resets')
    BY <1>0 DEF PCs, LocalOK, Local
  <2>2. ASSUME NEW t \in Requests, resets[t] # None PROVE resets'[t] # None
    <3>1. CASE t = req[r].ref
      <4>1. resets[t] \in ResetRow
        BY <2>2 DEF TypeOK, DatabaseTypeOK
      <4>2. PICK row \in ResetRow : row = [resets[t] EXCEPT !.used = TRUE]
        BY <4>1 DEF ResetRow
      <4>3. resets'[t] \in ResetRow
        BY <3>1, <4>2 DEF TypeOK, DatabaseTypeOK
      <4> QED
        BY <4>3, NoneIsNoRow
    <3>2. CASE t # req[r].ref
      BY <2>2, <3>2 DEF TypeOK, DatabaseTypeOK
    <3> QED
      BY <3>1, <3>2
  <2> QED
    BY <1>0, <2>1, <2>2, GotoStep
<1>3. HistoryTypeOK'
  BY DEF TypeOK, HistoryTypeOK
<1> QED
  BY <1>1, <1>2, <1>3 DEF TypeOK

LEMMA ResetSweepTypeOK ==
  ASSUME TypeOK, NEW r \in Requests, ResetSweep(r)
  PROVE  TypeOK'
<1> USE DEF ResetSweep, Env, db, history, At
<1>0. RequestTypeOK /\ req[r] \in Local /\ LocalOK(req[r], resets)
  BY DEF TypeOK, RequestTypeOK
<1>1. DatabaseTypeOK'
  BY <1>0 DEF TypeOK, DatabaseTypeOK
<1>2. RequestTypeOK'
  BY <1>0, FinishStep
<1>3. HistoryTypeOK'
  BY <1>0 DEF TypeOK, HistoryTypeOK, LocalOK, Local
<1> QED
  BY <1>1, <1>2, <1>3 DEF TypeOK

LEMMA ChangeArriveTypeOK ==
  ASSUME TypeOK, NEW r \in Requests, NEW s \in Requests, NEW new \in Passwords, ChangeArrive(r, s, new)
  PROVE  TypeOK'
<1> USE DEF ChangeArrive, Env, db, history, At
<1>0. RequestTypeOK /\ req[r] \in Local /\ LocalOK(req[r], resets)
  BY DEF TypeOK, RequestTypeOK
<1>1. DatabaseTypeOK'
  BY DEF TypeOK, DatabaseTypeOK
<1>2. RequestTypeOK'
  <2>1. CASE Accepted(s)
    <3> DEFINE moved == [req[r] EXCEPT !.pc = "read", !.user = sessions[s].user, !.new = new]
    <3>0. sessions[s].user \in Users
      BY <2>1 DEF Accepted, TypeOK, DatabaseTypeOK, SessionRow
    <3>1. moved \in Local
      BY <1>0, <3>0 DEF Local, PCs
    <3>2. LocalOK(moved, resets')
      BY <1>0, <3>0 DEF LocalOK, Local
    <3>3. PICK l \in Local : l = moved
      BY <3>1
    <3>4. req' = [req EXCEPT ![r] = moved]
      BY <2>1 DEF TypeOK, RequestTypeOK
    <3> QED
      BY <1>0, <3>2, <3>3, <3>4, RequestStep
  <2>2. CASE ~Accepted(s)
    BY <1>0, <2>2, FinishStep
  <2> QED
    BY <2>1, <2>2
<1>3. HistoryTypeOK'
  BY DEF TypeOK, HistoryTypeOK
<1> QED
  BY <1>1, <1>2, <1>3 DEF TypeOK

LEMMA ChangeReadTypeOK ==
  ASSUME TypeOK, NEW r \in Requests, NEW pw \in Passwords, ChangeRead(r, pw)
  PROVE  TypeOK'
<1> USE DEF ChangeRead, Env, db, history, At
<1>0. RequestTypeOK /\ req[r] \in Local /\ LocalOK(req[r], resets)
  BY DEF TypeOK, RequestTypeOK
<1>1. DatabaseTypeOK'
  BY DEF TypeOK, DatabaseTypeOK
<1>2. RequestTypeOK'
  <2>1. CASE Goto(r, "write")
    <3>1. "write" \in PCs /\ LocalOK([req[r] EXCEPT !.pc = "write"], resets')
      BY <1>0 DEF PCs, LocalOK, Local
    <3> QED
      BY <1>0, <2>1, <3>1, GotoStep
  <2>2. CASE Finish(r)
    BY <1>0, <2>2, FinishStep
  <2> QED
    BY <2>1, <2>2
<1>3. HistoryTypeOK'
  BY DEF TypeOK, HistoryTypeOK
<1> QED
  BY <1>1, <1>2, <1>3 DEF TypeOK

LEMMA ChangeWriteTypeOK ==
  ASSUME TypeOK, NEW r \in Requests, ChangeWrite(r)
  PROVE  TypeOK'
<1> USE DEF ChangeWrite, Env, db, history, At
<1>0. RequestTypeOK /\ req[r] \in Local /\ LocalOK(req[r], resets)
  BY DEF TypeOK, RequestTypeOK
<1>1. DatabaseTypeOK'
  BY <1>0 DEF TypeOK, DatabaseTypeOK, LocalOK
<1>2. RequestTypeOK'
  BY <1>0, FinishStep
<1>3. HistoryTypeOK'
  BY <1>0 DEF TypeOK, HistoryTypeOK, LocalOK
<1> QED
  BY <1>1, <1>2, <1>3 DEF TypeOK

LEMMA CleanupTypeOK ==
  ASSUME TypeOK, Cleanup \/ PurgeFails
  PROVE  TypeOK'
<1> USE DEF db, history
<1>1. DatabaseTypeOK'
  <2>1. CASE PurgeOldAuthFailures
    <3>1. failures' \in [Keys -> [Times -> Nat]]
      BY <2>1 DEF TypeOK, DatabaseTypeOK, PurgeOldAuthFailures
    <3> QED
      BY <2>1, <3>1 DEF TypeOK, DatabaseTypeOK, PurgeOldAuthFailures
  <2>2. CASE PurgeExpiredSessions
    <3>1. sessions' \in [Requests -> SessionRow \cup {None}]
      BY <2>2 DEF TypeOK, DatabaseTypeOK, PurgeExpiredSessions
    <3> QED
      BY <2>2, <3>1 DEF TypeOK, DatabaseTypeOK, PurgeExpiredSessions
  <2>3. CASE PurgeFails
    BY <2>3 DEF TypeOK, DatabaseTypeOK, PurgeFails
  <2> QED
    BY <2>1, <2>2, <2>3 DEF Cleanup
<1>2. RequestTypeOK'
  <2>1. RequestTypeOK /\ UNCHANGED <<req, resets>>
    BY DEF Cleanup, PurgeOldAuthFailures, PurgeExpiredSessions, PurgeFails, TypeOK
  <2> QED
    BY <2>1, RequestUnchanged
<1>3. HistoryTypeOK'
  BY DEF TypeOK, HistoryTypeOK, Cleanup, PurgeOldAuthFailures, PurgeExpiredSessions,
         PurgeFails
<1>4. now' \in Times /\ faults' \in 0..MaxFaults /\ cleaner' \in {"idle", "sessions"}
      /\ mailed' \in SUBSET Requests
  BY ParametersAssumption DEF TypeOK, Cleanup, PurgeOldAuthFailures,
         PurgeExpiredSessions, PurgeFails
<1> QED
  BY <1>1, <1>2, <1>3, <1>4 DEF TypeOK

LEMMA TickTypeOK ==
  ASSUME TypeOK, Tick
  PROVE  TypeOK'
<1> USE DEF Tick, db, history
<1>1. DatabaseTypeOK' /\ HistoryTypeOK'
  BY DEF TypeOK, DatabaseTypeOK, HistoryTypeOK
<1>2. RequestTypeOK'
  BY RequestUnchanged DEF TypeOK
<1>3. now' \in Times
  BY ParametersAssumption DEF TypeOK, Times
<1> QED
  BY <1>1, <1>2, <1>3 DEF TypeOK

(* Where OnError sends a handler, the locals it needs are already set.     *)
LEMMA StatementFailsTypeOK ==
  ASSUME TypeOK, NEW r \in Requests, StatementFails(r)
  PROVE  TypeOK'
<1> USE DEF db, history
<1>0. RequestTypeOK /\ req[r] \in Local /\ LocalOK(req[r], resets)
  BY DEF TypeOK, RequestTypeOK
<1>1. DatabaseTypeOK' /\ HistoryTypeOK' /\ UNCHANGED <<now, cleaner, mailed, resets>>
  BY DEF TypeOK, DatabaseTypeOK, HistoryTypeOK, StatementFails
<1>2. RequestTypeOK'
  <2>1. CASE Finish(r)
    BY <1>0, <1>1, <2>1, FinishStep
  <2>2. CASE /\ req[r].pc \in DOMAIN OnError
             /\ OnError[req[r].pc] # "done"
             /\ Goto(r, OnError[req[r].pc])
    <3>1. \/ req[r].pc \in {"lookup", "code"} /\ OnError[req[r].pc] = "fail"
          \/ req[r].pc = "clear" /\ OnError[req[r].pc] = "session"
          \/ req[r].pc = "mark" /\ OnError[req[r].pc] = "sweep"
      <4> DEFINE at == req[r].pc
      <4>1. at \in PCs \ {"new", "mail", "done", "lost"}
        BY <2>2 DEF OnError
      <4>2. OnError[at] = CASE at \in {"lookup", "code"} -> "fail"
                            [] at = "clear" -> "session"
                            [] at = "mark" -> "sweep"
                            [] OTHER -> "done"
        BY <4>1 DEF OnError
      <4>3. CASE at \in {"lookup", "code"}
        BY <4>2, <4>3
      <4>4. CASE at = "clear"
        BY <4>2, <4>4
      <4>5. CASE at = "mark"
        BY <4>2, <4>5
      <4>6. CASE at \notin {"lookup", "code", "clear", "mark"}
        BY <2>2, <4>2, <4>6
      <4> QED
        BY <4>3, <4>4, <4>5, <4>6
    <3>2. PICK pc \in {"fail", "session", "sweep"} : pc = OnError[req[r].pc]
      BY <3>1
    <3>3. pc \in PCs /\ LocalOK([req[r] EXCEPT !.pc = pc], resets')
      BY <1>0, <1>1, <3>1, <3>2 DEF PCs, LocalOK, Local
    <3>4. Goto(r, pc)
      BY <2>2, <3>2
    <3> QED
      BY <1>0, <1>1, <3>3, <3>4, GotoStep
  <2> QED
    BY <2>1, <2>2 DEF StatementFails
<1>3. faults' \in 0..MaxFaults
  BY ParametersAssumption DEF TypeOK, StatementFails
<1> QED
  BY <1>1, <1>2, <1>3 DEF TypeOK

LEMMA CrashTypeOK ==
  ASSUME TypeOK, Crash
  PROVE  TypeOK'
<1> USE DEF Crash, db, history
<1>1. DatabaseTypeOK' /\ HistoryTypeOK'
  BY DEF TypeOK, DatabaseTypeOK, HistoryTypeOK
<1>2. RequestTypeOK'
  <2>1. Lost \in Local /\ LocalOK(Lost, resets)
    BY DEF Lost, Blank, Local, PCs, LocalOK
  <2> QED
    BY <2>1 DEF TypeOK, RequestTypeOK
<1>3. faults' \in 0..MaxFaults
  BY ParametersAssumption DEF TypeOK
<1> QED
  BY <1>1, <1>2, <1>3 DEF TypeOK

LEMMA NextTypeOK == TypeOK /\ [Next]_vars => TypeOK'
<1> SUFFICES ASSUME TypeOK, [Next]_vars PROVE TypeOK'
  OBVIOUS
<1>1. ASSUME NEW r \in Requests, Arrive(r) PROVE TypeOK'
  BY <1>1, LoginArriveTypeOK, LogoutArriveTypeOK, ForgotArriveTypeOK, ResetArriveTypeOK,
     ChangeArriveTypeOK DEF Arrive
<1>2. ASSUME NEW r \in Requests, Step(r) PROVE TypeOK'
  BY <1>2, LoginLookupTypeOK, LoginTOTPTypeOK, LoginRecoveryCodeTypeOK, LoginFailTypeOK,
     LoginClearTypeOK, LoginSessionTypeOK, LogoutDeleteTypeOK, ForgotInsertTypeOK,
     ForgotMailTypeOK, ResetUpdateTypeOK, ResetMarkTypeOK, ResetSweepTypeOK,
     ChangeReadTypeOK, ChangeWriteTypeOK DEF Step
<1>3. CASE UNCHANGED vars
  <2>1. DatabaseTypeOK' /\ HistoryTypeOK'
    BY <1>3 DEF TypeOK, DatabaseTypeOK, HistoryTypeOK, vars, db, history
  <2>2. RequestTypeOK'
    BY <1>3, RequestUnchanged DEF TypeOK, vars, db
  <2> QED
    BY <1>3, <2>1, <2>2 DEF TypeOK, vars
<1> QED
  BY <1>1, <1>2, <1>3, StatementFailsTypeOK, CleanupTypeOK, CrashTypeOK, TickTypeOK
  DEF Next

(* TypeOK, the first invariant of the AuthRace run, for every instance.    *)
THEOREM AuthTypeCorrect == Spec => []TypeOK
BY InitTypeOK, NextTypeOK, PTL DEF Spec

-----------------------------------------------------------------------------
(* The invariant behind ReplacedPasswordIsDead: a login past its password  *)
(* check either read the hash after the latest clean reset's UPDATE or was *)
(* noted when that reset swept, and no request is ahead of the epoch.      *)
InFlightOK(r, l) ==
    /\ l.pc \in {"code", "clear", "session"} =>
         (l.epoch < cleaned[l.user] => r \in late)
    /\ l.pc \in {"mark", "sweep"} => l.epoch <= epoch[l.user]

DeadInv ==
    /\ \A r \in Requests : InFlightOK(r, req[r])
    /\ \A u \in Users : cleaned[u] <= epoch[u]
    /\ ReplacedPasswordIsDead

(* A step that neither sweeps nor inserts a session, and moves one request *)
(* to locals that satisfy InFlightOK.                                      *)
LEMMA DeadFrame ==
  ASSUME TypeOK, TypeOK', DeadInv, NEW r \in Requests,
         \A q \in Requests : q # r => req'[q] = req[q],
         InFlightOK(r, req[r])', UNCHANGED <<cleaned, late>>,
         \A u \in Users : epoch[u] <= epoch'[u],
         \A s \in Requests : sessions'[s] \in {sessions[s], None}
  PROVE  DeadInv'
<1>1. ASSUME NEW q \in Requests PROVE InFlightOK(q, req[q])'
  <2>1. CASE q = r
    BY <2>1
  <2>2. CASE q # r
    <3>1. req'[q] = req[q] /\ InFlightOK(q, req[q])
      BY <2>2 DEF DeadInv
    <3>2. req[q].pc \in {"mark", "sweep"} => /\ req[q].epoch \in Nat
                                            /\ epoch[req[q].user] \in Nat
                                            /\ epoch'[req[q].user] \in Nat
                                            /\ epoch[req[q].user] <= epoch'[req[q].user]
      BY DEF TypeOK, RequestTypeOK, HistoryTypeOK, LocalOK, Local
    <3> QED
      BY <3>1, <3>2 DEF InFlightOK
  <2> QED
    BY <2>1, <2>2
<1>2. \A u \in Users : cleaned'[u] <= epoch'[u]
  BY DEF DeadInv, TypeOK, HistoryTypeOK
<1>3. ReplacedPasswordIsDead'
  BY DEF DeadInv, ReplacedPasswordIsDead
<1> QED
  BY <1>1, <1>2, <1>3 DEF DeadInv

LEMMA ArriveDead ==
  ASSUME TypeOK, TypeOK', DeadInv, NEW r \in Requests, Arrive(r)
  PROVE  DeadInv'
<1> DEFINE Quiet == /\ \A q \in Requests : q # r => req'[q] = req[q]
                    /\ req'[r].pc \notin {"code", "clear", "session", "mark", "sweep"}
                    /\ UNCHANGED <<cleaned, late, epoch, sessions>>
<1>0. req \in [Requests -> Local] /\ req[r] \in Local
  BY DEF TypeOK, RequestTypeOK
<1>1. Quiet
  <2>1. ASSUME NEW name \in Names, NEW ip \in IPs, LoginArrive(r, name, ip) PROVE Quiet
    BY <2>1, <1>0 DEF LoginArrive, Local, Finish, Goto, Finished, Blank, At, Env, db, history
  <2>2. ASSUME NEW s \in Requests, LogoutArrive(r, s) PROVE Quiet
    BY <2>2, <1>0 DEF LogoutArrive, Local, Finish, Goto, Finished, Blank, At, Env, db, history
  <2>3. ASSUME NEW name \in Names, ForgotArrive(r, name) PROVE Quiet
    BY <2>3, <1>0 DEF ForgotArrive, Local, Finish, Goto, Finished, Blank, At, Env, db, history
  <2>4. ASSUME NEW t \in Requests, NEW pw \in Passwords, ResetArrive(r, t, pw) PROVE Quiet
    BY <2>4, <1>0 DEF ResetArrive, Local, Finish, Goto, Finished, Blank, At, Env, db, history
  <2>5. ASSUME NEW s \in Requests, NEW pw \in Passwords, ChangeArrive(r, s, pw) PROVE Quiet
    BY <2>5, <1>0 DEF ChangeArrive, Local, Finish, Goto, Finished, Blank, At, Env, db, history
  <2> HIDE DEF Quiet
  <2> QED
    BY <2>1, <2>2, <2>3, <2>4, <2>5 DEF Arrive
<1> QED
  BY <1>1, DeadFrame DEF InFlightOK, TypeOK, HistoryTypeOK

(* A login reads the epoch together with the hash; its later steps carry   *)
(* it along, and the session row records it.                               *)
LEMMA LoginDead ==
  ASSUME TypeOK, TypeOK', DeadInv, NEW r \in Requests,
         \/ \E pw \in Passwords : LoginLookup(r, pw)
         \/ LoginTOTP(r) \/ \E c \in Codes : LoginRecoveryCode(r, c)
         \/ LoginFail(r) \/ LoginClear(r)
  PROVE  DeadInv'
<1>0. req \in [Requests -> Local] /\ req[r] \in Local /\ LocalOK(req[r], resets)
  BY DEF TypeOK, RequestTypeOK
<1> DEFINE Quiet == /\ \A q \in Requests : q # r => req'[q] = req[q]
                    /\ UNCHANGED <<cleaned, late, epoch, sessions>>
<1>1. ASSUME NEW pw \in Passwords, LoginLookup(r, pw) PROVE DeadInv'
  <2> DEFINE u == AccountOf[req[r].name]
  <2>1. Quiet
    BY <1>0, <1>1 DEF LoginLookup, At, Goto, Env, db, history
  <2>2. CASE u # None /\ pw = password[u]
    <3>1. u \in Users
      BY <1>0, <1>1, <2>2, ParametersAssumption DEF LoginLookup, At, LocalOK
    <3>2. req'[r].pc = "code" /\ req'[r].user = u /\ req'[r].epoch = epoch[u]
      BY <1>0, <1>1, <2>2 DEF LoginLookup, Local
    <3>3. cleaned'[u] = cleaned[u] /\ cleaned[u] <= epoch[u] /\ cleaned[u] \in Nat
          /\ epoch[u] \in Nat
      BY <2>1, <3>1 DEF DeadInv, TypeOK, HistoryTypeOK
    <3>4. InFlightOK(r, req[r])'
      BY <3>2, <3>3 DEF InFlightOK
    <3> QED
      BY <2>1, <3>4, DeadFrame DEF TypeOK, HistoryTypeOK
  <2>3. CASE ~(u # None /\ pw = password[u])
    <3>1. req'[r].pc = "fail"
      BY <1>0, <1>1, <2>3 DEF LoginLookup, Goto, Local
    <3> QED
      BY <2>1, <3>1, DeadFrame DEF InFlightOK, TypeOK, HistoryTypeOK
  <2> QED
    BY <2>2, <2>3
<1>2. ASSUME \/ LoginTOTP(r) \/ \E c \in Codes : LoginRecoveryCode(r, c)
             \/ LoginFail(r) \/ LoginClear(r)
      PROVE  DeadInv'
  <2>1. Quiet
    BY <1>0, <1>2 DEF LoginTOTP, LoginRecoveryCode, LoginFail, LoginClear, Goto, Finish,
                      Env, db, history
  <2>2. \/ req'[r].pc \in {"fail", "done"}
        \/ /\ PastPasswordCheck(r) /\ req'[r].pc \in {"clear", "session"}
           /\ req'[r].user = req[r].user /\ req'[r].epoch = req[r].epoch
    BY <1>0, <1>2 DEF LoginTOTP, LoginRecoveryCode, LoginFail, LoginClear, Goto, Finish,
                      At, Finished, Blank, PastPasswordCheck, Local
  <2>3. InFlightOK(r, req[r])
    BY DEF DeadInv
  <2>4. InFlightOK(r, req[r])'
    BY <2>1, <2>2, <2>3 DEF InFlightOK, PastPasswordCheck
  <2> QED
    BY <2>1, <2>4, DeadFrame DEF TypeOK, HistoryTypeOK
<1> QED
  BY <1>1, <1>2

LEMMA LoginSessionDead ==
  ASSUME TypeOK, TypeOK', DeadInv, NEW r \in Requests, LoginSession(r)
  PROVE  DeadInv'
<1>0. req \in [Requests -> Local] /\ req[r] \in Local
  BY DEF TypeOK, RequestTypeOK
<1>1. req' = [req EXCEPT ![r] = Finished] /\ UNCHANGED <<cleaned, late, epoch>>
  BY DEF LoginSession, Finish, history
<1>2. \A q \in Requests : InFlightOK(q, req[q])'
  BY <1>0, <1>1 DEF DeadInv, InFlightOK, Finished, Blank
<1>3. InFlightOK(r, req[r]) /\ req[r].pc = "session"
  BY DEF DeadInv, LoginSession, At
<1>4. sessions'[r].seen = req[r].epoch /\ sessions'[r].user = req[r].user
  BY DEF LoginSession, TypeOK, DatabaseTypeOK
<1>5. ReplacedPasswordIsDead'
  <2> SUFFICES ASSUME NEW s \in Requests, sessions'[s] # None,
                      sessions'[s].seen < cleaned'[sessions'[s].user]
               PROVE  s \in late'
    BY DEF ReplacedPasswordIsDead
  <2>1. CASE s = r
    BY <1>1, <1>3, <1>4, <2>1 DEF InFlightOK
  <2>2. CASE s # r
    <3>1. sessions'[s] = sessions[s]
      BY <2>2 DEF LoginSession, TypeOK, DatabaseTypeOK
    <3> QED
      BY <1>1, <3>1 DEF DeadInv, ReplacedPasswordIsDead
  <2> QED
    BY <2>1, <2>2
<1> QED
  BY <1>1, <1>2, <1>5 DEF DeadInv

(* The remaining steps of the handlers, except the reset's DELETE.         *)
LEMMA OtherStepDead ==
  ASSUME TypeOK, TypeOK', DeadInv, NEW r \in Requests,
         \/ LogoutDelete(r) \/ ForgotInsert(r) \/ ForgotMail(r)
         \/ ResetUpdate(r) \/ ResetMark(r)
         \/ (\E pw \in Passwords : ChangeRead(r, pw)) \/ ChangeWrite(r)
  PROVE  DeadInv'
<1>0. req \in [Requests -> Local] /\ req[r] \in Local /\ LocalOK(req[r], resets)
      /\ InFlightOK(r, req[r])
  BY DEF TypeOK, RequestTypeOK, DeadInv
<1>1. CASE LogoutDelete(r) \/ ForgotInsert(r) \/ ForgotMail(r)
           \/ (\E pw \in Passwords : ChangeRead(r, pw))
  <2>1. /\ \A q \in Requests : q # r => req'[q] = req[q]
        /\ UNCHANGED <<cleaned, late, epoch>>
        /\ req'[r].pc \in {"done", "mail", "write"}
    BY <1>0, <1>1 DEF LogoutDelete, ForgotInsert, ForgotMail, ChangeRead, Goto, Finish,
                      Finished, Blank, Local, Env, db, history
  <2>2. \A s \in Requests : sessions'[s] \in {sessions[s], None}
    BY <1>0, <1>1 DEF LogoutDelete, ForgotInsert, ForgotMail, ChangeRead, db,
                      TypeOK, DatabaseTypeOK
  <2> QED
    BY <2>1, <2>2, DeadFrame DEF InFlightOK, TypeOK, HistoryTypeOK
<1>2. CASE ResetUpdate(r)
  <2> DEFINE u == req[r].user
  <2>1. u \in Users /\ epoch[u] \in Nat
    BY <1>0, <1>2 DEF ResetUpdate, At, LocalOK, TypeOK, HistoryTypeOK
  <2>2. /\ \A q \in Requests : q # r => req'[q] = req[q]
        /\ UNCHANGED <<cleaned, late, sessions>>
        /\ req'[r].pc = "mark" /\ req'[r].user = u /\ req'[r].epoch = epoch[u] + 1
    BY <1>0, <1>2 DEF ResetUpdate, Local
  <2>3. epoch' = [epoch EXCEPT ![u] = epoch[u] + 1]
    BY <1>2 DEF ResetUpdate
  <2>4. \A v \in Users : epoch[v] <= epoch'[v]
    BY <2>1, <2>3 DEF TypeOK, HistoryTypeOK
  <2>5. epoch'[u] = epoch[u] + 1
    BY <2>1, <2>3 DEF TypeOK, HistoryTypeOK
  <2>6. InFlightOK(r, req[r])'
    BY <2>1, <2>2, <2>5 DEF InFlightOK
  <2> QED
    BY <2>2, <2>4, <2>6, DeadFrame
<1>3. CASE ResetMark(r)
  <2>1. /\ \A q \in Requests : q # r => req'[q] = req[q]
        /\ UNCHANGED <<cleaned, late, epoch, sessions>>
        /\ req[r].pc = "mark" /\ req'[r].pc = "sweep"
        /\ req'[r].user = req[r].user /\ req'[r].epoch = req[r].epoch
    BY <1>0, <1>3 DEF ResetMark, At, Goto, Local, history
  <2>2. InFlightOK(r, req[r])'
    BY <1>0, <2>1 DEF InFlightOK
  <2> QED
    BY <2>1, <2>2, DeadFrame DEF TypeOK, HistoryTypeOK
<1>4. CASE ChangeWrite(r)
  <2> DEFINE u == req[r].user
  <2>1. u \in Users /\ epoch[u] \in Nat
    BY <1>0, <1>4 DEF ChangeWrite, At, LocalOK, TypeOK, HistoryTypeOK
  <2>2. /\ \A q \in Requests : q # r => req'[q] = req[q]
        /\ UNCHANGED <<cleaned, late, sessions>>
        /\ req'[r].pc = "done"
    BY <1>0, <1>4 DEF ChangeWrite, Finish, Finished, Blank
  <2>3. epoch' = [epoch EXCEPT ![u] = epoch[u] + 1]
    BY <1>4 DEF ChangeWrite
  <2>4. \A v \in Users : epoch[v] <= epoch'[v]
    BY <2>1, <2>3 DEF TypeOK, HistoryTypeOK
  <2> QED
    BY <2>2, <2>4, DeadFrame DEF InFlightOK
<1> QED
  BY <1>1, <1>2, <1>3, <1>4

(* The DELETE removes every session of the user, and notes the logins that *)
(* are past their check: no other could have read the replaced hash.       *)
LEMMA ResetSweepDead ==
  ASSUME TypeOK, TypeOK', DeadInv, NEW r \in Requests, ResetSweep(r)
  PROVE  DeadInv'
<1> DEFINE u == req[r].user
<1>0. /\ req \in [Requests -> Local] /\ req[r] \in Local /\ LocalOK(req[r], resets)
      /\ InFlightOK(r, req[r]) /\ req[r].pc = "sweep"
  BY DEF TypeOK, RequestTypeOK, DeadInv, ResetSweep, At
<1>1. u \in Users /\ req[r].epoch \in Nat /\ req[r].epoch <= epoch[u]
  BY <1>0 DEF LocalOK, Local, InFlightOK
<1>2. req' = [req EXCEPT ![r] = Finished] /\ UNCHANGED epoch
  BY DEF ResetSweep, Finish
<1>3. \A v \in Users : v # u => cleaned'[v] = cleaned[v]
  BY DEF ResetSweep, TypeOK, HistoryTypeOK
<1>4. cleaned'[u] <= epoch[u]
  BY <1>1 DEF ResetSweep, DeadInv, TypeOK, HistoryTypeOK
<1>5. \A q \in Requests : q \in late \/ (PastPasswordCheck(q) /\ req[q].user = u)
                           => q \in late'
  BY DEF ResetSweep
<1>6. \A q \in Requests : InFlightOK(q, req[q])'
  <2> SUFFICES ASSUME NEW q \in Requests PROVE InFlightOK(q, req[q])'
    OBVIOUS
  <2>1. CASE q = r
    BY <1>0, <1>2, <2>1 DEF InFlightOK, Finished, Blank
  <2>2. CASE q # r
    <3>1. req'[q] = req[q] /\ InFlightOK(q, req[q]) /\ LocalOK(req[q], resets)
      BY <1>0, <1>2, <2>2 DEF DeadInv, TypeOK, RequestTypeOK
    <3>2. CASE req[q].user = u
      BY <1>2, <1>5, <3>1, <3>2 DEF InFlightOK, PastPasswordCheck
    <3>3. CASE req[q].user # u
      BY <1>2, <1>3, <1>5, <3>1, <3>3 DEF InFlightOK, PastPasswordCheck, LocalOK
    <3> QED
      BY <3>2, <3>3
  <2> QED
    BY <2>1, <2>2
<1>7. ReplacedPasswordIsDead'
  <2> SUFFICES ASSUME NEW s \in Requests, sessions'[s] # None,
                      sessions'[s].seen < cleaned'[sessions'[s].user]
               PROVE  s \in late'
    BY DEF ReplacedPasswordIsDead
  <2>1. sessions'[s] = sessions[s] /\ sessions[s].user # u
    BY DEF ResetSweep
  <2>2. sessions[s].user \in Users
    BY <2>1 DEF TypeOK, DatabaseTypeOK, SessionRow
  <2> QED
    BY <1>3, <1>5, <2>1, <2>2 DEF DeadInv, ReplacedPasswordIsDead
<1>8. \A v \in Users : cleaned'[v] <= epoch'[v]
  <2> SUFFICES ASSUME NEW v \in Users PROVE cleaned'[v] <= epoch'[v]
    OBVIOUS
  <2>1. CASE v = u
    BY <1>2, <1>4, <2>1
  <2>2. CASE v # u
    BY <1>2, <1>3, <2>2 DEF DeadInv
  <2> QED
    BY <2>1, <2>2
<1> QED
  BY <1>6, <1>7, <1>8 DEF DeadInv

LEMMA StatementFailsDead ==
  ASSUME TypeOK, TypeOK', DeadInv, NEW r \in Requests, StatementFails(r)
  PROVE  DeadInv'
<1>0. req \in [Requests -> Local] /\ req[r] \in Local /\ InFlightOK(r, req[r])
  BY DEF TypeOK, RequestTypeOK, DeadInv
<1>1. \A q \in Requests : q # r => req'[q] = req[q]
  BY <1>0 DEF StatementFails, Finish, Goto
<1>2. UNCHANGED <<cleaned, late, epoch, sessions>>
  BY DEF StatementFails, db, history
<1>3. InFlightOK(r, req[r])'
  <2>1. CASE Finish(r)
    BY <1>0, <2>1 DEF Finish, Finished, Blank, InFlightOK
  <2>2. CASE OnError[req[r].pc] # "done" /\ Goto(r, OnError[req[r].pc])
             /\ req[r].pc \in DOMAIN OnError
    <3> DEFINE at == req[r].pc
    <3>1. at \in PCs \ {"new", "mail", "done", "lost"}
      BY <2>2 DEF OnError
    <3>2. OnError[at] = CASE at \in {"lookup", "code"} -> "fail"
                          [] at = "clear" -> "session"
                          [] at = "mark" -> "sweep"
                          [] OTHER -> "done"
      BY <3>1 DEF OnError
    <3>3. req'[r].pc = OnError[at] /\ req'[r].user = req[r].user
          /\ req'[r].epoch = req[r].epoch
      BY <1>0, <2>2 DEF Goto, Local
    <3>4. CASE at \in {"lookup", "code"}
      BY <3>2, <3>3, <3>4 DEF InFlightOK
    <3>5. CASE at = "clear"
      BY <1>0, <1>2, <3>2, <3>3, <3>5 DEF InFlightOK
    <3>6. CASE at = "mark"
      BY <1>0, <1>2, <3>2, <3>3, <3>6 DEF InFlightOK
    <3>7. CASE at \notin {"lookup", "code", "clear", "mark"}
      BY <2>2, <3>2, <3>7
    <3> QED
      BY <3>4, <3>5, <3>6, <3>7
  <2> QED
    BY <2>1, <2>2 DEF StatementFails
<1> QED
  BY <1>1, <1>2, <1>3, DeadFrame DEF TypeOK, HistoryTypeOK

LEMMA BackgroundDead ==
  ASSUME TypeOK, DeadInv,
         Cleanup \/ PurgeFails \/ Crash \/ Tick \/ UNCHANGED vars
  PROVE  DeadInv'
<1>1. UNCHANGED <<cleaned, late, epoch>>
  BY DEF Cleanup, PurgeOldAuthFailures, PurgeExpiredSessions, PurgeFails, Crash, Tick,
         vars, db, history
<1>2. \A s \in Requests : sessions'[s] \in {sessions[s], None}
  BY DEF Cleanup, PurgeOldAuthFailures, PurgeExpiredSessions, PurgeFails, Crash, Tick,
         vars, db
<1>3. \A q \in Requests : req'[q] \in {req[q], Lost}
  BY DEF Cleanup, PurgeOldAuthFailures, PurgeExpiredSessions, PurgeFails, Crash, Tick,
         vars
<1>4. \A q \in Requests : InFlightOK(q, req[q])'
  BY <1>1, <1>3 DEF DeadInv, InFlightOK, Lost, Blank
<1>5. ReplacedPasswordIsDead'
  BY <1>1, <1>2 DEF DeadInv, ReplacedPasswordIsDead
<1> QED
  BY <1>1, <1>4, <1>5 DEF DeadInv

LEMMA NextDead == TypeOK /\ TypeOK' /\ DeadInv /\ [Next]_vars => DeadInv'
<1> SUFFICES ASSUME TypeOK, TypeOK', DeadInv, [Next]_vars PROVE DeadInv'
  OBVIOUS
<1>1. ASSUME NEW r \in Requests, Step(r) PROVE DeadInv'
  BY <1>1, LoginDead, LoginSessionDead, OtherStepDead, ResetSweepDead DEF Step
<1> QED
  BY <1>1, ArriveDead, StatementFailsDead, BackgroundDead DEF Next

(* A password replaced by a finished reset opens no session afterwards,    *)
(* except for logins that were past their password check at that moment.   *)
THEOREM ReplacedPasswordStaysDead == Spec => []ReplacedPasswordIsDead
<1>1. Init => DeadInv
  BY DEF Init, DeadInv, InFlightOK, ReplacedPasswordIsDead, Blank
<1>2. DeadInv => ReplacedPasswordIsDead
  BY DEF DeadInv
<1> QED
  BY <1>1, <1>2, AuthTypeCorrect, NextDead, PTL DEF Spec

-----------------------------------------------------------------------------
(* Only consumeRecoveryCode touches the codes, and it takes the one it     *)
(* accepts: the recovery codes implement OneShot.                          *)
LEMMA CodesUntouched ==
  ASSUME [Next]_vars,
         \A r \in Requests, c \in Codes : ~LoginRecoveryCode(r, c)
  PROVE  UNCHANGED <<unused, granted>>
<1>1. ASSUME NEW r \in Requests, Arrive(r) PROVE UNCHANGED <<unused, granted>>
  BY <1>1 DEF Arrive, LoginArrive, LogoutArrive, ForgotArrive, ResetArrive, ChangeArrive,
              db, history
<1>2. ASSUME NEW r \in Requests, Step(r) PROVE UNCHANGED <<unused, granted>>
  BY <1>2 DEF Step, LoginLookup, LoginTOTP, LoginFail, LoginClear, LoginSession,
              LogoutDelete, ForgotInsert, ForgotMail, ResetUpdate, ResetMark, ResetSweep,
              ChangeRead, ChangeWrite, db, history
<1>3. ASSUME NEW r \in Requests, StatementFails(r) PROVE UNCHANGED <<unused, granted>>
  BY <1>3 DEF StatementFails, db, history
<1>4. CASE Cleanup \/ PurgeFails \/ Crash \/ Tick \/ UNCHANGED vars
  BY <1>4 DEF Cleanup, PurgeOldAuthFailures, PurgeExpiredSessions, PurgeFails, Crash,
              Tick, vars, db, history
<1> QED
  BY <1>1, <1>2, <1>3, <1>4 DEF Next

LEMMA RecoveryCodeStep ==
  ASSUME TypeOK, NEW r \in Requests, NEW c \in Codes, LoginRecoveryCode(r, c)
  PROVE  [RecoveryCodes!OneShotNext]_RecoveryCodes!oneShotVars
<1> DEFINE u == req[r].user
<1>1. u \in Users /\ unused \in [Users -> SUBSET Codes]
  BY DEF LoginRecoveryCode, At, TypeOK, RequestTypeOK, LocalOK, DatabaseTypeOK
<1>2. CASE c \in unused[u]
  <2>1. unused' = [unused EXCEPT ![u] = unused[u] \ {c}]
        /\ granted' = granted \cup {<<u, c, r>>}
    BY <1>2 DEF LoginRecoveryCode
  <2>2. <<u, c>> \in {uc \in Users \X Codes : uc[2] \in unused[uc[1]]}
    BY <1>1, <1>2
  <2>3. {uc \in Users \X Codes : uc[2] \in unused'[uc[1]]}
          = {uc \in Users \X Codes : uc[2] \in unused[uc[1]]} \ {<<u, c>>}
    BY <1>1, <2>1
  <2>4. {<<<<g[1], g[2]>>, g[3]>> : g \in granted'}
          = {<<<<g[1], g[2]>>, g[3]>> : g \in granted} \cup {<<<<u, c>>, r>>}
    <3> DEFINE Pair(g) == <<<<g[1], g[2]>>, g[3]>>
               new == <<u, c, r>>
    <3>1. Pair(new) = <<<<u, c>>, r>>
      OBVIOUS
    <3>2. granted' = granted \cup {new}
      BY <2>1
    <3> HIDE DEF Pair, new
    <3>3. {Pair(g) : g \in granted'} = {Pair(g) : g \in granted} \cup {Pair(new)}
      BY <3>2, Zenon
    <3> USE DEF Pair
    <3> QED
      BY <3>1, <3>3
  <2>5. RecoveryCodes!Accept(<<u, c>>, r)
    BY <2>2, <2>3, <2>4 DEF RecoveryCodes!Accept
  <2> QED
    BY <1>1, <2>5 DEF RecoveryCodes!OneShotNext
<1>3. CASE c \notin unused[u]
  BY <1>3 DEF LoginRecoveryCode, RecoveryCodes!oneShotVars
<1> QED
  BY <1>2, <1>3

(* A recovery code lets at most one login in: Auth implements OneShot.     *)
THEOREM RecoveryCodesImplementOneShot == Spec => RecoveryCodesAreOneShot
<1>1. Init => RecoveryCodes!OneShotInit
  BY DEF Init, RecoveryCodes!OneShotInit
<1>2. TypeOK /\ [Next]_vars => [RecoveryCodes!OneShotNext]_RecoveryCodes!oneShotVars
  <2> SUFFICES ASSUME TypeOK, [Next]_vars
               PROVE  [RecoveryCodes!OneShotNext]_RecoveryCodes!oneShotVars
    OBVIOUS
  <2>1. CASE \E r \in Requests, c \in Codes : LoginRecoveryCode(r, c)
    BY <2>1, RecoveryCodeStep
  <2>2. CASE ~\E r \in Requests, c \in Codes : LoginRecoveryCode(r, c)
    <3>1. UNCHANGED <<unused, granted>>
      BY <2>2, CodesUntouched
    <3> QED
      BY <3>1 DEF RecoveryCodes!oneShotVars
  <2> QED
    BY <2>1, <2>2
<1> QED
  BY <1>1, <1>2, AuthTypeCorrect, PTL
  DEF Spec, RecoveryCodesAreOneShot, RecoveryCodes!OneShotSpec
-----------------------------------------------------------------------------
(* The invariant behind SpentLinkIsMarked: a link's row is inserted once,  *)
(* before its mail, so no later request for a link can replace a row that  *)
(* is marked, and a link that was applied has its row.                     *)
SpentInv ==
    /\ \A t \in Requests : resets[t] # None => req[t].pc \in {"mail", "done", "lost"}
    /\ \A a \in applied : resets[a[1]] # None
    /\ SpentLinkIsMarked

(* A step that writes no link, and moves one request that is not about to  *)
(* mark its link, or is noted as cut short there.                          *)
LEMMA SpentFrame ==
  ASSUME TypeOK, SpentInv, NEW r \in Requests,
         \A q \in Requests : q # r => req'[q] = req[q],
         req[r].pc \in {"mail", "done", "lost"} => req'[r].pc \in {"mail", "done", "lost"},
         req[r].pc # "mark" \/ r \in unmarked', unmarked \subseteq unmarked',
         UNCHANGED <<resets, applied>>
  PROVE  SpentInv'
<1>1. \A t \in Requests : resets'[t] # None => req'[t].pc \in {"mail", "done", "lost"}
  BY DEF SpentInv
<1>2. SpentLinkIsMarked'
  <2> SUFFICES ASSUME NEW a \in applied
               PROVE  \/ resets[a[1]] # None /\ resets[a[1]].used
                      \/ req'[a[2]].pc = "mark" /\ req'[a[2]].ref = a[1]
                      \/ a[2] \in unmarked'
    BY DEF SpentLinkIsMarked, At
  <2>1. a[2] \in Requests
    BY DEF TypeOK, HistoryTypeOK
  <2>2. \/ resets[a[1]] # None /\ resets[a[1]].used
        \/ req[a[2]].pc = "mark" /\ req[a[2]].ref = a[1]
        \/ a[2] \in unmarked
    BY DEF SpentInv, SpentLinkIsMarked, At
  <2>3. CASE a[2] = r
    BY <2>2, <2>3
  <2>4. CASE a[2] # r
    BY <2>1, <2>2, <2>4
  <2> QED
    BY <2>3, <2>4
<1> QED
  BY <1>1, <1>2 DEF SpentInv

LEMMA ArriveSpent ==
  ASSUME TypeOK, SpentInv, NEW r \in Requests, Arrive(r)
  PROVE  SpentInv'
<1>0. req \in [Requests -> Local]
  BY DEF TypeOK, RequestTypeOK
<1>1. /\ \A q \in Requests : q # r => req'[q] = req[q]
      /\ req[r].pc = "new"
      /\ UNCHANGED <<unmarked, resets, applied>>
  BY <1>0 DEF Arrive, LoginArrive, LogoutArrive, ForgotArrive, ResetArrive, ChangeArrive,
              Finish, At, Env, db, history
<1> QED
  BY <1>1, SpentFrame

LEMMA InsertSpent ==
  ASSUME TypeOK, SpentInv, NEW r \in Requests, ForgotInsert(r)
  PROVE  SpentInv'
<1>0. req \in [Requests -> Local] /\ req[r] \in Local /\ req[r].pc = "insert"
      /\ LocalOK(req[r], resets)
  BY DEF TypeOK, RequestTypeOK, ForgotInsert, At
<1>1. resets[r] = None /\ \A a \in applied : a[1] # r
  BY <1>0 DEF SpentInv
<1>2. PICK row \in ResetRow : resets' = [resets EXCEPT ![r] = row]
  <2>1. [user |-> req[r].user, created |-> now,
         expires |-> Stored(now + ResetTokenTTL), used |-> FALSE] \in ResetRow
    BY <1>0, ParametersAssumption DEF LocalOK, Local, ResetRow, Stored, TypeOK, Times
  <2> QED
    BY <2>1 DEF ForgotInsert
<1>3. \A t \in Requests : t # r => resets'[t] = resets[t] /\ req'[t] = req[t]
  BY <1>0, <1>2 DEF ForgotInsert, Goto, TypeOK, DatabaseTypeOK
<1>4. req'[r].pc = "mail" /\ UNCHANGED <<unmarked, applied>>
  BY <1>0 DEF ForgotInsert, Goto, Env, history, Local
<1>5. applied \subseteq Requests \X Requests
  BY DEF TypeOK, HistoryTypeOK
<1>6. SpentLinkIsMarked'
  <2> SUFFICES ASSUME NEW a \in applied
               PROVE  \/ resets'[a[1]] # None /\ resets'[a[1]].used
                      \/ req'[a[2]].pc = "mark" /\ req'[a[2]].ref = a[1]
                      \/ a[2] \in unmarked
    BY <1>4 DEF SpentLinkIsMarked, At
  <2>1. a[1] \in Requests /\ a[2] \in Requests /\ a[1] # r
    BY <1>1, <1>5
  <2>2. \/ resets[a[1]] # None /\ resets[a[1]].used
        \/ req[a[2]].pc = "mark" /\ req[a[2]].ref = a[1]
        \/ a[2] \in unmarked
    BY DEF SpentInv, SpentLinkIsMarked, At
  <2>3. req[a[2]].pc = "mark" => a[2] # r
    BY <1>0
  <2> QED
    BY <1>3, <2>1, <2>2, <2>3
<1>7. \A a \in applied' : resets'[a[1]] # None
  BY <1>1, <1>3, <1>4, <1>5 DEF SpentInv
<1> QED
  BY <1>1, <1>3, <1>4, <1>6, <1>7 DEF SpentInv

(* The password is changed and the link is applied: the request that did   *)
(* it is about to mark the link it holds.                                  *)
LEMMA UpdateSpent ==
  ASSUME TypeOK, SpentInv, NEW r \in Requests, ResetUpdate(r)
  PROVE  SpentInv'
<1>0. req \in [Requests -> Local] /\ req[r] \in Local /\ req[r].pc = "update"
      /\ LocalOK(req[r], resets)
  BY DEF TypeOK, RequestTypeOK, ResetUpdate, At
<1>1. req[r].ref \in Requests /\ resets[req[r].ref] # None
  BY <1>0 DEF LocalOK
<1>2. /\ \A q \in Requests : q # r => req'[q] = req[q]
      /\ req'[r].pc = "mark" /\ req'[r].ref = req[r].ref
      /\ applied' = applied \cup {<<req[r].ref, r>>}
      /\ UNCHANGED <<unmarked, resets>>
  BY <1>0 DEF ResetUpdate, Env, Local
<1>3. SpentLinkIsMarked'
  <2> SUFFICES ASSUME NEW a \in applied'
               PROVE  \/ resets[a[1]] # None /\ resets[a[1]].used
                      \/ req'[a[2]].pc = "mark" /\ req'[a[2]].ref = a[1]
                      \/ a[2] \in unmarked
    BY <1>2 DEF SpentLinkIsMarked, At
  <2>1. CASE a = <<req[r].ref, r>>
    BY <1>2, <2>1
  <2>2. CASE a \in applied
    <3>1. a[2] \in Requests
      BY <2>2 DEF TypeOK, HistoryTypeOK
    <3> QED
      BY <1>0, <1>2, <2>2, <3>1 DEF SpentInv, SpentLinkIsMarked, At
  <2> QED
    BY <1>2, <2>1, <2>2
<1>4. \A t \in Requests : resets'[t] # None => req'[t].pc \in {"mail", "done", "lost"}
  BY <1>0, <1>2 DEF SpentInv
<1> QED
  BY <1>1, <1>2, <1>3, <1>4 DEF SpentInv

LEMMA MarkSpent ==
  ASSUME TypeOK, SpentInv, NEW r \in Requests, ResetMark(r)
  PROVE  SpentInv'
<1> DEFINE t == req[r].ref
<1>0. req \in [Requests -> Local] /\ req[r] \in Local /\ req[r].pc = "mark"
      /\ LocalOK(req[r], resets)
  BY DEF TypeOK, RequestTypeOK, ResetMark, At
<1>1. t \in Requests /\ resets[t] \in ResetRow
  BY <1>0 DEF LocalOK, TypeOK, DatabaseTypeOK
<1>2. [resets[t] EXCEPT !.used = TRUE] \in ResetRow
  BY <1>1 DEF ResetRow
<1>3. resets'[t] \in ResetRow /\ resets'[t].used
      /\ \A s \in Requests : s # t => resets'[s] = resets[s]
  BY <1>1, <1>2 DEF ResetMark, TypeOK, DatabaseTypeOK, ResetRow
<1>4. /\ \A q \in Requests : q # r => req'[q] = req[q]
      /\ req'[r].pc = "sweep"
      /\ UNCHANGED <<unmarked, applied>>
  BY <1>0 DEF ResetMark, Goto, Env, Local, history
<1>5. resets'[t] # None /\ resets[t] # None
  BY <1>1, <1>3, NoneIsNoRow
<1>6. applied \subseteq Requests \X Requests
  BY DEF TypeOK, HistoryTypeOK
<1>7. \A s \in Requests : resets'[s] # None => req'[s].pc \in {"mail", "done", "lost"}
  BY <1>0, <1>3, <1>4, <1>5 DEF SpentInv
<1>8. \A a \in applied' : resets'[a[1]] # None
  BY <1>3, <1>4, <1>5, <1>6 DEF SpentInv
<1>9. SpentLinkIsMarked'
  <2> SUFFICES ASSUME NEW a \in applied
               PROVE  \/ resets'[a[1]] # None /\ resets'[a[1]].used
                      \/ req'[a[2]].pc = "mark" /\ req'[a[2]].ref = a[1]
                      \/ a[2] \in unmarked
    BY <1>4 DEF SpentLinkIsMarked, At
  <2>1. a[1] \in Requests /\ a[2] \in Requests
    BY <1>6
  <2>2. \/ resets[a[1]] # None /\ resets[a[1]].used
        \/ req[a[2]].pc = "mark" /\ req[a[2]].ref = a[1]
        \/ a[2] \in unmarked
    BY DEF SpentInv, SpentLinkIsMarked, At
  <2>3. CASE a[1] = t
    BY <1>3, <1>5, <2>3
  <2>4. CASE a[1] # t
    <3>1. req[a[2]].pc = "mark" /\ req[a[2]].ref = a[1] => a[2] # r
      BY <2>4
    <3> QED
      BY <1>3, <1>4, <2>1, <2>2, <2>4, <3>1
  <2> QED
    BY <2>3, <2>4
<1> QED
  BY <1>7, <1>8, <1>9 DEF SpentInv

LEMMA StepSpent ==
  ASSUME TypeOK, SpentInv, NEW r \in Requests, Step(r)
  PROVE  SpentInv'
<1>0. req \in [Requests -> Local]
  BY DEF TypeOK, RequestTypeOK
<1> DEFINE Quiet == /\ \A q \in Requests : q # r => req'[q] = req[q]
                    /\ req[r].pc \in {"mail", "done", "lost"} => req'[r].pc \in {"mail", "done", "lost"}
                    /\ req[r].pc # "mark"
                    /\ UNCHANGED <<unmarked, resets, applied>>
<1>1. ASSUME \/ \E pw \in Passwords : LoginLookup(r, pw)
             \/ LoginTOTP(r)
             \/ \E c \in Codes : LoginRecoveryCode(r, c)
             \/ LoginFail(r) \/ LoginClear(r) \/ LoginSession(r)
      PROVE  Quiet
  BY <1>0, <1>1 DEF LoginLookup, LoginTOTP, LoginRecoveryCode, LoginFail, LoginClear,
                    LoginSession, Finish, Goto, At, Env, db, history
<1>2. ASSUME \/ LogoutDelete(r) \/ ForgotMail(r) \/ ResetSweep(r)
             \/ \E pw \in Passwords : ChangeRead(r, pw)
             \/ ChangeWrite(r)
      PROVE  Quiet
  BY <1>0, <1>2 DEF LogoutDelete, ForgotMail, ResetSweep, ChangeRead, ChangeWrite,
                    Finish, Finished, Blank, Goto, At, Env, db, history
<1>3. Quiet => SpentInv'
  BY SpentFrame
<1> HIDE DEF Quiet
<1> QED
  BY <1>1, <1>2, <1>3, InsertSpent, UpdateSpent, MarkSpent DEF Step

LEMMA NextSpent == TypeOK /\ SpentInv /\ [Next]_vars => SpentInv'
<1> SUFFICES ASSUME TypeOK, SpentInv, [Next]_vars PROVE SpentInv'
  OBVIOUS
<1>0. req \in [Requests -> Local] /\ applied \subseteq Requests \X Requests
  BY DEF TypeOK, RequestTypeOK, HistoryTypeOK
<1>1. ASSUME NEW r \in Requests, StatementFails(r) PROVE SpentInv'
  <2>1. /\ \A q \in Requests : q # r => req'[q] = req[q]
        /\ req[r].pc \notin {"mail", "done", "lost"}
        /\ req[r].pc # "mark" \/ r \in unmarked'
        /\ unmarked \subseteq unmarked'
        /\ UNCHANGED <<resets, applied>>
    BY <1>0, <1>1 DEF StatementFails, OnError, Finish, Goto, At, db
  <2> QED
    BY <2>1, SpentFrame
<1>2. CASE Crash
  <2>1. UNCHANGED <<resets, applied>> /\ unmarked \subseteq unmarked'
    BY <1>2 DEF Crash, db
  <2>2. \A q \in Requests : req[q].pc \in {"mail", "done", "lost"}
                             => req'[q].pc \in {"mail", "done", "lost"}
    BY <1>2 DEF Crash, Lost, Blank
  <2>3. \A q \in Requests : req[q].pc = "mark" => q \in unmarked'
    BY <1>2 DEF Crash, At
  <2>4. SpentLinkIsMarked'
    BY <1>0, <2>1, <2>3 DEF SpentInv, SpentLinkIsMarked, At
  <2> QED
    BY <2>1, <2>2, <2>4 DEF SpentInv
<1>3. CASE Cleanup \/ PurgeFails \/ Tick \/ UNCHANGED vars
  <2>1. UNCHANGED <<req, resets, applied, unmarked>>
    BY <1>0, <1>3 DEF Cleanup, PurgeOldAuthFailures, PurgeExpiredSessions, PurgeFails, Tick,
                      vars, db, history
  <2> QED
    BY <2>1 DEF SpentInv, SpentLinkIsMarked, At
<1> QED
  BY <1>1, <1>2, <1>3, ArriveSpent, StepSpent DEF Next

(* However resets, mails, failures and deaths interleave: a link that      *)
(* changed a password is marked or about to be, unless the reset that used *)
(* it was itself cut short at that statement.                              *)
THEOREM SpentLinksAreMarked == Spec => []SpentLinkIsMarked
<1>1. Init => SpentInv
  BY DEF Init, SpentInv, SpentLinkIsMarked
<1>2. SpentInv => SpentLinkIsMarked
  BY DEF SpentInv
<1> QED
  BY <1>1, <1>2, AuthTypeCorrect, NextSpent, PTL DEF Spec
-----------------------------------------------------------------------------
(* Which steps take a row out of sessions.                                 *)
LEMMA SessionsKept ==
  ASSUME TypeOK, [Next]_vars, NEW s \in Requests, sessions[s] # None, sessions'[s] = None
  PROVE  \/ \E r \in Requests : LogoutDelete(r) \/ ResetSweep(r)
         \/ PurgeExpiredSessions
<1>1. ASSUME NEW r \in Requests, Arrive(r) PROVE FALSE
  BY <1>1 DEF Arrive, LoginArrive, LogoutArrive, ForgotArrive, ResetArrive, ChangeArrive, db
<1>2. ASSUME NEW r \in Requests, LoginSession(r) PROVE FALSE
  <2>1. req[r] \in Local /\ LocalOK(req[r], resets) /\ req[r].pc = "session"
    BY <1>2 DEF LoginSession, At, TypeOK, RequestTypeOK
  <2>2. [user |-> req[r].user, created |-> now,
         expires |-> Stored(now + SessionDuration), seen |-> req[r].epoch] \in SessionRow
    BY <2>1, ParametersAssumption DEF LocalOK, Local, SessionRow, Stored, TypeOK, Times
  <2>3. sessions'[s] \in {sessions[s],
          [user |-> req[r].user, created |-> now,
           expires |-> Stored(now + SessionDuration), seen |-> req[r].epoch]}
    BY <1>2 DEF LoginSession, TypeOK, DatabaseTypeOK
  <2> QED
    BY <2>2, <2>3, NoneIsNoRow
<1>3. ASSUME NEW r \in Requests, Step(r), ~LoginSession(r), ~LogoutDelete(r), ~ResetSweep(r)
      PROVE  FALSE
  BY <1>3 DEF Step, LoginLookup, LoginTOTP, LoginRecoveryCode, LoginFail, LoginClear,
              ForgotInsert, ForgotMail, ResetUpdate, ResetMark, ChangeRead, ChangeWrite, db
<1>4. ASSUME NEW r \in Requests, StatementFails(r) PROVE FALSE
  BY <1>4 DEF StatementFails, db
<1>5. ASSUME PurgeOldAuthFailures \/ PurgeFails \/ Crash \/ Tick \/ UNCHANGED vars PROVE FALSE
  BY <1>5 DEF PurgeOldAuthFailures, PurgeFails, Crash, Tick, vars, db
<1> QED
  BY <1>1, <1>2, <1>3, <1>4, <1>5 DEF Next, Cleanup

(* A session the look-up accepts ends by a logout with its cookie or a     *)
(* reset of its user, in every time zone: look-up and purge compare the    *)
(* same texts.                                                             *)
THEOREM SessionsEndOnRequest == Spec => LiveSessionsEndOnRequest
<1>1. ASSUME TypeOK, [Next]_vars PROVE LiveSessionLeaves
  <2> SUFFICES ASSUME NEW s \in Requests, Accepted(s), sessions'[s] = None
               PROVE  \E r \in Requests : At(r, "done")' /\
                         \/ At(r, "logout") /\ req[r].ref = s
                         \/ At(r, "sweep") /\ req[r].user = sessions[s].user
    BY DEF LiveSessionLeaves
  <2>0. sessions[s] # None /\ sessions[s].expires > now
    BY DEF Accepted
  <2>1. ASSUME NEW r \in Requests, Finish(r) PROVE At(r, "done")'
    BY <1>1, <2>1 DEF Finish, Finished, Blank, At, TypeOK, RequestTypeOK
  <2>2. ASSUME NEW r \in Requests, LogoutDelete(r)
        PROVE  At(r, "done")' /\ At(r, "logout") /\ req[r].ref = s
    BY <1>1, <2>0, <2>1, <2>2 DEF LogoutDelete, TypeOK, DatabaseTypeOK
  <2>3. ASSUME NEW r \in Requests, ResetSweep(r)
        PROVE  At(r, "done")' /\ At(r, "sweep") /\ req[r].user = sessions[s].user
    BY <2>0, <2>1, <2>3 DEF ResetSweep
  <2>4. ASSUME PurgeExpiredSessions PROVE FALSE
    <3>1. sessions[s].expires \in Int /\ now \in Int
      BY <1>1, <2>0, ParametersAssumption DEF TypeOK, DatabaseTypeOK, SessionRow, Times
    <3> QED
      BY <2>0, <2>4, <3>1 DEF PurgeExpiredSessions
  <2> QED
    BY <1>1, <2>0, <2>2, <2>3, <2>4, SessionsKept
<1> QED
  BY <1>1, AuthTypeCorrect, PTL DEF Spec, LiveSessionsEndOnRequest

(* Which steps take failures out of auth_failures.                         *)
LEMMA FailuresKept ==
  ASSUME TypeOK, [Next]_vars,
         \A r \in Requests : ~LoginClear(r), ~PurgeOldAuthFailures,
         NEW k \in Keys, NEW t \in Times
  PROVE  failures[k][t] <= failures'[k][t]
<1>0. failures[k] \in [Times -> Nat] /\ failures[k][t] \in Nat
  BY DEF TypeOK, DatabaseTypeOK
<1> DEFINE Kept == UNCHANGED failures
<1>1. ASSUME NEW r \in Requests, LoginFail(r) PROVE failures[k][t] <= failures'[k][t]
  <2> DEFINE at == <<req[r].name, req[r].ip>>
  <2>1. failures' = [failures EXCEPT ![at] = [failures[at] EXCEPT ![now] = failures[at][now] + 1]]
    BY <1>1 DEF LoginFail
  <2>2. CASE k = at
    BY <1>0, <2>1, <2>2 DEF TypeOK, DatabaseTypeOK
  <2>3. CASE k # at
    BY <1>0, <2>1, <2>3 DEF TypeOK, DatabaseTypeOK
  <2> QED
    BY <2>2, <2>3
<1>2. ASSUME NEW r \in Requests, Arrive(r) PROVE Kept
  BY <1>2 DEF Arrive, LoginArrive, LogoutArrive, ForgotArrive, ResetArrive, ChangeArrive, db
<1>3. ASSUME NEW r \in Requests, Step(r), ~LoginFail(r) PROVE Kept
  BY <1>3 DEF Step, LoginLookup, LoginTOTP, LoginRecoveryCode, LoginSession, LogoutDelete,
              ForgotInsert, ForgotMail, ResetUpdate, ResetMark, ResetSweep, ChangeRead,
              ChangeWrite, db
<1>4. ASSUME NEW r \in Requests, StatementFails(r) PROVE Kept
  BY <1>4 DEF StatementFails, db
<1>5. ASSUME PurgeExpiredSessions \/ PurgeFails \/ Crash \/ Tick \/ UNCHANGED vars PROVE Kept
  BY <1>5 DEF PurgeExpiredSessions, PurgeFails, Crash, Tick, vars, db
<1>6. Kept => failures[k][t] <= failures'[k][t]
  BY <1>0
<1> HIDE DEF Kept
<1> QED
  BY <1>1, <1>2, <1>3, <1>4, <1>5, <1>6 DEF Next, Cleanup

(* A failure that may still count for the lockout is forgotten only by a   *)
(* login that succeeds under the same name and address: the purge removes  *)
(* only rows that are older.                                               *)
THEOREM FailuresAreRemembered == Spec => FailuresRemembered
<1>1. ASSUME TypeOK, [Next]_vars PROVE FailureForgotten
  <2> SUFFICES ASSUME NEW k \in Keys, NEW t \in Times, failures'[k][t] < failures[k][t]
               PROVE  \/ t < now - LockoutDuration
                      \/ \E r \in Requests : /\ At(r, "clear") /\ At(r, "session")'
                                             /\ <<req[r].name, req[r].ip>> = k
    BY DEF FailureForgotten
  <2>0. failures[k][t] \in Nat /\ now \in Int /\ t \in Int
        /\ LockoutDuration \in Nat /\ History \in Nat /\ LockoutDuration < History
    BY <1>1, ParametersAssumption DEF TypeOK, DatabaseTypeOK, Times
  <2>1. ASSUME NEW r \in Requests, LoginClear(r)
        PROVE  At(r, "clear") /\ At(r, "session")' /\ <<req[r].name, req[r].ip>> = k
    <3>1. At(r, "clear") /\ At(r, "session")'
      BY <1>1, <2>1 DEF LoginClear, Goto, At, TypeOK, RequestTypeOK, Local
    <3>2. <<req[r].name, req[r].ip>> # k => failures'[k] = failures[k]
      BY <1>1, <2>1 DEF LoginClear, TypeOK, DatabaseTypeOK
    <3> QED
      BY <2>0, <3>1, <3>2
  <2>2. ASSUME PurgeOldAuthFailures PROVE t < now - LockoutDuration
    <3>1. failures'[k][t] = IF OlderThan(t, HistoryModifier) THEN 0 ELSE failures[k][t]
      BY <2>2 DEF PurgeOldAuthFailures
    <3>2. OlderThan(t, HistoryModifier)
      BY <2>0, <3>1
    <3>3. t < now - History
      BY <3>2 DEF OlderThan, HistoryModifier
    <3> QED
      BY <2>0, <3>3
  <2>3. CASE (\A r \in Requests : ~LoginClear(r)) /\ ~PurgeOldAuthFailures
    <3>1. failures[k][t] <= failures'[k][t]
      BY <1>1, <2>3, FailuresKept
    <3>2. failures'[k][t] \in Nat
      BY <1>1, NextTypeOK DEF TypeOK, DatabaseTypeOK
    <3> QED
      BY <2>0, <3>1, <3>2
  <2> QED
    BY <2>1, <2>2, <2>3
<1> QED
  BY <1>1, AuthTypeCorrect, PTL DEF Spec, FailuresRemembered
=============================================================================
