------------------------------ MODULE Passkey -------------------------------
(***************************************************************************)
(* Passkeys: the WebAuthn ceremonies that register a credential and log a  *)
(* user in with it.                                                        *)
(*                                                                         *)
(* A ceremony begun by a request waits in one of two maps of the process,  *)
(* guarded by a mutex; credentials are rows of the database.  A request is *)
(* used once and moves one statement, or one hold of the mutex, at a time. *)
(* It names the challenge (and cookie token) it begins, and a credential   *)
(* is named after the ceremony that created it: all are random in the      *)
(* code.  Which account a registered caller acts for is Auth's business.   *)
(***************************************************************************)
EXTENDS Integers, FiniteSets, FiniteSetsExt

CONSTANTS
    Requests,
    Users,
    Enrolled,          \* credentials registered earlier
    None,
    PendingTTL,
    MaxTime,           \* bound: the clock stops here
    MaxFaults          \* bound: failed statements plus restarts

ASSUME PasskeyAssumption ==
    /\ None \notin Requests \cup Users \cup Enrolled
    /\ Requests \cap Enrolled = {}
    /\ PendingTTL \in Nat /\ MaxTime \in Nat /\ MaxFaults \in Nat

VARIABLES
    now, faults,
    pending,           \* registrations begun: one per user, or None
    pendingLogin,      \* logins begun: when each challenge was issued, or None
    creds,             \* webauthn_credentials
    counter,           \* signature counter kept by each authenticator
    answers,           \* the assertion a browser made for a login challenge
    attested,          \* the user an authenticator made each credential for, or None
    sessions,          \* the credential behind each session a login created
    req,               \* the requests
    \* history variables, read by properties only
    begun,             \* challenges issued so far
    taken,             \* (challenge, request): ceremonies that were accepted
    late               \* (credential, request): past the look-up when deleted

memory == <<pending, pendingLogin>>
devices == <<counter, answers, attested>>
history == <<begun, taken, late>>
vars == <<now, faults, memory, creds, devices, sessions, req, history>>

PCs == {"new", "begin", "claim", "insert", "take", "load", "owner",
        "update", "session", "done"}

Times == 0..MaxTime
Credentials == Requests \cup Enrolled
Ceremony == [challenge: Requests, created: Times]
Row == [user: Users, count: Nat]
Answer == [cred: Credentials, count: Nat]

ASSUME NoneIsNoRecord == None \notin Ceremony \cup Row \cup Answer \cup Times

Local == [pc   : PCs,
          user : Users \cup {None},
          ref  : Requests \cup {None},     \* the challenge being answered
          cred : Credentials \cup {None},  \* login: the credential used
          count: Nat]                      \* login: the sign count to store

Blank == [pc |-> "new", user |-> None, ref |-> None, cred |-> None, count |-> 0]
Finished == [Blank EXCEPT !.pc = "done"]

(* The locals each step relies on are set when it is reached.              *)
LocalOK(l) ==
    /\ l.pc \in {"begin", "claim", "insert"} => l.user \in Users
    /\ l.pc \in {"claim", "insert", "take", "load"} => l.ref \in Requests
    /\ l.pc \in {"take", "load"} => answers[l.ref] # None
    /\ l.pc \in {"load", "owner", "update", "session"} => l.cred \in Credentials

RequestTypeOK ==
    /\ req \in [Requests -> Local]
    /\ \A r \in Requests : LocalOK(req[r])

MemoryTypeOK ==
    /\ now \in Times /\ faults \in 0..MaxFaults
    /\ pending \in [Users -> Ceremony \cup {None}]
    /\ pendingLogin \in [Requests -> Times \cup {None}]

StoreTypeOK ==
    /\ creds \in [Credentials -> Row \cup {None}]
    /\ counter \in [Credentials -> Nat]
    /\ answers \in [Requests -> Answer \cup {None}]
    /\ attested \in [Credentials -> Users \cup {None}]
    /\ sessions \in [Requests -> Credentials \cup {None}]

HistoryTypeOK ==
    /\ begun \in SUBSET Requests
    /\ taken \in SUBSET (Requests \X Requests)
    /\ late \in SUBSET (Credentials \X Requests)

PasskeyTypeOK == MemoryTypeOK /\ StoreTypeOK /\ RequestTypeOK /\ HistoryTypeOK

Init ==
    /\ now = 0 /\ faults = 0
    /\ pending = [u \in Users |-> None]
    /\ pendingLogin = [r \in Requests |-> None]
    /\ attested \in [Credentials -> Users \cup {None}]
    /\ \A c \in Credentials : attested[c] # None <=> c \in Enrolled
    /\ creds = [c \in Credentials |->
           IF c \in Enrolled THEN [user |-> attested[c], count |-> 0] ELSE None]
    /\ counter = [c \in Credentials |-> 0]
    /\ answers = [r \in Requests |-> None]
    /\ sessions = [r \in Requests |-> None]
    /\ req = [r \in Requests |-> Blank]
    /\ begun = {} /\ taken = {} /\ late = {}

At(r, pc) == req[r].pc = pc
Goto(r, pc) == req' = [req EXCEPT ![r].pc = pc]
Finish(r) == req' = [req EXCEPT ![r] = Finished]

Env == <<now, faults>>

-----------------------------------------------------------------------------
(* BeginRegister: loadUser, then the entry of the user is overwritten.     *)
BeginRegisterArrive(r, u) ==
    /\ At(r, "new")
    /\ req' = [req EXCEPT ![r].pc = "begin", ![r].user = u]
    /\ UNCHANGED <<Env, memory, creds, devices, sessions, history>>

BeginRegister(r) ==
    /\ At(r, "begin")
    /\ pending' = [pending EXCEPT ![req[r].user] = [challenge |-> r, created |-> now]]
    /\ begun' = begun \cup {r}
    /\ attested' = [attested EXCEPT ![r] = req[r].user]
    /\ Finish(r)
    /\ UNCHANGED <<Env, pendingLogin, creds, counter, answers, sessions, taken, late>>

(* FinishRegister, with the attestation made for challenge t: loadUser,    *)
(* then take whatever entry the user has.                                  *)
FinishRegisterArrive(r, t) ==
    /\ At(r, "new")
    /\ attested[t] # None
    /\ req' = [req EXCEPT ![r].pc = "claim", ![r].user = attested[t], ![r].ref = t]
    /\ UNCHANGED <<Env, memory, creds, devices, sessions, history>>

Fresh(created) == now - created <= PendingTTL

\* slip: the entry is read but not deleted
ClaimAndKeep(r) ==
    /\ At(r, "claim")
    /\ LET ps == pending[req[r].user] IN
         IF ps # None /\ ps.challenge = req[r].ref /\ Fresh(ps.created)
           THEN /\ Goto(r, "insert")
                /\ taken' = taken \cup {<<req[r].ref, r>>}
           ELSE Finish(r) /\ UNCHANGED taken
    /\ UNCHANGED <<Env, memory, creds, devices, sessions, begun, late>>

(* The entry is gone whatever comes next; an attestation for another       *)
(* challenge does not verify.                                              *)
Claim(r) ==
    /\ At(r, "claim")
    /\ LET ps == pending[req[r].user] IN
         /\ IF ps # None /\ ps.challenge = req[r].ref /\ Fresh(ps.created)
              THEN /\ Goto(r, "insert")
                   /\ taken' = taken \cup {<<req[r].ref, r>>}
              ELSE Finish(r) /\ UNCHANGED taken
         /\ pending' = [pending EXCEPT ![req[r].user] = None]
    /\ UNCHANGED <<Env, pendingLogin, creds, devices, sessions, begun, late>>

InsertCredential(r) ==
    /\ At(r, "insert")
    /\ creds' = [creds EXCEPT ![req[r].ref] =
           [user |-> req[r].user, count |-> 0]]
    /\ Finish(r)
    /\ UNCHANGED <<Env, memory, devices, sessions, history>>

-----------------------------------------------------------------------------
(* BeginLogin *)
BeginLogin(r) ==
    /\ At(r, "new")
    /\ pendingLogin' = [pendingLogin EXCEPT ![r] = now]
    /\ begun' = begun \cup {r}
    /\ Finish(r)
    /\ UNCHANGED <<Env, pending, creds, devices, sessions, taken, late>>

(* The browser: the user picks a credential, its authenticator signs the   *)
(* challenge.  Authenticators count their signatures, or always report 0.  *)
Sign(t, c) ==
    /\ t \in begun /\ attested[t] = None /\ answers[t] = None
    /\ attested[c] # None
    /\ \E n \in {0, counter[c] + 1} :
         /\ n = 0 => counter[c] = 0
         /\ counter' = [counter EXCEPT ![c] = n]
         /\ answers' = [answers EXCEPT ![t] = [cred |-> c, count |-> n]]
    /\ UNCHANGED <<Env, memory, creds, attested, sessions, req, history>>

(* FinishLogin with the cookie of t and the assertion made for it, which   *)
(* a browser may well submit twice.                                        *)
FinishLoginArrive(r, t) ==
    /\ At(r, "new")
    /\ answers[t] # None
    /\ req' = [req EXCEPT ![r].pc = "take", ![r].ref = t]
    /\ UNCHANGED <<Env, memory, creds, devices, sessions, history>>

\* slip: the user handle of the assertion is not resolved to a credential
TakeUnresolved(r) ==
    /\ At(r, "take")
    /\ LET t == req[r].ref IN
         /\ IF pendingLogin[t] # None /\ Fresh(pendingLogin[t])
              THEN Goto(r, "load") /\ taken' = taken \cup {<<t, r>>}
              ELSE Finish(r) /\ UNCHANGED taken
         /\ pendingLogin' = [pendingLogin EXCEPT ![t] = None]
    /\ UNCHANGED <<Env, pending, creds, devices, sessions, begun, late>>

TakeLogin(r) ==
    /\ At(r, "take")
    /\ LET t == req[r].ref IN
         /\ IF pendingLogin[t] # None /\ Fresh(pendingLogin[t])
              THEN /\ req' = [req EXCEPT ![r].pc = "load", ![r].cred = answers[t].cred]
                   /\ taken' = taken \cup {<<t, r>>}
              ELSE Finish(r) /\ UNCHANGED taken
         /\ pendingLogin' = [pendingLogin EXCEPT ![t] = None]
    /\ UNCHANGED <<Env, pending, creds, devices, sessions, begun, late>>

\* slip: the count is advanced also when the authenticator does not count
VerifiedAlways(stored, presented) == IF presented > stored THEN presented ELSE stored + 1

(* The library verifies the assertion with the row just loaded.  A count   *)
(* that does not advance raises a clone warning, which the caller ignores, *)
(* and leaves the stored count as it was.                                  *)
Verified(stored, presented) == IF presented > stored THEN presented ELSE stored

LoadUser(r) ==
    /\ At(r, "load")
    /\ LET c == req[r].cred IN
         IF creds[c] # None
           THEN req' = [req EXCEPT ![r].pc = "owner",
                    ![r].count = Verified(creds[c].count, answers[req[r].ref].count)]
           ELSE Finish(r)
    /\ UNCHANGED <<Env, memory, creds, devices, sessions, history>>

\* slip: the user handle of the assertion is trusted instead
OwnerUnchecked(r) ==
    /\ At(r, "owner")
    /\ Goto(r, "update")
    /\ UNCHANGED <<Env, memory, creds, devices, sessions, history>>

(* SELECT user_id FROM webauthn_credentials WHERE credential_id = ?        *)
LookUpOwner(r) ==
    /\ At(r, "owner")
    /\ IF creds[req[r].cred] # None THEN Goto(r, "update") ELSE Finish(r)
    /\ UNCHANGED <<Env, memory, creds, devices, sessions, history>>

(* An UPDATE of a row that is gone changes nothing and is no error.        *)
UpdateSignCount(r) ==
    /\ At(r, "update")
    /\ LET c == req[r].cred IN
         creds' = IF creds[c] = None THEN creds ELSE [creds EXCEPT ![c].count = req[r].count]
    /\ Goto(r, "session")
    /\ UNCHANGED <<Env, memory, devices, sessions, history>>

CreateSession(r) ==
    /\ At(r, "session")
    /\ sessions' = [sessions EXCEPT ![r] = req[r].cred]
    /\ Finish(r)
    /\ UNCHANGED <<Env, memory, creds, devices, history>>

-----------------------------------------------------------------------------
(* DELETE ... WHERE id = ? AND user_id = ?                                 *)
DeleteCredential(r, c, u) ==
    /\ At(r, "new")
    /\ creds[c] # None
    /\ IF creds[c].user = u
         THEN /\ creds' = [creds EXCEPT ![c] = None]
              /\ late' = late \cup {<<c, q>> : q \in
                     {x \in Requests : \/ sessions[x] = c
                                       \/ At(x, "update") /\ req[x].cred = c
                                       \/ At(x, "session") /\ req[x].cred = c}}
         ELSE UNCHANGED <<creds, late>>
    /\ Finish(r)
    /\ UNCHANGED <<Env, memory, devices, sessions, begun, taken>>

Stale(created) == created < now - PendingTTL

\* slip: only registrations are swept
SweepRegistrations ==
    /\ pending' = [u \in Users |->
           IF pending[u] # None /\ Stale(pending[u].created) THEN None ELSE pending[u]]
    /\ UNCHANGED <<Env, pendingLogin, creds, devices, sessions, req, history>>

SweepPending ==
    /\ pending' = [u \in Users |->
           IF pending[u] # None /\ Stale(pending[u].created) THEN None ELSE pending[u]]
    /\ pendingLogin' = [t \in Requests |->
           IF pendingLogin[t] # None /\ Stale(pendingLogin[t]) THEN None ELSE pendingLogin[t]]
    /\ UNCHANGED <<Env, creds, devices, sessions, req, history>>

-----------------------------------------------------------------------------
(* A failing statement ends the handler, except that a failed update of    *)
(* the sign count is only logged.                                          *)
StatementFails(r) ==
    /\ faults < MaxFaults
    /\ req[r].pc \in {"begin", "claim", "insert", "load", "owner", "update", "session"}
    /\ IF At(r, "update") THEN Goto(r, "session") ELSE Finish(r)
    /\ faults' = faults + 1
    /\ UNCHANGED <<now, memory, creds, devices, sessions, history>>

(* A restart loses the pending ceremonies and the requests in flight.      *)
Restart ==
    /\ faults < MaxFaults
    /\ pending' = [u \in Users |-> None]
    /\ pendingLogin' = [t \in Requests |-> None]
    /\ req' = [r \in Requests |-> IF At(r, "new") THEN req[r] ELSE Finished]
    /\ faults' = faults + 1
    /\ UNCHANGED <<now, creds, devices, sessions, history>>

Tick ==
    /\ now < MaxTime
    /\ now' = now + 1
    /\ UNCHANGED <<faults, memory, creds, devices, sessions, req, history>>

Arrive(r) ==
    \/ \E u \in Users : BeginRegisterArrive(r, u)
    \/ \E t \in Requests : FinishRegisterArrive(r, t)
    \/ BeginLogin(r)
    \/ \E t \in Requests : FinishLoginArrive(r, t)
    \/ \E c \in Credentials, u \in Users : DeleteCredential(r, c, u)

Step(r) ==
    \/ BeginRegister(r)
    \/ Claim(r) \/ InsertCredential(r)
    \/ TakeLogin(r) \/ LoadUser(r) \/ LookUpOwner(r)
    \/ UpdateSignCount(r) \/ CreateSession(r)

Next ==
    \/ \E r \in Requests : Arrive(r) \/ Step(r) \/ StatementFails(r)
    \/ \E t \in Requests, c \in Credentials : Sign(t, c)
    \/ SweepPending
    \/ Restart
    \/ Tick

Spec == Init /\ [][Next]_vars

(* The ticker never stops; of the handlers nothing is assumed.             *)
FairSpec == Spec /\ WF_vars(SweepPending)

-----------------------------------------------------------------------------
(* Properties                                                              *)

(* A ceremony is accepted for one request at most, however many present    *)
(* an answer to it; a ceremony that a new registration of the same user    *)
(* replaced, that was swept, or that a restart lost, for none.             *)
Ceremonies == INSTANCE OneShot WITH
    Secrets <- Requests,
    Holders <- Requests,
    issued <- begun,
    live <- {t \in Requests : \/ pendingLogin[t] # None
                              \/ \E u \in Users : /\ pending[u] # None
                                                  /\ pending[u].challenge = t},
    accepted <- taken

CeremoniesAreOneShot == Ceremonies!OneShotSpec

(* A deleted passkey opens no more sessions, except for a login that had   *)
(* already looked its row up.                                              *)
DeletedCredentialIsDead ==
    \A r \in Requests : sessions[r] # None =>
        creds[sessions[r]] # None \/ <<sessions[r], r>> \in late

(* A ceremony nobody finishes does not stay in memory for ever.            *)
AbandonedCeremoniesAreSwept ==
    /\ \A t \in Requests :
          (pendingLogin[t] # None /\ Stale(pendingLogin[t])) ~> pendingLogin[t] = None
    /\ \A u \in Users :
          (pending[u] # None /\ Stale(pending[u].created)) ~>
              (pending[u] = None \/ ~Stale(pending[u].created))

(* The sign count of a credential is one its authenticator has reported:   *)
(* a count ahead of it would have the next honest login taken for a clone. *)
StoredCountWasReported ==
    \A c \in Credentials : creds[c] # None => creds[c].count <= counter[c]
=============================================================================
