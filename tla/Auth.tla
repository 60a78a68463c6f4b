-------------------------------- MODULE Auth --------------------------------
(***************************************************************************)
(* Accounts of the dashboard: login, logout, forgotten-password links,     *)
(* password changes and the background cleanup, as concurrent HTTP         *)
(* handlers over one SQLite database.                                      *)
(*                                                                         *)
(* A request is a process whose steps are the SQL statements of its        *)
(* handler: everything between two statements (Argon2, TOTP, rendering) is *)
(* local, so any other request may run between two of them.  A request     *)
(* identifier is used once; it also names the session row its login        *)
(* inserts and the reset link it creates, both random in the code.         *)
(*                                                                         *)
(* The audit_log table is write-only for these handlers and is left out.   *)
(***************************************************************************)
EXTENDS Integers, FiniteSets, FiniteSetsExt, Functions

CONSTANTS
    Requests,          \* HTTP requests, each served at most once
    Users,             \* rows of the users table
    Names,             \* what can be typed as user name (name, e-mail, neither)
    AccountOf,         \* lookupUser: Names -> Users, or None
    IPs,               \* client addresses
    Passwords,
    Codes,             \* the recovery codes each user was given
    None,
    SessionDuration, ResetTokenTTL, FailureWindow, LockoutDuration, History,
    MaxFailedAttempts,
    TZOffset,          \* offset of the server's local time from UTC
    MaxTime,           \* bound: the clock stops here
    MaxFaults          \* bound: failed SQL statements plus crashes

ASSUME ParametersAssumption ==
    /\ None \notin Requests \cup Users \cup Passwords \cup Codes \cup IPs \cup Names
    /\ AccountOf \in [Names -> Users \cup {None}]
    /\ {FailureWindow, LockoutDuration, ResetTokenTTL, SessionDuration, History,
        MaxFailedAttempts} \subseteq Nat \ {0}
    /\ FailureWindow <= LockoutDuration
    /\ LockoutDuration < History
    /\ TZOffset \in Int
    /\ MaxTime \in Nat /\ MaxFaults \in Nat

VARIABLES
    now,               \* UTC clock
    faults,            \* faults so far
    password,          \* users.password_hash
    unused,            \* recovery_codes with used_at IS NULL
    failures,          \* auth_failures: rows per (name, ip) and failed_at
    sessions,          \* sessions
    resets,            \* password_resets
    mailed,            \* reset links delivered to a mailbox
    req,               \* the requests: program counter and local variables
    cleaner,           \* the cleanup goroutine
    \* history variables, read by properties only
    epoch,             \* password changes of each user so far
    cleaned,           \* epoch of the latest reset that swept the sessions
    late,              \* logins past their password check during such a sweep
    applied,           \* (link, request): the resets that changed a password
    unmarked,          \* resets cut short at the UPDATE that marks their link
    granted            \* (user, code, request): recovery codes accepted

db == <<password, unused, failures, sessions, resets>>
history == <<epoch, cleaned, late, applied, unmarked, granted>>
vars == <<now, faults, db, mailed, req, cleaner, history>>

-----------------------------------------------------------------------------
(* Time in SQL.  The driver writes a Go time.Time as local-time text, and  *)
(* CURRENT_TIMESTAMP is UTC text: comparing them compares wall clocks.     *)

Stored(t) == t + TZOffset

(* A modifier of datetime('now', m) that SQLite cannot parse makes the     *)
(* result NULL, and no row satisfies a comparison with NULL.               *)
SqliteForms == {"NNN units", "HH:MM:SS"}
NewerThan(t, m) == m.form \in SqliteForms /\ t > now - m.length
OlderThan(t, m) == m.form \in SqliteForms /\ t < now - m.length

\* time.Duration.String() yields "10m0s"
WindowModifier  == [form |-> "Go duration", length |-> FailureWindow]
HistoryModifier == [form |-> "NNN units", length |-> History]

-----------------------------------------------------------------------------
PCs == {"new", "lookup", "code", "clear", "session", "fail",
        "logout", "insert", "mail", "update", "mark", "sweep",
        "read", "write",
        "done",            \* answered
        "lost"}            \* the process died under it

Keys == Names \X IPs
Times == 0..MaxTime

SessionRow == [user: Users, created: Times, expires: Int, seen: Nat]
ResetRow   == [user: Users, created: Times, expires: Int, used: BOOLEAN]

ASSUME NoneIsNoRow == None \notin SessionRow /\ None \notin ResetRow

Local == [pc    : PCs,
          name  : Names \cup {None},         \* login: the name typed
          ip    : IPs \cup {None},
          user  : Users \cup {None},         \* the account being served
          code  : Codes \cup {None},         \* login: recovery code accepted
          ref   : Requests \cup {None},      \* session cookie or reset link
          new   : Passwords \cup {None},     \* reset, change: the new password
          epoch : Nat]                       \* login: epoch of the hash it read;
                                             \* reset: epoch of its own UPDATE

Blank == [pc |-> "new", name |-> None, ip |-> None, user |-> None,
          code |-> None, ref |-> None, new |-> None, epoch |-> 0]

Finished == [Blank EXCEPT !.pc = "done"]
Lost == [Blank EXCEPT !.pc = "lost"]

(* The locals each step relies on are set when it is reached.              *)
LocalOK(l, links) ==
    /\ l.pc \in {"lookup", "code", "clear", "session", "fail"} =>
         l.name \in Names /\ l.ip \in IPs
    /\ l.pc \in {"code", "clear", "session", "insert", "update", "mark", "sweep",
                 "read", "write"} => l.user \in Users
    /\ l.pc \in {"update", "read", "write"} => l.new \in Passwords
    /\ l.pc = "logout" => l.ref \in Requests
    /\ l.pc \in {"update", "mark"} => l.ref \in Requests /\ links[l.ref] # None

DatabaseTypeOK ==
    /\ password \in [Users -> Passwords]
    /\ unused \in [Users -> SUBSET Codes]
    /\ failures \in [Keys -> [Times -> Nat]]
    /\ sessions \in [Requests -> SessionRow \cup {None}]
    /\ resets \in [Requests -> ResetRow \cup {None}]

RequestTypeOK ==
    /\ req \in [Requests -> Local]
    /\ \A r \in Requests : LocalOK(req[r], resets)

HistoryTypeOK ==
    /\ epoch \in [Users -> Nat] /\ cleaned \in [Users -> Nat]
    /\ late \in SUBSET Requests /\ unmarked \in SUBSET Requests
    /\ applied \in SUBSET (Requests \X Requests)
    /\ granted \in SUBSET (Users \X Codes \X Requests)

TypeOK ==
    /\ now \in Times /\ faults \in 0..MaxFaults
    /\ mailed \in SUBSET Requests
    /\ cleaner \in {"idle", "sessions"}
    /\ DatabaseTypeOK
    /\ RequestTypeOK
    /\ HistoryTypeOK

Init ==
    /\ now = 0 /\ faults = 0
    /\ password \in [Users -> Passwords]
    /\ unused = [u \in Users |-> Codes]
    /\ failures = [k \in Keys |-> [t \in Times |-> 0]]
    /\ sessions = [r \in Requests |-> None]
    /\ resets = [r \in Requests |-> None]
    /\ mailed = {}
    /\ req = [r \in Requests |-> Blank]
    /\ cleaner = "idle"
    /\ epoch = [u \in Users |-> 0] /\ cleaned = [u \in Users |-> 0]
    /\ late = {} /\ applied = {} /\ unmarked = {} /\ granted = {}

At(r, pc) == req[r].pc = pc
Goto(r, pc) == req' = [req EXCEPT ![r].pc = pc]
Finish(r) == req' = [req EXCEPT ![r] = Finished]

Env == <<now, faults, cleaner>>

PastPasswordCheck(r) == req[r].pc \in {"code", "clear", "session"}

-----------------------------------------------------------------------------
(* auth.IsLockedOut, RecordLoginFailure, ClearLoginFailures                *)

FailuresInWindow(k) ==
    MapThenSumSet(LAMBDA t : failures[k][t], {t \in Times : NewerThan(t, WindowModifier)})

(* At the limit the time of the last failure is read as MAX(failed_at), a  *)
(* column without a declared type, which does not scan into a time.Time:   *)
(* the error page ends the request whatever LockoutDuration says.          *)
IsLockedOut(k) == FailuresInWindow(k) >= MaxFailedAttempts

(* POST /login: the lockout check comes first.                             *)
LoginArrive(r, name, ip) ==
    /\ At(r, "new")
    /\ IF IsLockedOut(<<name, ip>>)
         THEN Finish(r)
         ELSE req' = [req EXCEPT ![r].pc = "lookup", ![r].name = name, ![r].ip = ip]
    /\ UNCHANGED <<Env, db, mailed, history>>

\* slip: the account is not carried over to the next steps
LoginLookupForgetsUser(r, pw) ==
    /\ At(r, "lookup")
    /\ Goto(r, IF pw = password[AccountOf[req[r].name]] THEN "code" ELSE "fail")
    /\ UNCHANGED <<Env, db, mailed, history>>

(* lookupUser, then VerifyPassword on the hash that was read.              *)
LoginLookup(r, pw) ==
    /\ At(r, "lookup")
    /\ LET u == AccountOf[req[r].name] IN
         IF u # None /\ pw = password[u]
           THEN req' = [req EXCEPT ![r].pc = "code", ![r].user = u,
                                    ![r].epoch = epoch[u]]
           ELSE Goto(r, "fail")
    /\ UNCHANGED <<Env, db, mailed, history>>

(* A six-digit code is checked against the confirmed TOTP secret, which    *)
(* these handlers never write.                                             *)
LoginTOTP(r) ==
    /\ At(r, "code")
    /\ \E ok \in BOOLEAN : Goto(r, IF ok THEN "clear" ELSE "fail")
    /\ UNCHANGED <<Env, db, mailed, history>>

\* slip: the UPDATE lacks "used_at IS NULL"
LoginRecoveryCodeTwice(r, c) ==
    /\ At(r, "code")
    /\ unused' = [unused EXCEPT ![req[r].user] = @ \ {c}]
    /\ granted' = granted \cup {<<req[r].user, c, r>>}
    /\ req' = [req EXCEPT ![r].pc = "clear", ![r].code = c]
    /\ UNCHANGED <<Env, password, failures, sessions, resets, mailed, epoch, cleaned, late, applied, unmarked>>

(* consumeRecoveryCode: one UPDATE ... WHERE used_at IS NULL; the number of *)
(* rows it changed decides.                                                *)
LoginRecoveryCode(r, c) ==
    /\ At(r, "code")
    /\ LET u == req[r].user IN
         IF c \in unused[u]
           THEN /\ unused' = [unused EXCEPT ![u] = @ \ {c}]
                /\ granted' = granted \cup {<<u, c, r>>}
                /\ req' = [req EXCEPT ![r].pc = "clear", ![r].code = c]
           ELSE /\ Goto(r, "fail")
                /\ UNCHANGED <<unused, granted>>
    /\ UNCHANGED <<Env, password, failures, sessions, resets, mailed, epoch, cleaned, late, applied, unmarked>>

LoginFail(r) ==
    /\ At(r, "fail")
    /\ failures' = [failures EXCEPT ![<<req[r].name, req[r].ip>>][now] = @ + 1]
    /\ Finish(r)
    /\ UNCHANGED <<Env, password, unused, sessions, resets, mailed, history>>

LoginClear(r) ==
    /\ At(r, "clear")
    /\ failures' = [failures EXCEPT ![<<req[r].name, req[r].ip>>] = [t \in Times |-> 0]]
    /\ Goto(r, "session")
    /\ UNCHANGED <<Env, password, unused, sessions, resets, mailed, history>>

(* CreateSession, the cookie and the redirect.                             *)
LoginSession(r) ==
    /\ At(r, "session")
    /\ sessions' = [sessions EXCEPT ![r] =
           [user |-> req[r].user, created |-> now,
            expires |-> Stored(now + SessionDuration), seen |-> req[r].epoch]]
    /\ Finish(r)
    /\ UNCHANGED <<Env, password, unused, failures, resets, mailed, history>>

-----------------------------------------------------------------------------
(* auth.LookupSession: what a cookie is worth.                             *)
Accepted(s) == sessions[s] # None /\ sessions[s].expires > now

(* POST /logout: look the session up, then delete its row.                 *)
LogoutArrive(r, s) ==
    /\ At(r, "new")
    /\ IF Accepted(s)
         THEN req' = [req EXCEPT ![r].pc = "logout", ![r].ref = s]
         ELSE Finish(r)
    /\ UNCHANGED <<Env, db, mailed, history>>

LogoutDelete(r) ==
    /\ At(r, "logout")
    /\ sessions' = [sessions EXCEPT ![req[r].ref] = None]
    /\ Finish(r)
    /\ UNCHANGED <<Env, password, unused, failures, resets, mailed, history>>

-----------------------------------------------------------------------------
(* POST /forgot: find the account (and SMTP settings), insert the link,    *)
(* mail it.  An unknown name or disabled SMTP changes nothing.             *)
ForgotArrive(r, name) ==
    /\ At(r, "new")
    /\ AccountOf[name] # None
    /\ req' = [req EXCEPT ![r].pc = "insert", ![r].user = AccountOf[name]]
    /\ UNCHANGED <<Env, db, mailed, history>>

ForgotInsert(r) ==
    /\ At(r, "insert")
    /\ resets' = [resets EXCEPT ![r] =
           [user |-> req[r].user, created |-> now,
            expires |-> Stored(now + ResetTokenTTL), used |-> FALSE]]
    /\ Goto(r, "mail")
    /\ UNCHANGED <<Env, password, unused, failures, sessions, mailed, history>>

ForgotMail(r) ==
    /\ At(r, "mail")
    /\ mailed' \in {mailed, mailed \cup {r}}
    /\ Finish(r)
    /\ UNCHANGED <<Env, db, history>>

-----------------------------------------------------------------------------
(* lookupResetToken *)
LinkValid(t) == resets[t] # None /\ ~resets[t].used /\ resets[t].expires > now

(* POST /reset/{token} with a well-formed form; any other form changes     *)
(* nothing.                                                                *)
ResetArrive(r, t, new) ==
    /\ At(r, "new")
    /\ t \in mailed
    /\ IF LinkValid(t)
         THEN req' = [req EXCEPT ![r].pc = "update", ![r].ref = t,
                                 ![r].user = resets[t].user, ![r].new = new]
         ELSE Finish(r)
    /\ UNCHANGED <<Env, db, mailed, history>>

\* slip: the link is not marked
ResetUpdateOnly(r) ==
    /\ At(r, "update")
    /\ LET u == req[r].user IN
         /\ password' = [password EXCEPT ![u] = req[r].new]
         /\ epoch' = [epoch EXCEPT ![u] = @ + 1]
         /\ req' = [req EXCEPT ![r].pc = "sweep", ![r].epoch = epoch[u] + 1]
    /\ applied' = applied \cup {<<req[r].ref, r>>}
    /\ UNCHANGED <<Env, unused, failures, sessions, resets, mailed, cleaned, late, unmarked, granted>>

ResetUpdate(r) ==
    /\ At(r, "update")
    /\ LET u == req[r].user IN
         /\ password' = [password EXCEPT ![u] = req[r].new]
         /\ epoch' = [epoch EXCEPT ![u] = @ + 1]
         /\ req' = [req EXCEPT ![r].pc = "mark", ![r].epoch = epoch[u] + 1]
    /\ applied' = applied \cup {<<req[r].ref, r>>}
    /\ UNCHANGED <<Env, unused, failures, sessions, resets, mailed, cleaned, late, unmarked, granted>>

ResetMark(r) ==
    /\ At(r, "mark")
    /\ resets' = [resets EXCEPT ![req[r].ref].used = TRUE]
    /\ Goto(r, "sweep")
    /\ UNCHANGED <<Env, password, unused, failures, sessions, mailed, history>>

\* slip: only expired sessions are deleted
ResetSweepExpired(r) ==
    /\ At(r, "sweep")
    /\ LET u == req[r].user IN
         /\ sessions' = [s \in Requests |->
                IF sessions[s] # None /\ sessions[s].user = u /\ sessions[s].expires <= now
                  THEN None ELSE sessions[s]]
         /\ cleaned' = [cleaned EXCEPT ![u] = IF @ < req[r].epoch THEN req[r].epoch ELSE @]
         /\ late' = late \cup {q \in Requests : PastPasswordCheck(q) /\ req[q].user = u}
    /\ Finish(r)
    /\ UNCHANGED <<Env, password, unused, failures, resets, mailed, epoch, applied, unmarked, granted>>

(* DELETE FROM sessions WHERE user_id = ?                                  *)
ResetSweep(r) ==
    /\ At(r, "sweep")
    /\ LET u == req[r].user IN
         /\ sessions' = [s \in Requests |->
                IF sessions[s] # None /\ sessions[s].user = u THEN None ELSE sessions[s]]
         /\ cleaned' = [cleaned EXCEPT ![u] = IF @ < req[r].epoch THEN req[r].epoch ELSE @]
         /\ late' = late \cup {q \in Requests : PastPasswordCheck(q) /\ req[q].user = u}
    /\ Finish(r)
    /\ UNCHANGED <<Env, password, unused, failures, resets, mailed, epoch, applied, unmarked, granted>>

-----------------------------------------------------------------------------
(* POST /settings/password behind RequireAuth: session lookup, then read   *)
(* and verify the current password, then write the new one.  Sessions are  *)
(* left alone.                                                             *)
ChangeArrive(r, s, new) ==
    /\ At(r, "new")
    /\ IF Accepted(s)
         THEN req' = [req EXCEPT ![r].pc = "read", ![r].user = sessions[s].user,
                                 ![r].new = new]
         ELSE Finish(r)
    /\ UNCHANGED <<Env, db, mailed, history>>

ChangeRead(r, current) ==
    /\ At(r, "read")
    /\ IF current = password[req[r].user] THEN Goto(r, "write") ELSE Finish(r)
    /\ UNCHANGED <<Env, db, mailed, history>>

ChangeWrite(r) ==
    /\ At(r, "write")
    /\ LET u == req[r].user IN
         /\ password' = [password EXCEPT ![u] = req[r].new]
         /\ epoch' = [epoch EXCEPT ![u] = @ + 1]
    /\ Finish(r)
    /\ UNCHANGED <<Env, unused, failures, sessions, resets, mailed, cleaned, late, applied, unmarked, granted>>

-----------------------------------------------------------------------------
\* slip: every attempt before now is purged
PurgeAllAuthFailures ==
    /\ cleaner = "idle"
    /\ failures' = [k \in Keys |-> [t \in Times |-> IF t < now THEN 0 ELSE failures[k][t]]]
    /\ cleaner' = "sessions"
    /\ UNCHANGED <<now, faults, password, unused, sessions, resets, mailed, req, history>>

\* slip: the goroutine returns to the ticker after its first statement
PurgeAuthFailuresOnly ==
    /\ cleaner = "idle"
    /\ failures' = [k \in Keys |-> [t \in Times |->
           IF OlderThan(t, HistoryModifier) THEN 0 ELSE failures[k][t]]]
    /\ cleaner' = "idle"
    /\ UNCHANGED <<now, faults, password, unused, sessions, resets, mailed, req, history>>

(* startBackgroundCleanup: every five minutes, two statements.             *)
PurgeOldAuthFailures ==
    /\ cleaner = "idle"
    /\ failures' = [k \in Keys |-> [t \in Times |->
           IF OlderThan(t, HistoryModifier) THEN 0 ELSE failures[k][t]]]
    /\ cleaner' = "sessions"
    /\ UNCHANGED <<now, faults, password, unused, sessions, resets, mailed, req, history>>

\* slip: sessions about to expire are purged too
PurgeExpiringSessions ==
    /\ cleaner = "sessions"
    /\ sessions' = [s \in Requests |->
           IF sessions[s] # None /\ sessions[s].expires <= now + 1 THEN None ELSE sessions[s]]
    /\ cleaner' = "idle"
    /\ UNCHANGED <<now, faults, password, unused, failures, resets, mailed, req, history>>

PurgeExpiredSessions ==
    /\ cleaner = "sessions"
    /\ sessions' = [s \in Requests |->
           IF sessions[s] # None /\ sessions[s].expires <= now THEN None ELSE sessions[s]]
    /\ cleaner' = "idle"
    /\ UNCHANGED <<now, faults, password, unused, failures, resets, mailed, req, history>>

-----------------------------------------------------------------------------
(* What a handler does when the statement it is at fails: most give up, a  *)
(* failed user or code lookup counts as a failed login, and three errors   *)
(* are only logged or dropped.                                             *)
OnError == [pc \in PCs \ {"new", "mail", "done", "lost"} |->
    CASE pc \in {"lookup", "code"} -> "fail"
      [] pc = "clear" -> "session"
      [] pc = "mark" -> "sweep"
      [] OTHER -> "done"]

StatementFails(r) ==
    /\ faults < MaxFaults
    /\ req[r].pc \in DOMAIN OnError
    /\ IF OnError[req[r].pc] = "done" THEN Finish(r) ELSE Goto(r, OnError[req[r].pc])
    /\ faults' = faults + 1
    /\ unmarked' = IF At(r, "mark") THEN unmarked \cup {r} ELSE unmarked
    /\ UNCHANGED <<now, cleaner, db, mailed, epoch, cleaned, late, applied, granted>>

PurgeFails ==
    /\ faults < MaxFaults
    /\ cleaner' = IF cleaner = "idle" THEN "sessions" ELSE "idle"
    /\ faults' = faults + 1
    /\ UNCHANGED <<now, db, mailed, req, history>>

(* The process dies and is restarted: the database stays, the requests in  *)
(* flight are lost.                                                        *)
Crash ==
    /\ faults < MaxFaults
    /\ req' = [r \in Requests |->
                 IF req[r].pc \in {"new", "done", "lost"} THEN req[r] ELSE Lost]
    /\ cleaner' = "idle"
    /\ faults' = faults + 1
    /\ unmarked' = unmarked \cup {r \in Requests : At(r, "mark")}
    /\ UNCHANGED <<now, db, mailed, epoch, cleaned, late, applied, granted>>

Tick ==
    /\ now < MaxTime
    /\ now' = now + 1
    /\ UNCHANGED <<faults, db, mailed, req, cleaner, history>>

-----------------------------------------------------------------------------
(* The step request r takes next, once it is being served.                 *)
Step(r) ==
    \/ \E pw \in Passwords : LoginLookup(r, pw)
    \/ LoginTOTP(r)
    \/ \E c \in Codes : LoginRecoveryCode(r, c)
    \/ LoginFail(r) \/ LoginClear(r) \/ LoginSession(r)
    \/ LogoutDelete(r)
    \/ ForgotInsert(r) \/ ForgotMail(r)
    \/ ResetUpdate(r) \/ ResetMark(r) \/ ResetSweep(r)
    \/ \E pw \in Passwords : ChangeRead(r, pw)
    \/ ChangeWrite(r)

Arrive(r) ==
    \/ \E name \in Names, ip \in IPs : LoginArrive(r, name, ip)
    \/ \E s \in Requests : LogoutArrive(r, s)
    \/ \E name \in Names : ForgotArrive(r, name)
    \/ \E t \in Requests, pw \in Passwords : ResetArrive(r, t, pw)
    \/ \E s \in Requests, pw \in Passwords : ChangeArrive(r, s, pw)

Cleanup == PurgeOldAuthFailures \/ PurgeExpiredSessions

Next ==
    \/ \E r \in Requests : Arrive(r) \/ Step(r) \/ StatementFails(r)
    \/ Cleanup \/ PurgeFails
    \/ Crash
    \/ Tick

Spec == Init /\ [][Next]_vars

(* The ticker goroutine runs for as long as the process and its two local  *)
(* statements return.  Nothing is assumed of the requests (sending a mail  *)
(* has no deadline), of arrivals, failures or the clock.                   *)
FairSpec == Spec /\ WF_vars(Cleanup)

-----------------------------------------------------------------------------
(* Properties                                                              *)

(* A password that a finished reset replaced opens no more doors: the      *)
(* sessions it had opened are gone (reset.go, "Invalidate every existing   *)
(* session"), and one opened later belongs to a login that was already     *)
(* past its password check when the reset swept the table.                 *)
ReplacedPasswordIsDead ==
    \A s \in Requests : sessions[s] # None =>
        (sessions[s].seen < cleaned[sessions[s].user] => s \in late)

(* A reset link that has changed a password is marked used, or the reset   *)
(* that used it is about to mark it, or that very reset was cut short      *)
(* there (the UPDATE failed, or the process died): no failure or death     *)
(* elsewhere, and no other reset, leaves a spent link usable.              *)
SpentLinkIsMarked ==
    \A a \in applied :
        \/ resets[a[1]] # None /\ resets[a[1]].used
        \/ At(a[2], "mark") /\ req[a[2]].ref = a[1]
        \/ a[2] \in unmarked

(* A session that LookupSession accepts leaves the table only through a    *)
(* logout with its cookie or a reset of its user, whatever the time zone:  *)
(* the purge never deletes a live one.                                     *)
LiveSessionLeaves ==
    \A s \in Requests : Accepted(s) /\ sessions'[s] = None =>
        \E r \in Requests : At(r, "done")' /\
            \/ At(r, "logout") /\ req[r].ref = s
            \/ At(r, "sweep") /\ req[r].user = sessions[s].user

LiveSessionsEndOnRequest == [][LiveSessionLeaves]_vars

(* A failed attempt recent enough to count for the lockout is forgotten    *)
(* only by a successful login under the same name and address.             *)
FailureForgotten ==
    \A k \in Keys, t \in Times : failures'[k][t] < failures[k][t] =>
        \/ t < now - LockoutDuration
        \/ \E r \in Requests : /\ At(r, "clear") /\ At(r, "session")'
                               /\ <<req[r].name, req[r].ip>> = k

FailuresRemembered == [][FailureForgotten]_vars

(* consumeRecoveryCode accepts a code for one login, ever, however many    *)
(* logins present it at the same time and wherever they crash.             *)
RecoveryCodes == INSTANCE OneShot WITH
    Secrets <- Users \X Codes,
    Holders <- Requests,
    issued <- Users \X Codes,
    live <- {uc \in Users \X Codes : uc[2] \in unused[uc[1]]},
    accepted <- {<<<<g[1], g[2]>>, g[3]>> : g \in granted}

RecoveryCodesAreOneShot == RecoveryCodes!OneShotSpec

(* A session that has expired is removed from the table.                   *)
ExpiredSessionsAreCollected ==
    \A s \in Requests :
        (sessions[s] # None /\ sessions[s].expires <= now) ~> sessions[s] = None

(* ratelimit.go: "IsLockedOut returns true if (username, ip) has had       *)
(* MaxFailedAttempts within FailureWindow": no login passes the check then. *)
LockoutEngages ==
    [][\A r \in Requests, k \in Keys :
          (/\ At(r, "new") /\ At(r, "lookup")'
           /\ <<req'[r].name, req'[r].ip>> = k) =>
          MapThenSumSet(LAMBDA t : failures[k][t],
                        {t \in Times : t > now - FailureWindow}) < MaxFailedAttempts]_vars

(* reset.go, the mail: "Open this link to choose a new password (valid for *)
(* 1 hour)".                                                               *)
LinkIsValidForOneHour ==
    \A t \in mailed : resets[t].used \/
        (LinkValid(t) <=> now < resets[t].created + ResetTokenTTL)
=============================================================================
