-------------------------------- MODULE Setup -------------------------------
(***************************************************************************)
(* The first-run wizard over Boot: admin user with TOTP and recovery       *)
(* codes, SMTP, Headscale, and the setup_complete flag that closes it.     *)
(*                                                                         *)
(* As in Auth, a request is used once and moves one SQL statement at a     *)
(* time; the user row a request inserts is named after the request.        *)
(* Malformed forms, which change nothing, are left out.                    *)
(***************************************************************************)
EXTENDS Boot

CONSTANTS
    Requests,
    Names,         \* user names (with their e-mail): both columns are UNIQUE
    None,
    MaxFaults      \* bound: failed SQL statements

ASSUME SetupAssumption == None \notin Requests \cup Names /\ MaxFaults \in Nat

VARIABLES
    admins,        \* users: the name each request inserted, or None
    totp,          \* totp_secrets per user: "none", "pending", "confirmed"
    coded,         \* users whose recovery codes are stored
    settings,      \* settings keys written by the wizard
    cookies,       \* setup cookies handed out: <<user, key>>
    wiz,           \* the requests
    faults,
    cut            \* history: requests stopped half-way by an error or an exit

wizardVars == <<admins, totp, coded, settings, cookies, wiz, faults, cut>>
setupVars == <<bootVars, wizardVars>>

WizardPCs == {"new", "count", "insert", "totp", "codes", "reply",
              "pending", "confirm", "smtp", "test", "save", "finish", "done"}

SetupTypeOK ==
    /\ BootTypeOK
    /\ admins \in [Requests -> Names \cup {None}]
    /\ totp \in [Requests -> {"none", "pending", "confirmed"}]
    /\ coded \in SUBSET Requests
    /\ settings \in SUBSET {"smtp", "headscale", "setup_complete"}
    /\ cookies \in SUBSET (Requests \X Nat)
    /\ wiz \in [Requests -> [pc: WizardPCs, name: Names \cup {None},
                             uid: Requests \cup {None}]]
    /\ faults \in 0..MaxFaults
    /\ cut \in SUBSET Requests

WizardInit ==
    /\ admins = [r \in Requests |-> None]
    /\ totp = [r \in Requests |-> "none"]
    /\ coded = {} /\ settings = {} /\ cookies = {}
    /\ wiz = [r \in Requests |-> [pc |-> "new", name |-> None, uid |-> None]]
    /\ faults = 0 /\ cut = {}

SetupInit == BootInit /\ WizardInit

IsComplete == "setup_complete" \in settings
Admins == {r \in Requests : admins[r] # None}

At(r, pc) == proc = "serving" /\ wiz[r].pc = pc
Goto(r, pc) == wiz' = [wiz EXCEPT ![r].pc = pc]
Finish(r) == wiz' = [wiz EXCEPT ![r] = [pc |-> "done", name |-> None, uid |-> None]]

tables == <<admins, totp, coded, settings, cookies>>
others == <<faults, cut>>

-----------------------------------------------------------------------------
(* POST /setup *)

(* guardSetup, in front of every wizard handler.                           *)
CreateArrive(r, name) ==
    /\ At(r, "new")
    /\ ~IsComplete
    /\ wiz' = [wiz EXCEPT ![r].pc = "count", ![r].name = name]
    /\ UNCHANGED <<tables, others>>

(* users.CreateAdmin: SELECT COUNT, hash the password, INSERT.             *)
CountUsers(r) ==
    /\ At(r, "count")
    /\ IF Admins = {} THEN Goto(r, "insert") ELSE Finish(r)
    /\ UNCHANGED <<tables, others>>

InsertAdmin(r) ==
    /\ At(r, "insert")
    /\ IF \E q \in Admins : admins[q] = wiz[r].name
         THEN /\ Finish(r)
              /\ UNCHANGED admins
         ELSE /\ admins' = [admins EXCEPT ![r] = wiz[r].name]
              /\ Goto(r, "totp")
    /\ UNCHANGED <<totp, coded, settings, cookies, others>>

\* slip: the cookie is handed out before the codes are stored
StoreTOTPEarlyCookie(r) ==
    /\ At(r, "totp")
    /\ totp' = [totp EXCEPT ![r] = "pending"]
    /\ cookies' = cookies \cup {<<r, memKey>>}
    /\ Goto(r, "codes")
    /\ UNCHANGED <<admins, coded, settings, others>>

\* slip: a failed enrolment is answered as if it had succeeded
StoreTOTPOnly(r) ==
    /\ At(r, "totp")
    /\ totp' = [totp EXCEPT ![r] = "pending"]
    /\ Finish(r)
    /\ UNCHANGED <<admins, coded, settings, cookies, others>>

StoreTOTPSecret(r) ==
    /\ At(r, "totp")
    /\ totp' = [totp EXCEPT ![r] = "pending"]
    /\ Goto(r, "codes")
    /\ UNCHANGED <<admins, coded, settings, cookies, others>>

(* All recovery codes in one transaction.                                  *)
StoreRecoveryCodes(r) ==
    /\ At(r, "codes")
    /\ coded' = coded \cup {r}
    /\ Goto(r, "reply")
    /\ UNCHANGED <<admins, totp, settings, cookies, others>>

(* The setup cookie and the page that shows secret and codes once.         *)
Reply(r) ==
    /\ At(r, "reply")
    /\ cookies' = cookies \cup {<<r, memKey>>}
    /\ Finish(r)
    /\ UNCHANGED <<admins, totp, coded, settings, others>>

-----------------------------------------------------------------------------
(* POST /setup/totp: cookie signature, pending secret, code, confirm.      *)
CookieAccepted(c) == c[2] = memKey

VerifyArrive(r, c) ==
    /\ At(r, "new")
    /\ ~IsComplete
    /\ c \in cookies
    /\ IF CookieAccepted(c)
         THEN wiz' = [wiz EXCEPT ![r].pc = "pending", ![r].uid = c[1]]
         ELSE Finish(r)
    /\ UNCHANGED <<tables, others>>

(* PendingTOTPSecret finds only unconfirmed secrets; the code typed is     *)
(* right or wrong.                                                         *)
CheckCode(r) ==
    /\ At(r, "pending")
    /\ \/ totp[wiz[r].uid] = "pending" /\ Goto(r, "confirm")
       \/ Finish(r)
    /\ UNCHANGED <<tables, others>>

ConfirmTOTP(r) ==
    /\ At(r, "confirm")
    /\ totp' = [totp EXCEPT ![wiz[r].uid] = IF @ = "pending" THEN "confirmed" ELSE @]
    /\ Finish(r)
    /\ UNCHANGED <<admins, coded, settings, cookies, others>>

-----------------------------------------------------------------------------
(* POST /setup/smtp; "skip" only redirects.                                *)
SmtpArrive(r) ==
    /\ At(r, "new")
    /\ ~IsComplete
    /\ Goto(r, "smtp")
    /\ UNCHANGED <<tables, others>>

SaveSMTP(r) ==
    /\ At(r, "smtp")
    /\ settings' = settings \cup {"smtp"}
    /\ Finish(r)
    /\ UNCHANGED <<admins, totp, coded, cookies, others>>

(* POST /setup/headscale: skip, or test the connection and save.           *)
HeadscaleArrive(r) ==
    /\ At(r, "new")
    /\ ~IsComplete
    /\ \E pc \in {"test", "finish"} : Goto(r, pc)
    /\ UNCHANGED <<tables, others>>

TestConnection(r) ==
    /\ At(r, "test")
    /\ Goto(r, "save") \/ Finish(r)
    /\ UNCHANGED <<tables, others>>

SaveHeadscale(r) ==
    /\ At(r, "save")
    /\ settings' = settings \cup {"headscale"}
    /\ Goto(r, "finish")
    /\ UNCHANGED <<admins, totp, coded, cookies, others>>

FinishSetup(r) ==
    /\ At(r, "finish")
    /\ settings' = settings \cup {"setup_complete"}
    /\ Finish(r)
    /\ UNCHANGED <<admins, totp, coded, cookies, others>>

-----------------------------------------------------------------------------
(* Every handler gives up on a failed statement.                           *)
StatementFails(r) ==
    /\ proc = "serving" /\ faults < MaxFaults
    /\ wiz[r].pc \notin {"new", "test", "reply", "done"}
    /\ Finish(r)
    /\ faults' = faults + 1
    /\ cut' = cut \cup {r}
    /\ UNCHANGED tables

Step(r) ==
    \/ CountUsers(r) \/ InsertAdmin(r) \/ StoreTOTPSecret(r)
    \/ StoreRecoveryCodes(r) \/ Reply(r)
    \/ CheckCode(r) \/ ConfirmTOTP(r)
    \/ SaveSMTP(r)
    \/ TestConnection(r) \/ SaveHeadscale(r) \/ FinishSetup(r)

Arrive(r) ==
    \/ \E name \in Names : CreateArrive(r, name)
    \/ \E c \in cookies : VerifyArrive(r, c)
    \/ SmtpArrive(r)
    \/ HeadscaleArrive(r)

InFlight == {r \in Requests : wiz[r].pc \notin {"new", "done"}}

(* The requests in flight are lost with the process.                       *)
Die ==
    /\ Exit \/ Stop
    /\ wiz' = [r \in Requests |-> IF r \in InFlight
                 THEN [pc |-> "done", name |-> None, uid |-> None] ELSE wiz[r]]
    /\ cut' = cut \cup InFlight
    /\ UNCHANGED <<tables, faults>>

(* Before main returns, Shutdown waits for the requests in flight.         *)
ServerFailsIdle == ServerFails /\ InFlight = {}

SetupNext ==
    \/ (StartUp \/ ServerFailsIdle \/ OperatorStarts) /\ UNCHANGED wizardVars
    \/ Die
    \/ \E r \in Requests : (Arrive(r) \/ Step(r) \/ StatementFails(r)) /\ UNCHANGED bootVars

SetupSpec == SetupInit /\ [][SetupNext]_setupVars

(* The service manager starts a process that a failure ended, and start-up *)
(* runs straight through.  Nothing is assumed of the operator, nor of the  *)
(* requests: testing the connection to Headscale depends on a partner.     *)
FairSetupSpec ==
    /\ SetupSpec
    /\ WF_setupVars(StartUp /\ UNCHANGED wizardVars)

-----------------------------------------------------------------------------
(* Properties                                                              *)

(* A setup cookie stays good across restarts (main.go, "so in-flight       *)
(* wizard sessions survive a service restart").                            *)
CookiesSurviveRestarts ==
    proc = "serving" => \A c \in cookies : CookieAccepted(c)

(* Whoever holds a setup cookie, and so can go on to confirm TOTP, has     *)
(* a user row, a TOTP secret and recovery codes in the database.           *)
CookieMeansEnrolled ==
    \A c \in cookies : admins[c[1]] # None /\ totp[c[1]] # "none" /\ c[1] \in coded

(* An admin lacks a TOTP secret or recovery codes only while its request   *)
(* is running, or because that request was cut short.                      *)
NoHalfAdmin ==
    \A r \in Admins \ (cut \cup InFlight) : totp[r] # "none" /\ r \in coded

(* users.go: "v1 supports a single admin created via the setup wizard;     *)
(* this returns ErrAlreadyExists if any user already exists".              *)
SingleAdmin == Cardinality(Admins) <= 1
=============================================================================
