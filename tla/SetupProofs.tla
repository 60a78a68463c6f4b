---------------------------- MODULE SetupProofs -----------------------------
(***************************************************************************)
(* Theorems about Boot and Setup, for every chain of releases and any      *)
(* number of requests, restarts and failed statements.                     *)
(***************************************************************************)
EXTENDS Setup, TLAPS

(* What Migrate has left to do is what the running release embeds and the  *)
(* database has not seen; past Migrate, nothing is left.                   *)
BootInv ==
    /\ BootTypeOK
    /\ proc = "migrate" => todo = release \ applied
    /\ proc \in {"key", "persist", "listen", "serving"} => release \subseteq applied
    /\ BodiesRunOnce
    /\ AppliedInOrder

LEMMA VersionsAreNat == Versions \subseteq Nat
BY ReleasesAssumption DEF Versions

LEMMA BootInitInv == BootInit => BootInv
<1> SUFFICES ASSUME BootInit PROVE BootInv
  OBVIOUS
<1>1. BootTypeOK
  BY ReleasesAssumption DEF BootInit, BootTypeOK, Ended
<1> QED
  BY <1>1 DEF BootInit, BootInv, BodiesRunOnce, AppliedInOrder

(* The version applied next is below every other one that is missing: in   *)
(* the running release by the order of the loop, outside it because        *)
(* releases only append.                                                   *)
LEMMA ApplyInv ==
  ASSUME BootInv, NEW v \in Versions, Apply(v)
  PROVE  BootInv'
<1> USE DEF Apply
<1>0. v \in release /\ v \notin applied /\ release \in Releases
  BY DEF BootInv, BootTypeOK
<1>1. BootTypeOK'
  BY <1>0 DEF BootInv, BootTypeOK
<1>2. todo' = release' \ applied'
  BY DEF BootInv
<1>3. BodiesRunOnce'
  BY <1>0 DEF BootInv, BootTypeOK, BodiesRunOnce
<1>4. AppliedInOrder'
  <2> SUFFICES ASSUME NEW x \in applied', NEW w \in Versions, w < x
               PROVE  w \in applied'
    BY DEF AppliedInOrder
  <2>1. CASE x \in applied
    BY <2>1 DEF BootInv, AppliedInOrder
  <2>2. CASE x = v
    <3>1. CASE w \in release
      <4>1. w \notin todo
        BY <2>2, VersionsAreNat
      <4> QED
        BY <3>1, <4>1 DEF BootInv
    <3>2. CASE w \notin release
      <4>1. PICK newer \in Releases : w \in newer
        BY DEF Versions
      <4>2. w \in newer \ release /\ v \in release
        BY <1>0, <3>2, <4>1
      <4>3. v < w
        BY <1>0, <4>2, AppendOnlyAssumption DEF AppendOnly
      <4> QED
        BY <2>2, <4>3, VersionsAreNat
    <3> QED
      BY <3>1, <3>2
  <2> QED
    BY <2>1, <2>2
<1> QED
  BY <1>1, <1>2, <1>3, <1>4 DEF BootInv

LEMMA BootNextInv == BootInv /\ [BootNext]_bootVars => BootInv'
<1> SUFFICES ASSUME BootInv, [BootNext]_bootVars PROVE BootInv'
  OBVIOUS
<1>1. CASE Start
  <2>1. BootTypeOK' /\ todo' = release' \ applied'
    BY <1>1 DEF Start, BootInv, BootTypeOK, Running
  <2> QED
    BY <1>1, <2>1 DEF Start, BootInv, BodiesRunOnce, AppliedInOrder
<1>2. CASE Migrated \/ LoadKey \/ PersistKey \/ Listen
  <2>1. BootTypeOK'
    BY <1>2 DEF Migrated, LoadKey, PersistKey, Listen, BootInv, BootTypeOK, Running
  <2> QED
    BY <1>2, <2>1 DEF Migrated, LoadKey, PersistKey, Listen, BootInv, BodiesRunOnce, AppliedInOrder
<1>3. CASE Exit \/ Stop \/ ServerFails
  <2>1. PICK state \in Ended : EndAs(state)
    BY <1>3 DEF Exit, Stop, ServerFails, Ended
  <2>2. BootTypeOK'
    BY <2>1, ReleasesAssumption DEF EndAs, BootInv, BootTypeOK
  <2> QED
    BY <2>1, <2>2 DEF EndAs, Ended, BootInv, BodiesRunOnce, AppliedInOrder
<1>4. CASE OperatorStarts
  <2>1. BootTypeOK'
    BY <1>4 DEF OperatorStarts, BootInv, BootTypeOK, Ended
  <2> QED
    BY <1>4, <2>1 DEF OperatorStarts, BootInv, BodiesRunOnce, AppliedInOrder
<1>5. CASE UNCHANGED bootVars
  BY <1>5 DEF bootVars, BootInv, BootTypeOK, BodiesRunOnce, AppliedInOrder
<1> QED
  BY <1>1, <1>2, <1>3, <1>4, <1>5, ApplyInv DEF BootNext, StartUp

(* Every step of Setup is one of Boot or leaves its variables alone, so    *)
(* that what is shown of Boot can be used of Setup.                        *)
LEMMA SetupImplementsBoot == SetupSpec => BootSpec
<1>1. SetupNext => [BootNext]_bootVars
  BY DEF SetupNext, BootNext, Die, ServerFailsIdle, bootVars
<1>2. UNCHANGED setupVars => UNCHANGED bootVars
  BY DEF setupVars
<1> QED
  BY <1>1, <1>2, PTL DEF SetupSpec, SetupInit, BootSpec

LEMMA BootInvariant == SetupSpec => []BootInv
<1>1. BootSpec => []BootInv
  BY BootInitInv, BootNextInv, PTL DEF BootSpec
<1> QED
  BY <1>1, SetupImplementsBoot, PTL

(* However starts are interrupted and whichever release runs, every        *)
(* migration takes effect exactly once.                                    *)
THEOREM MigrationsAreExact == SetupSpec => []BodiesRunOnce
<1>1. BootInv => BodiesRunOnce
  BY DEF BootInv
<1> QED
  BY <1>1, BootInvariant, PTL

(* They take effect in the order of their numbers, whichever releases ran  *)
(* in between.                                                             *)
THEOREM MigrationsAreInOrder == SetupSpec => []AppliedInOrder
<1>1. BootInv => AppliedInOrder
  BY DEF BootInv
<1> QED
  BY <1>1, BootInvariant, PTL

(* The server only answers on a schema its code was written for.           *)
THEOREM ServedSchemaIsCurrent == SetupSpec => []ServingSchemaIsCurrent
<1>1. BootInv => ServingSchemaIsCurrent
  BY DEF BootInv, ServingSchemaIsCurrent
<1> QED
  BY <1>1, BootInvariant, PTL

-----------------------------------------------------------------------------
(* The wizard.  What each step finds: a name to insert, the user whose     *)
(* cookie was shown; and, of the request that creates an admin, the rows   *)
(* it has written so far.                                                  *)
LocalsOK(r) ==
    /\ wiz[r].pc = "insert" => wiz[r].name \in Names
    /\ wiz[r].pc = "count" => wiz[r].name \in Names
    /\ wiz[r].pc \in {"totp", "codes", "reply"} => admins[r] # None
    /\ wiz[r].pc \in {"codes", "reply"} => totp[r] # "none"
    /\ wiz[r].pc = "reply" => r \in coded

(* Enrolment: a user row is inserted by the request it is named after, and *)
(* that request leaves it half enrolled only when it is cut short.         *)
EnrolInv ==
    /\ \A r \in Requests : LocalsOK(r)
    /\ \A r \in Requests : admins[r] # None => wiz[r].pc \in {"totp", "codes", "reply", "done"}
    /\ CookieMeansEnrolled
    /\ NoHalfAdmin

(* The key: one is stored before the first cookie is signed, it is never   *)
(* replaced, and the server starts with it in memory.                       *)
KeyInv ==
    /\ \A c \in cookies : c[2] = storedKey
    /\ storedKey = 0 => cookies = {}
    /\ proc = "persist" => memKey # 0 /\ storedKey = 0
    /\ proc \in {"listen", "serving"} => memKey # 0 /\ memKey = storedKey

WizTypeOK ==
    wiz \in [Requests -> [pc: WizardPCs, name: Names \cup {None}, uid: Requests \cup {None}]]

LEMMA FinishOK ==
  ASSUME WizTypeOK, NEW r \in Requests, Finish(r)
  PROVE  WizTypeOK'
<1>1. [pc |-> "done", name |-> None, uid |-> None]
        \in [pc: WizardPCs, name: Names \cup {None}, uid: Requests \cup {None}]
  BY DEF WizardPCs
<1> QED
  BY <1>1 DEF Finish, WizTypeOK

LEMMA GotoOK ==
  ASSUME WizTypeOK, NEW r \in Requests, NEW pc \in WizardPCs, Goto(r, pc)
  PROVE  WizTypeOK'
BY DEF Goto, WizTypeOK

LEMMA ArriveTypeOK ==
  ASSUME SetupTypeOK, NEW r \in Requests, Arrive(r)
  PROVE  WizTypeOK' /\ UNCHANGED <<tables, others>>
<1>0. WizTypeOK
  BY DEF SetupTypeOK, WizTypeOK
<1>1. ASSUME NEW name \in Names, CreateArrive(r, name) PROVE WizTypeOK'
  BY <1>0, <1>1 DEF CreateArrive, WizTypeOK, WizardPCs
<1>2. ASSUME NEW c \in cookies, VerifyArrive(r, c) PROVE WizTypeOK'
  <2>1. c[1] \in Requests
    BY DEF SetupTypeOK
  <2>2. CASE CookieAccepted(c)
    BY <1>0, <1>2, <2>1, <2>2 DEF VerifyArrive, WizTypeOK, WizardPCs
  <2>3. CASE ~CookieAccepted(c)
    BY <1>0, <1>2, <2>3, FinishOK DEF VerifyArrive
  <2> QED
    BY <2>2, <2>3
<1>3. ASSUME SmtpArrive(r) \/ HeadscaleArrive(r) PROVE WizTypeOK'
  BY <1>0, <1>3, GotoOK DEF SmtpArrive, HeadscaleArrive, WizardPCs
<1> QED
  BY <1>1, <1>2, <1>3 DEF Arrive, CreateArrive, VerifyArrive, SmtpArrive, HeadscaleArrive

LEMMA StepTypeOK ==
  ASSUME SetupTypeOK, EnrolInv, NEW r \in Requests, Step(r), UNCHANGED bootVars
  PROVE  SetupTypeOK'
<1>0. WizTypeOK /\ BootTypeOK' /\ LocalsOK(r)
  BY DEF SetupTypeOK, WizTypeOK, EnrolInv, BootTypeOK, bootVars
<1>1. WizTypeOK'
  <2>1. Finish(r) \/ \E pc \in WizardPCs : Goto(r, pc)
    BY DEF Step, CountUsers, InsertAdmin, StoreTOTPSecret, StoreRecoveryCodes, Reply, CheckCode,
           ConfirmTOTP, SaveSMTP, TestConnection, SaveHeadscale, FinishSetup, WizardPCs
  <2> QED
    BY <1>0, <2>1, FinishOK, GotoOK
<1>2. admins' \in [Requests -> Names \cup {None}]
  BY <1>0 DEF SetupTypeOK, LocalsOK, At, Step, CountUsers, InsertAdmin, StoreTOTPSecret,
         StoreRecoveryCodes, Reply, CheckCode, ConfirmTOTP, SaveSMTP, TestConnection,
         SaveHeadscale, FinishSetup, tables
<1>3. totp' \in [Requests -> {"none", "pending", "confirmed"}]
  BY DEF SetupTypeOK, Step, CountUsers, InsertAdmin, StoreTOTPSecret,
         StoreRecoveryCodes, Reply, CheckCode, ConfirmTOTP, SaveSMTP, TestConnection,
         SaveHeadscale, FinishSetup, tables
<1>4. cookies' \in SUBSET (Requests \X Nat)
  BY DEF SetupTypeOK, BootTypeOK, Step, CountUsers, InsertAdmin, StoreTOTPSecret,
         StoreRecoveryCodes, Reply, CheckCode, ConfirmTOTP, SaveSMTP, TestConnection,
         SaveHeadscale, FinishSetup, tables
<1>5. coded' \in SUBSET Requests /\ settings' \in SUBSET {"smtp", "headscale", "setup_complete"}
  BY DEF SetupTypeOK, Step, CountUsers, InsertAdmin, StoreTOTPSecret,
         StoreRecoveryCodes, Reply, CheckCode, ConfirmTOTP, SaveSMTP, TestConnection,
         SaveHeadscale, FinishSetup, tables
<1>6. UNCHANGED others
  BY DEF Step, CountUsers, InsertAdmin, StoreTOTPSecret,
         StoreRecoveryCodes, Reply, CheckCode, ConfirmTOTP, SaveSMTP, TestConnection,
         SaveHeadscale, FinishSetup, tables
<1> QED
  BY <1>0, <1>1, <1>2, <1>3, <1>4, <1>5, <1>6 DEF SetupTypeOK, WizTypeOK, others

LEMMA NextSetupTypeOK ==
  BootInv /\ SetupTypeOK /\ EnrolInv /\ [SetupNext]_setupVars => SetupTypeOK'
<1> SUFFICES ASSUME BootInv, SetupTypeOK, EnrolInv, [SetupNext]_setupVars PROVE SetupTypeOK'
  OBVIOUS
<1>0. BootTypeOK' /\ WizTypeOK
  <2>1. [BootNext]_bootVars
    BY DEF SetupNext, BootNext, Die, ServerFailsIdle, setupVars, bootVars
  <2> QED
    BY <2>1, BootNextInv DEF BootInv, SetupTypeOK, WizTypeOK
<1>1. CASE UNCHANGED wizardVars
  BY <1>0, <1>1 DEF SetupTypeOK, wizardVars
<1>2. CASE Die
  <2>1. WizTypeOK'
    BY <1>0, <1>2 DEF Die, WizTypeOK, WizardPCs
  <2> QED
    BY <1>0, <1>2, <2>1 DEF Die, SetupTypeOK, WizTypeOK, tables, InFlight
<1>3. ASSUME NEW r \in Requests, Arrive(r), UNCHANGED bootVars PROVE SetupTypeOK'
  BY <1>0, <1>3, ArriveTypeOK DEF SetupTypeOK, WizTypeOK, tables, others
<1>4. ASSUME NEW r \in Requests, StatementFails(r) PROVE SetupTypeOK'
  BY <1>0, <1>4, FinishOK, SetupAssumption DEF StatementFails, SetupTypeOK, WizTypeOK, tables
<1>5. CASE UNCHANGED setupVars
  BY <1>5 DEF setupVars, bootVars, wizardVars, SetupTypeOK, BootTypeOK
<1> QED
  BY <1>1, <1>2, <1>3, <1>4, <1>5, StepTypeOK DEF SetupNext

-----------------------------------------------------------------------------
LEMMA NextKeyInv ==
  BootTypeOK /\ KeyInv /\ [SetupNext]_setupVars => KeyInv'
<1> SUFFICES ASSUME BootTypeOK, KeyInv, [SetupNext]_setupVars PROVE KeyInv'
  OBVIOUS
<1>1. CASE StartUp /\ UNCHANGED wizardVars
  BY <1>1 DEF StartUp, Start, Apply, Migrated, LoadKey, PersistKey, Listen, wizardVars, KeyInv,
              BootTypeOK
<1>2. CASE Die \/ ((ServerFails \/ OperatorStarts) /\ UNCHANGED wizardVars)
  <2>1. /\ UNCHANGED <<cookies, storedKey>>
        /\ proc' \in {"down", "stopped", "failed"}
    BY <1>2 DEF Die, Exit, Stop, ServerFails, EndAs, OperatorStarts, tables, wizardVars
  <2> QED
    BY <2>1 DEF KeyInv
<1>3. ASSUME NEW r \in Requests, Arrive(r) \/ Step(r) \/ StatementFails(r), UNCHANGED bootVars
      PROVE  KeyInv'
  <2>1. proc = "serving" /\ UNCHANGED <<proc, storedKey, memKey>>
    BY <1>3 DEF Arrive, CreateArrive, VerifyArrive, SmtpArrive, HeadscaleArrive, StatementFails,
         Step, CountUsers, InsertAdmin, StoreTOTPSecret, StoreRecoveryCodes, Reply, CheckCode,
         ConfirmTOTP, SaveSMTP, TestConnection, SaveHeadscale, FinishSetup, At, bootVars
  <2>2. cookies' \in {cookies, cookies \cup {<<r, memKey>>}}
    BY <1>3 DEF Arrive, CreateArrive, VerifyArrive, SmtpArrive, HeadscaleArrive, StatementFails,
         Step, CountUsers, InsertAdmin, StoreTOTPSecret, StoreRecoveryCodes, Reply, CheckCode,
         ConfirmTOTP, SaveSMTP, TestConnection, SaveHeadscale, FinishSetup, tables
  <2> QED
    BY <2>1, <2>2 DEF KeyInv
<1>4. CASE UNCHANGED setupVars
  BY <1>4 DEF setupVars, bootVars, wizardVars, KeyInv
<1> QED
  BY <1>1, <1>2, <1>3, <1>4 DEF SetupNext, ServerFailsIdle
-----------------------------------------------------------------------------
(* A step of request r that touches no row of another request's admin.     *)
LEMMA EnrolFrame ==
  ASSUME EnrolInv, NEW r \in Requests,
         \A q \in Requests : q # r => /\ wiz'[q] = wiz[q]
                                      /\ admins'[q] = admins[q]
                                      /\ totp[q] # "none" => totp'[q] # "none"
                                      /\ q \in coded => q \in coded',
         cut \subseteq cut',
         LocalsOK(r)',
         admins'[r] # None => wiz'[r].pc \in {"totp", "codes", "reply", "done"},
         admins'[r] # None /\ wiz'[r].pc = "done" /\ r \notin cut'
           => totp'[r] # "none" /\ r \in coded',
         \A c \in cookies' : /\ c[1] \in Requests
                             /\ c \in cookies \/ c[1] = r
                             /\ c[1] = r => admins'[r] # None /\ totp'[r] # "none" /\ r \in coded'
  PROVE  EnrolInv'
<1>1. \A q \in Requests : LocalsOK(q)'
  BY DEF EnrolInv, LocalsOK
<1>2. \A q \in Requests : admins'[q] # None => wiz'[q].pc \in {"totp", "codes", "reply", "done"}
  BY DEF EnrolInv
<1>3. CookieMeansEnrolled'
  BY DEF EnrolInv, CookieMeansEnrolled
<1>4. NoHalfAdmin'
  <2> SUFFICES ASSUME NEW q \in Requests, admins'[q] # None, q \notin cut',
                      wiz'[q].pc \in {"new", "done"}
               PROVE  totp'[q] # "none" /\ q \in coded'
    BY DEF NoHalfAdmin, Admins, InFlight
  <2>1. CASE q = r
    BY <2>1
  <2>2. CASE q # r
    BY <2>2 DEF EnrolInv, NoHalfAdmin, Admins, InFlight
  <2> QED
    BY <2>1, <2>2
<1> QED
  BY <1>1, <1>2, <1>3, <1>4 DEF EnrolInv

(* A step that writes none of the tables of an enrolment.                  *)
LEMMA EnrolUntouched ==
  ASSUME SetupTypeOK, EnrolInv, NEW r \in Requests,
         UNCHANGED <<admins, totp, coded, cookies>>, cut \subseteq cut',
         \A q \in Requests : q # r => wiz'[q] = wiz[q],
         wiz[r].pc \notin {"totp", "codes", "reply", "done"} \/ r \in cut',
         LocalsOK(r)',
         admins[r] # None => wiz'[r].pc = "done"
  PROVE  EnrolInv'
<1>1. admins[r] # None /\ r \notin cut' => FALSE
  BY DEF EnrolInv
<1>2. \A c \in cookies : /\ c[1] \in Requests
                         /\ admins[c[1]] # None /\ totp[c[1]] # "none" /\ c[1] \in coded
  BY DEF EnrolInv, CookieMeansEnrolled, SetupTypeOK
<1> QED
  BY <1>1, <1>2, EnrolFrame

LEMMA ArriveEnrol ==
  ASSUME SetupTypeOK, EnrolInv, NEW r \in Requests, Arrive(r)
  PROVE  EnrolInv'
<1>0. wiz[r].pc = "new" /\ admins[r] = None /\ UNCHANGED <<admins, totp, coded, cookies, cut>>
  BY DEF Arrive, CreateArrive, VerifyArrive, SmtpArrive, HeadscaleArrive, At, EnrolInv,
         tables, others
<1>1. \A q \in Requests : q # r => wiz'[q] = wiz[q]
  BY DEF Arrive, CreateArrive, VerifyArrive, SmtpArrive, HeadscaleArrive, Goto, Finish, SetupTypeOK
<1>2. \/ wiz'[r].pc \in {"pending", "smtp", "test", "finish", "done"}
      \/ wiz'[r].pc = "count" /\ wiz'[r].name \in Names
  BY DEF Arrive, CreateArrive, VerifyArrive, SmtpArrive, HeadscaleArrive, Goto, Finish, SetupTypeOK
<1>3. LocalsOK(r)'
  BY <1>2 DEF LocalsOK
<1> QED
  BY <1>0, <1>1, <1>3, EnrolUntouched

LEMMA StepEnrol ==
  ASSUME SetupTypeOK, EnrolInv, NEW r \in Requests, Step(r)
  PROVE  EnrolInv'
<1>0. /\ wiz \in [Requests -> [pc: WizardPCs, name: Names \cup {None}, uid: Requests \cup {None}]]
      /\ admins \in [Requests -> Names \cup {None}]
      /\ totp \in [Requests -> {"none", "pending", "confirmed"}]
      /\ LocalsOK(r)
      /\ admins[r] # None => wiz[r].pc \in {"totp", "codes", "reply", "done"}
  BY DEF SetupTypeOK, EnrolInv
<1>1. \A c \in cookies : /\ c[1] \in Requests
                         /\ admins[c[1]] # None /\ totp[c[1]] # "none" /\ c[1] \in coded
  BY DEF EnrolInv, CookieMeansEnrolled, SetupTypeOK
<1>2. CASE \/ CountUsers(r) \/ CheckCode(r) \/ SaveSMTP(r)
           \/ TestConnection(r) \/ SaveHeadscale(r) \/ FinishSetup(r)
  <2>1. UNCHANGED <<admins, totp, coded, cookies, cut>>
    BY <1>2 DEF CountUsers, CheckCode, SaveSMTP, TestConnection, SaveHeadscale, FinishSetup,
         tables, others
  <2>2. wiz[r].pc \notin {"totp", "codes", "reply", "done"} /\ admins[r] = None
    BY <1>0, <1>2 DEF CountUsers, CheckCode, SaveSMTP, TestConnection, SaveHeadscale,
         FinishSetup, At
  <2>3. /\ \A q \in Requests : q # r => wiz'[q] = wiz[q]
        /\ \/ wiz'[r].pc \in {"confirm", "save", "finish", "done"}
           \/ wiz'[r].pc = "insert" /\ wiz'[r].name \in Names
    BY <1>0, <1>2 DEF CountUsers, CheckCode, SaveSMTP, TestConnection, SaveHeadscale,
         FinishSetup, Goto, Finish, At, LocalsOK
  <2>4. LocalsOK(r)'
    BY <2>3 DEF LocalsOK
  <2> QED
    BY <2>1, <2>2, <2>3, <2>4, EnrolUntouched
<1>3. CASE InsertAdmin(r)
  <2>1. wiz[r].pc = "insert" /\ wiz[r].name \in Names /\ admins[r] = None
    BY <1>0, <1>3 DEF InsertAdmin, At, LocalsOK
  <2>2. UNCHANGED <<totp, coded, cookies, cut>>
    BY <1>3 DEF InsertAdmin, others
  <2>3. CASE Finish(r) /\ UNCHANGED admins
    <3>1. wiz'[r].pc = "done" /\ \A q \in Requests : q # r => wiz'[q] = wiz[q]
      BY <1>0, <2>3 DEF Finish
    <3>2. LocalsOK(r)'
      BY <3>1 DEF LocalsOK
    <3> QED
      BY <2>1, <2>2, <2>3, <3>1, <3>2, EnrolUntouched
  <2>4. CASE admins' = [admins EXCEPT ![r] = wiz[r].name] /\ Goto(r, "totp")
    <3>1. /\ wiz'[r].pc = "totp" /\ admins'[r] # None
          /\ \A q \in Requests : q # r => wiz'[q] = wiz[q] /\ admins'[q] = admins[q]
      BY <1>0, <2>1, <2>4, SetupAssumption DEF Goto
    <3>2. LocalsOK(r)'
      BY <3>1 DEF LocalsOK
    <3>3. \A c \in cookies : c[1] # r
      BY <1>1, <2>1
    <3> QED
      BY <1>1, <2>2, <3>1, <3>2, <3>3, EnrolFrame
  <2> QED
    BY <1>3, <2>3, <2>4 DEF InsertAdmin
<1>4. CASE StoreTOTPSecret(r)
  <2>1. /\ wiz[r].pc = "totp" /\ admins[r] # None
        /\ UNCHANGED <<admins, coded, cookies, cut>>
    BY <1>0, <1>4 DEF StoreTOTPSecret, At, LocalsOK, others
  <2>2. /\ totp'[r] = "pending" /\ wiz'[r].pc = "codes"
        /\ \A q \in Requests : q # r => wiz'[q] = wiz[q] /\ totp'[q] = totp[q]
    BY <1>0, <1>4 DEF StoreTOTPSecret, Goto
  <2>3. LocalsOK(r)'
    BY <2>1, <2>2 DEF LocalsOK
  <2> QED
    BY <1>1, <2>1, <2>2, <2>3, EnrolFrame
<1>5. CASE StoreRecoveryCodes(r)
  <2>1. /\ wiz[r].pc = "codes" /\ admins[r] # None /\ totp[r] # "none"
        /\ coded' = coded \cup {r}
        /\ UNCHANGED <<admins, totp, cookies, cut>>
    BY <1>0, <1>5 DEF StoreRecoveryCodes, At, LocalsOK, others
  <2>2. wiz'[r].pc = "reply" /\ \A q \in Requests : q # r => wiz'[q] = wiz[q]
    BY <1>0, <1>5 DEF StoreRecoveryCodes, Goto
  <2>3. LocalsOK(r)'
    BY <2>1, <2>2 DEF LocalsOK
  <2> QED
    BY <1>1, <2>1, <2>2, <2>3, EnrolFrame
<1>6. CASE Reply(r)
  <2>1. /\ wiz[r].pc = "reply" /\ admins[r] # None /\ totp[r] # "none" /\ r \in coded
        /\ cookies' = cookies \cup {<<r, memKey>>}
        /\ UNCHANGED <<admins, totp, coded, cut>>
    BY <1>0, <1>6 DEF Reply, At, LocalsOK, others
  <2>2. wiz'[r].pc = "done" /\ \A q \in Requests : q # r => wiz'[q] = wiz[q]
    BY <1>0, <1>6 DEF Reply, Finish
  <2>3. LocalsOK(r)'
    BY <2>2 DEF LocalsOK
  <2>4. \A c \in cookies' : c[1] \in Requests /\ (c \in cookies \/ c[1] = r)
    BY <1>1, <2>1
  <2> QED
    BY <2>1, <2>2, <2>3, <2>4, EnrolFrame
<1>7. CASE ConfirmTOTP(r)
  <2>1. /\ wiz[r].pc = "confirm" /\ admins[r] = None
        /\ UNCHANGED <<admins, coded, cookies, cut>>
    BY <1>0, <1>7 DEF ConfirmTOTP, At, others
  <2>2. \A q \in Requests : totp[q] # "none" => totp'[q] # "none"
    BY <1>0, <1>7 DEF ConfirmTOTP
  <2>3. wiz'[r].pc = "done" /\ \A q \in Requests : q # r => wiz'[q] = wiz[q]
    BY <1>0, <1>7 DEF ConfirmTOTP, Finish
  <2>4. LocalsOK(r)'
    BY <2>3 DEF LocalsOK
  <2>5. \A c \in cookies : c[1] # r
    BY <1>1, <2>1
  <2> QED
    BY <1>1, <2>1, <2>2, <2>3, <2>4, <2>5, EnrolFrame
<1> QED
  BY <1>2, <1>3, <1>4, <1>5, <1>6, <1>7 DEF Step

LEMMA NextEnrol ==
  SetupTypeOK /\ EnrolInv /\ [SetupNext]_setupVars => EnrolInv'
<1> SUFFICES ASSUME SetupTypeOK, EnrolInv, [SetupNext]_setupVars PROVE EnrolInv'
  OBVIOUS
<1>1. CASE UNCHANGED wizardVars
  BY <1>1 DEF wizardVars, EnrolInv, LocalsOK, CookieMeansEnrolled, NoHalfAdmin, Admins, InFlight
<1>2. CASE Die
  <2>1. UNCHANGED <<admins, totp, coded, cookies>> /\ cut' = cut \cup InFlight
    BY <1>2 DEF Die, tables
  <2>2. \A r \in Requests : IF r \in InFlight THEN wiz'[r].pc = "done" ELSE wiz'[r] = wiz[r]
    BY <1>2 DEF Die
  <2>3. \A r \in Requests : LocalsOK(r)'
    BY <2>1, <2>2 DEF EnrolInv, LocalsOK, InFlight
  <2>4. \A r \in Requests : admins'[r] # None => wiz'[r].pc \in {"totp", "codes", "reply", "done"}
    BY <2>1, <2>2 DEF EnrolInv
  <2>5. CookieMeansEnrolled' /\ NoHalfAdmin'
    BY <2>1, <2>2 DEF EnrolInv, CookieMeansEnrolled, NoHalfAdmin, Admins, InFlight
  <2> QED
    BY <2>3, <2>4, <2>5 DEF EnrolInv
<1>3. ASSUME NEW r \in Requests, StatementFails(r) PROVE EnrolInv'
  <2>1. UNCHANGED <<admins, totp, coded, cookies>> /\ cut' = cut \cup {r}
    BY <1>3 DEF StatementFails, tables
  <2>2. wiz'[r].pc = "done" /\ \A q \in Requests : q # r => wiz'[q] = wiz[q]
    BY <1>3 DEF StatementFails, Finish, SetupTypeOK
  <2>3. LocalsOK(r)'
    BY <2>2 DEF LocalsOK
  <2> QED
    BY <2>1, <2>2, <2>3, EnrolUntouched
<1>4. UNCHANGED setupVars => UNCHANGED wizardVars
  BY DEF setupVars
<1> QED
  BY <1>1, <1>2, <1>3, <1>4, ArriveEnrol, StepEnrol DEF SetupNext

LEMMA WizardInvariant == SetupSpec => [](SetupTypeOK /\ EnrolInv /\ KeyInv)
<1>1. SetupInit => SetupTypeOK /\ EnrolInv /\ KeyInv
  <2> SUFFICES ASSUME SetupInit PROVE SetupTypeOK /\ EnrolInv /\ KeyInv
    OBVIOUS
  <2>1. SetupTypeOK
    BY BootInitInv, SetupAssumption DEF SetupInit, WizardInit, SetupTypeOK, BootInv, WizardPCs
  <2>2. EnrolInv
    BY DEF SetupInit, WizardInit, EnrolInv, LocalsOK, CookieMeansEnrolled, NoHalfAdmin, Admins
  <2>3. KeyInv
    BY DEF SetupInit, WizardInit, BootInit, KeyInv
  <2> QED
    BY <2>1, <2>2, <2>3
<1>2. SetupTypeOK => BootTypeOK
  BY DEF SetupTypeOK
<1> QED
  BY <1>1, <1>2, BootInvariant, NextSetupTypeOK, NextEnrol, NextKeyInv, PTL DEF SetupSpec

(* SetupTypeOK, for any number of requests, restarts and failures.         *)
THEOREM SetupTypeCorrect == SetupSpec => []SetupTypeOK
BY WizardInvariant, PTL

(* The key is stored before any cookie is signed with it and is never      *)
(* replaced: a cookie handed out before a restart is good after it.        *)
THEOREM CookiesStayGood == SetupSpec => []CookiesSurviveRestarts
<1>1. KeyInv => CookiesSurviveRestarts
  BY DEF KeyInv, CookiesSurviveRestarts, CookieAccepted
<1> QED
  BY <1>1, WizardInvariant, PTL

(* A setup cookie names a user who has a row, a secret and codes.          *)
THEOREM CookiesNameEnrolled == SetupSpec => []CookieMeansEnrolled
<1>1. EnrolInv => CookieMeansEnrolled
  BY DEF EnrolInv
<1> QED
  BY <1>1, WizardInvariant, PTL

(* Only a request that was cut short leaves an admin half enrolled.        *)
THEOREM AdminsAreWhole == SetupSpec => []NoHalfAdmin
<1>1. EnrolInv => NoHalfAdmin
  BY DEF EnrolInv
<1> QED
  BY <1>1, WizardInvariant, PTL
=============================================================================
