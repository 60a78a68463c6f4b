-------------------------------- MODULE Boot --------------------------------
(***************************************************************************)
(* Life of the dashboard process: start-up (schema migrations, the key     *)
(* that signs setup cookies, the listener), serving, and its end at any    *)
(* point: by a failure, after which the service manager starts it again,   *)
(* or with status 0, after which only an operator does.  Every start may   *)
(* be of another release of the binary.                                    *)
(*                                                                         *)
(* Each migration's body and its schema_migrations row commit in one       *)
(* transaction, so applying one is a single step.                          *)
(***************************************************************************)
EXTENDS Integers, FiniteSets, FiniteSetsExt

CONSTANTS
    Releases,      \* the sets of migration versions the releases embed
    MaxRestarts    \* bound: ends of the process

ASSUME ReleasesAssumption ==
    /\ Releases \subseteq SUBSET Nat
    /\ \A release \in Releases : IsFiniteSet(release)
    /\ MaxRestarts \in Nat

(* Migrations are numbered in the order they are written: a release only   *)
(* adds versions above those of the releases before it.                    *)
AppendOnly ==
    \A old, new \in Releases :
        \/ new \subseteq old
        \/ old \subseteq new /\ \A v \in new \ old, w \in old : w < v

ASSUME AppendOnlyAssumption == AppendOnly

VARIABLES
    proc,          \* where the process is, or how it ended
    release,       \* migrations embedded in the running binary
    todo,          \* local of Migrate: embedded versions not found applied
    applied,       \* schema_migrations
    storedKey,     \* settings.setup_signing_key, 0 when absent
    memKey,        \* the signer's key in memory, 0 when none
    restarts,
    \* history
    ran,           \* how often each migration's body was committed
    keys           \* keys generated so far: the random source never repeats

bootVars == <<proc, release, todo, applied, storedKey, memKey, restarts, ran, keys>>

Versions == UNION Releases

Running == {"migrate", "key", "persist", "listen", "serving"}
Ended == {"down",      \* not started yet, or ended by a failure
          "stopped",   \* ended by SIGTERM or SIGINT
          "failed"}    \* main returned after the server failed

BootTypeOK ==
    /\ proc \in Running \cup Ended
    /\ release \in Releases
    /\ todo \in SUBSET release
    /\ applied \in SUBSET Versions
    /\ storedKey \in Nat /\ memKey \in Nat /\ keys \in Nat
    /\ restarts \in 0..MaxRestarts
    /\ ran \in [Versions -> Nat]

BootInit ==
    /\ proc = "down"
    /\ release \in Releases
    /\ todo = {} /\ applied = {}
    /\ storedKey = 0 /\ memKey = 0 /\ keys = 0
    /\ restarts = 0
    /\ ran = [v \in Versions |-> 0]

\* slip: versions the running release does not embed are not left out
StartAll ==
    /\ proc = "down"
    /\ release' \in Releases
    /\ todo' = Versions \ applied
    /\ proc' = "migrate"
    /\ UNCHANGED <<applied, storedKey, memKey, restarts, ran, keys>>

(* db.Migrate reads which versions are applied and sorts the others.       *)
Start ==
    /\ proc = "down"
    /\ release' \in Releases
    /\ todo' = release' \ applied
    /\ proc' = "migrate"
    /\ UNCHANGED <<applied, storedKey, memKey, restarts, ran, keys>>

\* slip: the body commits before the transaction that records its version
ApplyUnrecorded(v) ==
    /\ proc = "migrate"
    /\ v \in todo /\ \A w \in todo : v <= w
    /\ ran' = [ran EXCEPT ![v] = @ + 1]
    /\ \/ applied' = applied \cup {v} /\ todo' = todo \ {v} /\ UNCHANGED proc
       \/ proc' = "down" /\ UNCHANGED <<applied, todo>>
    /\ UNCHANGED <<release, storedKey, memKey, restarts, keys>>

\* slip: the versions are not sorted
ApplyAny(v) ==
    /\ proc = "migrate"
    /\ v \in todo
    /\ ran' = [ran EXCEPT ![v] = @ + 1]
    /\ applied' = applied \cup {v}
    /\ todo' = todo \ {v}
    /\ UNCHANGED <<proc, release, storedKey, memKey, restarts, keys>>

(* One turn of the loop: the smallest version left.                        *)
Apply(v) ==
    /\ proc = "migrate"
    /\ v \in todo /\ \A w \in todo : v <= w
    /\ ran' = [ran EXCEPT ![v] = @ + 1]
    /\ applied' = applied \cup {v}
    /\ todo' = todo \ {v}
    /\ UNCHANGED <<proc, release, storedKey, memKey, restarts, keys>>

\* slip: the server starts while migrations are left
MigratedEarly ==
    /\ proc = "migrate"
    /\ proc' = "key"
    /\ UNCHANGED <<release, todo, applied, storedKey, memKey, restarts, ran, keys>>

Migrated ==
    /\ proc = "migrate" /\ todo = {}
    /\ proc' = "key"
    /\ UNCHANGED <<release, todo, applied, storedKey, memKey, restarts, ran, keys>>

\* slip: the process waits for a key somebody else stores
WaitForKey ==
    /\ proc = "key" /\ storedKey # 0
    /\ memKey' = storedKey /\ proc' = "listen"
    /\ UNCHANGED <<release, todo, applied, storedKey, restarts, ran, keys>>

\* slip: a fresh key at every start
FreshKey ==
    /\ proc = "key"
    /\ keys' = keys + 1
    /\ memKey' = keys + 1 /\ proc' = "persist"
    /\ UNCHANGED <<release, todo, applied, storedKey, restarts, ran>>

(* Load the signing key, or generate one.                                  *)
LoadKey ==
    /\ proc = "key"
    /\ IF storedKey # 0
         THEN memKey' = storedKey /\ proc' = "listen" /\ UNCHANGED keys
         ELSE memKey' = keys + 1 /\ keys' = keys + 1 /\ proc' = "persist"
    /\ UNCHANGED <<release, todo, applied, storedKey, restarts, ran>>

PersistKey ==
    /\ proc = "persist"
    /\ storedKey' = memKey
    /\ proc' = "listen"
    /\ UNCHANGED <<release, todo, applied, memKey, restarts, ran, keys>>

(* ListenAndServe has its socket.                                          *)
Listen ==
    /\ proc = "listen"
    /\ proc' = "serving"
    /\ UNCHANGED <<release, todo, applied, storedKey, memKey, restarts, ran, keys>>

(* The process ends: memory is lost.                                       *)
EndAs(state) ==
    /\ proc \in Running /\ restarts < MaxRestarts
    /\ proc' = state /\ todo' = {} /\ memKey' = 0
    /\ restarts' = restarts + 1
    /\ UNCHANGED <<release, applied, storedKey, ran, keys>>

(* os.Exit(1) on a start-up error or a shutdown that takes too long, a     *)
(* panic, a kill: Restart=on-failure starts the process again.             *)
Exit == EndAs("down")

(* SIGTERM or SIGINT: caught once the server is set up, fatal before; the  *)
(* service manager takes both for a clean end.                             *)
Stop == EndAs("stopped")

(* ListenAndServe returns an error (the port is taken, the listener        *)
(* fails): it is logged, and main returns as after a signal.               *)
ServerFails ==
    /\ proc \in {"listen", "serving"}
    /\ EndAs("failed")

OperatorStarts ==
    /\ proc \in {"stopped", "failed"}
    /\ proc' = "down"
    /\ UNCHANGED <<release, todo, applied, storedKey, memKey, restarts, ran, keys>>

StartUp ==
    \/ Start
    \/ \E v \in Versions : Apply(v)
    \/ Migrated
    \/ LoadKey
    \/ PersistKey
    \/ Listen

BootNext == StartUp \/ Exit \/ Stop \/ ServerFails \/ OperatorStarts

BootSpec == BootInit /\ [][BootNext]_bootVars

-----------------------------------------------------------------------------
(* Properties                                                              *)

(* Whatever the process dies of, a migration's body takes effect exactly   *)
(* once and exactly when its version is recorded.                          *)
BodiesRunOnce == \A v \in Versions : ran[v] = IF v \in applied THEN 1 ELSE 0

(* While the server answers, the schema holds every migration its own code *)
(* was written against.                                                    *)
ServingSchemaIsCurrent == proc = "serving" => release \subseteq applied

(* Migrations take effect in the order of their numbers, across releases   *)
(* and interrupted starts: the applied ones are the first of all there are. *)
AppliedInOrder ==
    \A v \in applied, w \in Versions : w < v => w \in applied

(* A process that is started, or that a failure ended, gets to serve       *)
(* unless it is ended with status 0: a start interrupted at any point can  *)
(* be resumed by the next one.                                             *)
StartsServing == proc = "down" ~> proc \in {"serving", "stopped", "failed"}
=============================================================================
