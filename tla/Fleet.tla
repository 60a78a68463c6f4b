------------------------------- MODULE Fleet --------------------------------
(***************************************************************************)
(* Nodes, users, pre-auth keys and settings as an operator manages them,   *)
(* and the trail this leaves in the audit log.                             *)
(*                                                                         *)
(* Three parties share the rows of Headscale's database: Headscale, which  *)
(* serves from memory and writes what nodes report; API calls, which ask   *)
(* Headscale; and the Edit Node form, which the dashboard turns into an    *)
(* UPDATE of its own, followed, if the operator wants, by a restart of     *)
(* Headscale and a page that waits for it.  A request is used once.  It    *)
(* starts with the page that holds the form, where time passes, and then   *)
(* moves one call or statement at a time.                                  *)
(***************************************************************************)
EXTENDS AuditLog

CONSTANTS
    Requests,
    Ids,               \* ids of nodes and of pre-auth keys, which overlap
    Names,             \* names of Headscale users
    Lookalikes,        \* users that read "node.<id>", and the id each one has
    Nodes,             \* ids that are nodes at first
    Typed,             \* what operators type into a form: <<field, text>>
    Null,              \* SQL NULL
    None,
    MaxPolls,          \* polls of the wait page: 90
    MaxFaults          \* bound: failed calls and deaths of the dashboard

(* One column for each way of being written: by operators, by Headscale as *)
(* nodes report or calls ask, only past the danger gate, by deletion, and  *)
(* by every UPDATE.                                                        *)
Columns == {"given_name", "expiry", "machine_key", "deleted_at", "updated_at"}
DangerColumns == {"machine_key"}
TimeColumns == {"expiry", "deleted_at", "updated_at"}
Fields == Columns \cup {"id"}
DetailFields == {"id", "given_name"}

(* A time as toString writes it: without a fraction or a zone.             *)
ToSecond(v) == CASE v = "old" -> "old, to the second"
                 [] v = "new" -> "new, to the second"
                 [] OTHER     -> v

\* "now", the time of an UPDATE, is written to the second
Texts == {"", "old", "new", "now", "old, to the second", "new, to the second"}

Kinds == {"edit", "expire", "delete", "tags", "restart", "key", "expireKey",
          "createUser", "deleteUser", "save", "test", "savePreset", "deletePreset"}

Settings == {"headscale_db", "headscale", "smtp"}

Subjects == ({"node", "key"} \X Ids) \cup ({"user"} \X Names)
              \cup ({"settings", "test"} \X Settings) \cup ({"preset"} \X Ids)
              \cup {<<"service", None>>}

ASSUME FleetAssumption ==
    /\ None \notin Requests \cup Ids \cup Names \cup Fields \cup Kinds \cup Subjects
    /\ Null \notin Ids \cup {""}
    /\ Ids \cap Names = {} /\ "" \notin Ids
    /\ Nodes \subseteq Ids
    /\ DOMAIN Lookalikes \subseteq Names /\ \A u \in DOMAIN Lookalikes : Lookalikes[u] \in Ids
    /\ Typed \subseteq (Columns \X Texts) \cup ({"id"} \X Ids)
    /\ MaxPolls \in Nat \ {0} /\ MaxFaults \in Nat

VARIABLES
    rows,              \* Headscale's nodes table
    keys,              \* its pre_auth_keys: "none", "valid" or "expired"
    users,             \* its users
    served,            \* ids of the nodes in Headscale's memory
    headscale,         \* the process: down, starting, loaded, up
    enabled,           \* setting headscale_db: direct editing is on
    reachable,         \* setting headscale: address and API key are right
    presets,           \* register_presets
    log,               \* audit_log
    req,               \* the requests
    faults,
    \* history
    did,               \* what each request changed or refused to change
    cut,               \* requests an error or an exit stopped
    stale,             \* forms whose row another party has written
    unloaded           \* saved edits that Headscale has not read yet

database == <<rows, keys, users>>
service == <<served, headscale>>
settings == <<enabled, reachable, presets>>
history == <<did, cut, stale, unloaded>>
vars == <<database, service, settings, log, req, faults, history>>

Rows == [Columns -> Texts \cup {Null}]

PCs == {"new", "form", "update", "restart", "call", "lookup",
        "audit", "wait", "done", "back", "gaveUp"}

(* What a request of each kind is about, and the entry it writes: a prefix *)
(* and a name, which read alike when a user is called "node.<id>".  (The   *)
(* mail test names the recipient, which is a setting here.)                *)
Subject(kind) ==
    CASE kind \in {"edit", "expire", "delete", "tags"} -> Ids
      [] kind \in {"expireKey", "savePreset", "deletePreset"} -> Ids
      [] kind \in {"key", "createUser", "deleteUser"} -> Names
      [] kind \in {"save", "test"} -> Settings
      [] OTHER -> {None}

Action(kind) ==
    CASE kind = "expire"     -> "headscale.node.expire"
      [] kind = "delete"     -> "headscale.node.delete"
      [] kind = "key"        -> "headscale.preauthkey.create"
      [] kind = "expireKey"  -> "headscale.preauthkey.expire"
      [] kind = "createUser" -> "headscale.user.create"
      [] kind = "deleteUser" -> "headscale.user.delete"
      [] kind = "test"       -> "smtp.test"
      [] OTHER               -> "settings.update"

Target(kind, id) ==
    CASE kind = "edit"    -> NodeTarget(id)
      [] kind = "tags"    -> TagsTarget(id)
      [] kind = "restart" -> Bare("headscale.restart")
      [] kind = "savePreset"   -> Bare("register_preset.save")
      [] kind = "deletePreset" -> Bare("register_preset.delete")
      [] OTHER            -> IF id \in DOMAIN Lookalikes THEN NodeTarget(Lookalikes[id]) ELSE Bare(id)

(* id: what the request is about; form: the fields it submits; touched:    *)
(* the one the operator typed into; set: the columns it goes on to write;  *)
(* refused: it skipped a column; unread: it could not read the row;        *)
(* reload: it restarts Headscale, or has.                                  *)
NoFields == [f \in {} |-> ""]
Blank == [pc |-> "new", kind |-> None, id |-> None, form |-> NoFields, touched |-> None,
          set |-> NoFields, refused |-> FALSE, unread |-> FALSE, reload |-> FALSE, polls |-> 0]

Handling == {"update", "restart", "call", "lookup", "audit"}

Forms == {form \in UNION {[D -> Texts \cup Ids] : D \in SUBSET Fields} :
             \A f \in DOMAIN form : form[f] \in (IF f = "id" THEN Ids \cup {""} ELSE Texts)}

Things == Ids \cup Names \cup Settings \cup {None}

RequestStates ==
    [pc: PCs, kind: Kinds \cup {None}, id: Things, form: Forms, touched: Fields \cup {None},
     set: Forms, refused: BOOLEAN, unread: BOOLEAN, reload: BOOLEAN, polls: 0..MaxPolls]

Entries == {[by |-> r, action |-> Action(kind), target |-> Target(kind, id)] :
               r \in Requests, kind \in Kinds, id \in Things}

(* Each handler gets requests of its own kind, and a page waits no longer  *)
(* than it may.                                                            *)
Handles(q) ==
    /\ q.pc \in Handling \cup {"form"} => q.kind \in Kinds /\ q.id \in Subject(q.kind)
    /\ q.pc \in {"form", "update"} => q.kind = "edit"
    /\ q.pc = "update" => DOMAIN q.set # {}
    /\ q.pc = "restart" => q.kind \in {"edit", "restart"}
    /\ q.pc = "lookup" => q.kind = "key"
    /\ q.pc = "call" => q.kind \notin {"edit", "restart"}
    /\ q.pc = "wait" => q.polls < MaxPolls

FleetTypeOK ==
    /\ rows \in [Ids -> Rows \cup {None}]
    /\ keys \in [Ids -> {"none", "valid", "expired"}]
    /\ users \in SUBSET Names /\ served \in SUBSET Ids
    /\ headscale \in {"down", "starting", "loaded", "up"}
    /\ enabled \in BOOLEAN /\ reachable \in BOOLEAN /\ presets \in SUBSET Ids
    /\ req \in [Requests -> RequestStates]
    /\ \A r \in Requests : Handles(req[r])
    /\ log \in Seq(Entries)
    /\ did \in [Requests -> Subjects \cup {None}]
    /\ faults \in 0..MaxFaults
    /\ cut \in SUBSET Requests /\ stale \in SUBSET Requests
    /\ unloaded \in SUBSET Requests

FreshRow == [c \in Columns |-> IF c \in {"deleted_at", "expiry"} THEN Null ELSE "old"]

(* ListFullNodes: WHERE deleted_at IS NULL.                                *)
Listed(n) == rows[n] # None /\ rows[n]["deleted_at"] = Null

Init ==
    /\ rows = [n \in Ids |-> IF n \in Nodes THEN FreshRow ELSE None]
    /\ served = Nodes
    /\ keys = [k \in Ids |-> "none"] /\ users = Names
    /\ headscale = "up" /\ enabled \in BOOLEAN /\ reachable = TRUE /\ presets = {}
    /\ log = <<>>
    /\ req = [r \in Requests |-> Blank]
    /\ faults = 0
    /\ did = [r \in Requests |-> None]
    /\ cut = {} /\ stale = {} /\ unloaded = {}

(* headscaleClient: the settings are there, and a ping is answered.        *)
Answers == reachable /\ headscale = "up"

At(r, pc) == req[r].pc = pc
Goto(r, pc) == req' = [req EXCEPT ![r].pc = pc]
Finish(r, pc) == req' = [req EXCEPT ![r] = [Blank EXCEPT !.pc = pc]]

(* Past the UPDATE only what the audit entry and the answer need is kept.  *)
Conclude(r, pc, reload) ==
    req' = [req EXCEPT ![r] = [Blank EXCEPT !.pc = pc, !.kind = req[r].kind,
                                            !.id = req[r].id, !.reload = reload]]
Did(r, subject) == did' = [did EXCEPT ![r] = subject]
Env == <<settings, log, faults>>

(* Forms other than r's that hold row n.                                   *)
Holders(n) == {q \in Requests : req[q].kind = "edit" /\ req[q].id = n
                                  /\ req[q].pc \in {"form", "update"}}
Disturb(n, r) == stale' = stale \cup (Holders(n) \ {r})

-----------------------------------------------------------------------------
(* POST /nodes/edit *)

(* toString of one column of the row.                                      *)
Text(c, v) == IF v = Null THEN "" ELSE IF c \in TimeColumns THEN ToSecond(v) ELSE v

Shown(n) == [f \in Fields |-> IF f = "id" THEN n ELSE Text(f, rows[n][f])]
BlankRow == [f \in Fields |-> ""]

(* GET /nodes offers inputs for every column of a row it finds; GET        *)
(* /nodes/{id} offers its few inputs whether or not it could read the row. *)
OpenForm(r, n, fields, row) ==
    /\ At(r, "new")
    /\ Answers /\ n \in served /\ enabled
    /\ req' = [req EXCEPT ![r].pc = "form", ![r].kind = "edit", ![r].id = n,
                          ![r].form = [f \in fields |-> row[f]]]
    /\ UNCHANGED <<database, service, settings, log, history>>

LoadForm(r, n) ==
    /\ \/ Listed(n) /\ OpenForm(r, n, Fields, Shown(n))
       \/ OpenForm(r, n, DetailFields, IF Listed(n) THEN Shown(n) ELSE BlankRow)
    /\ UNCHANGED faults

LoadFormFails(r, n) ==
    /\ faults < MaxFaults
    /\ OpenForm(r, n, DetailFields, BlankRow)
    /\ faults' = faults + 1

(* r.FormValue: a field the form does not have reads as a blank one.       *)
FormValue(form, f) == IF f \in DOMAIN form THEN form[f] ELSE ""

\* slip: such a field is compared, too
ChangedOrAbsent(form, current) == {f \in Fields : FormValue(form, f) # current[f]}

Changed(form, current) == {f \in DOMAIN form : FormValue(form, f) # current[f]}

\* slip: a save whose every change was refused goes on to the UPDATE
CompareLate(r, f, form, danger, restart, current, unread) ==
    LET changed == Changed(form, current)
        allowed == changed \ (IF danger THEN {} ELSE DangerColumns)
    IN  /\ IF changed = {} THEN Finish(r, "done")
           ELSE req' = [req EXCEPT ![r].pc = "update", ![r].touched = f, ![r].form = form,
                                   ![r].set = [g \in allowed |-> FormValue(form, g)],
                                   ![r].refused = FALSE, ![r].unread = unread,
                                   ![r].reload = restart]
        /\ UNCHANGED did

(* The loop over AllowedColumns; an id that is not one ends the save.      *)
Compare(r, f, form, danger, restart, current, unread) ==
    LET changed == Changed(form, current)
        allowed == changed \ (IF danger THEN {} ELSE DangerColumns)
        refused == changed # allowed
    IN  IF "id" \in allowed /\ form["id"] \notin Ids
          THEN Finish(r, "done") /\ UNCHANGED did
          ELSE /\ IF refused THEN Did(r, <<"node", req[r].id>>) ELSE UNCHANGED did
               /\ \/ allowed = {} /\ refused /\ Conclude(r, "audit", FALSE)
                  \/ allowed = {} /\ ~refused /\ Finish(r, "done")
                  \/ /\ allowed # {}
                     /\ req' = [req EXCEPT ![r].pc = "update", ![r].touched = f, ![r].form = form,
                                           ![r].set = [g \in allowed |-> FormValue(form, g)],
                                           ![r].refused = refused, ![r].unread = unread,
                                           ![r].reload = restart]

(* The operator types into one field at most, ticks the danger gate or     *)
(* not, which only the form of the nodes page has, and saves.              *)
Save(r, f, text, danger, restart, current, unread) ==
    /\ At(r, "form")
    /\ f # None => f \in DOMAIN req[r].form /\ <<f, text>> \in Typed
    /\ danger => DOMAIN req[r].form = Fields
    /\ IF enabled
         THEN Compare(r, f, IF f = None THEN req[r].form ELSE [req[r].form EXCEPT ![f] = text],
                      danger, restart, current, unread)
         ELSE Finish(r, "done") /\ UNCHANGED did
    /\ UNCHANGED <<database, service, settings, log, cut, stale, unloaded>>

Submit(r, f, text, danger, restart) ==
    /\ Save(r, f, text, danger, restart,
            IF Listed(req[r].id) THEN Shown(req[r].id) ELSE BlankRow, FALSE)
    /\ UNCHANGED faults

(* A failed read is reported, and the save goes on against an empty row.   *)
SubmitUnread(r, f, text, danger, restart) ==
    /\ faults < MaxFaults
    /\ enabled
    /\ Save(r, f, text, danger, restart, BlankRow, TRUE)
    /\ faults' = faults + 1

(* The UPDATE failed: only what was refused is left to record.             *)
GiveUpEdit(r) ==
    /\ IF req[r].refused THEN Conclude(r, "audit", FALSE) ELSE Finish(r, "done")
    /\ UNCHANGED <<database, service, settings, log, history>>

(* UPDATE nodes SET ..., updated_at = ? WHERE id = ?, deleted rows         *)
(* included.  An id that is taken fails; no row at all is no error.        *)
Written(set, row) ==
    [c \in Columns |-> IF c \in DOMAIN set THEN set[c]
                       ELSE IF c = "updated_at" THEN "now" ELSE row[c]]

UpdateNodeFields(r) ==
    /\ At(r, "update")
    /\ LET n == req[r].id
           set == req[r].set
           m == IF "id" \in DOMAIN set THEN set["id"] ELSE n
       IN  IF m # n /\ rows[n] # None /\ rows[m] # None
             THEN GiveUpEdit(r)
             ELSE /\ rows' = IF rows[n] = None THEN rows
                             ELSE [rows EXCEPT ![n] = None, ![m] = Written(set, rows[n])]
                  /\ Conclude(r, IF req[r].reload THEN "restart" ELSE "audit", FALSE)
                  /\ Did(r, <<"node", n>>)
                  /\ stale' = (stale \cup Holders(n) \cup Holders(m)) \ {r}
                  /\ unloaded' = unloaded \cup {r}
                  /\ UNCHANGED <<keys, users, service, settings, log, cut>>
    /\ UNCHANGED faults

UpdateFails(r) ==
    /\ faults < MaxFaults
    /\ At(r, "update")
    /\ GiveUpEdit(r)
    /\ faults' = faults + 1

-----------------------------------------------------------------------------
(* Restarts *)

\* slip: a restart under way is taken to be enough
RestartUnlessStarting(r) ==
    /\ At(r, "restart")
    /\ headscale' = IF headscale \in {"starting", "loaded"} THEN headscale ELSE "starting"
    /\ Conclude(r, "audit", TRUE)
    /\ Did(r, IF req[r].kind = "edit" THEN did[r] ELSE <<"service", None>>)
    /\ UNCHANGED <<database, served, Env, cut, stale, unloaded>>

(* systemctl returns when the old process is gone and a new one started.   *)
RestartHeadscale(r) ==
    /\ At(r, "restart")
    /\ headscale' = "starting"
    /\ Conclude(r, "audit", TRUE)
    /\ Did(r, IF req[r].kind = "edit" THEN did[r] ELSE <<"service", None>>)
    /\ UNCHANGED <<database, served, Env, cut, stale, unloaded>>

(* A failed command may have stopped the service.  The edit is recorded    *)
(* with the failure; POST /headscale/restart just reports it.              *)
RestartFails(r) ==
    /\ faults < MaxFaults
    /\ At(r, "restart")
    /\ headscale' \in {headscale, "starting", "down"}
    /\ IF req[r].kind = "edit"
         THEN Conclude(r, "audit", FALSE) /\ UNCHANGED cut
         ELSE Finish(r, "done") /\ cut' = cut \cup {r}
    /\ faults' = faults + 1
    /\ UNCHANGED <<database, served, settings, log, did, stale, unloaded>>

(* Headscale: reads its database, builds the network map, and answers.     *)
LoadDatabase ==
    /\ headscale = "starting"
    /\ headscale' = "loaded"
    /\ served' = {n \in Ids : Listed(n)}
    /\ unloaded' = {}
    /\ UNCHANGED <<database, Env, req, did, cut, stale>>

ComeUp ==
    /\ headscale = "loaded"
    /\ headscale' = "up"
    /\ UNCHANGED <<database, served, Env, req, history>>

(* A node reports.  Bound: only reports that a form misses are modelled.   *)
Report(n) ==
    /\ headscale = "up" /\ n \in served /\ Holders(n) # {}
    /\ rows[n] # None /\ rows[n]["expiry"] # "new"
    /\ rows' = [rows EXCEPT ![n]["expiry"] = "new"]
    /\ Disturb(n, None)
    /\ UNCHANGED <<keys, users, service, Env, req, did, cut, unloaded>>

\* slip: only answers of a running Headscale count as attempts
PollUncounted(r) ==
    /\ At(r, "wait")
    /\ Answers /\ Finish(r, "back")
    /\ UNCHANGED <<database, service, Env, history>>

(* The wait page asks GET /headscale/ready once a second, which pings      *)
(* Headscale; it goes back when the answer is yes, and gives up in the end.*)
Poll(r) ==
    /\ At(r, "wait")
    /\ IF Answers THEN Finish(r, "back")
       ELSE req' = [req EXCEPT ![r].polls = @ + 1,
                               ![r].pc = IF req[r].polls + 1 < MaxPolls THEN @ ELSE "gaveUp"]
    /\ UNCHANGED <<database, service, Env, history>>

(* A poll that fails or times out counts, too.                             *)
PollFails(r) ==
    /\ faults < MaxFaults
    /\ At(r, "wait")
    /\ req' = [req EXCEPT ![r].polls = @ + 1,
                          ![r].pc = IF req[r].polls + 1 < MaxPolls THEN @ ELSE "gaveUp"]
    /\ faults' = faults + 1
    /\ UNCHANGED <<database, service, settings, log, history>>

-----------------------------------------------------------------------------
(* The other handlers: one call each, and two for a pre-auth key.          *)
(* headscaleRestart and preAuthKeysExpire need direct editing to be on.    *)
NeedsEditing(kind) == kind \in {"restart", "expireKey"}

Arrive(r, kind, id) ==
    /\ At(r, "new") /\ kind # "edit" /\ id \in Subject(kind)
    /\ IF NeedsEditing(kind) /\ ~enabled
         THEN Finish(r, "done")
         ELSE req' = [req EXCEPT ![r].kind = kind, ![r].id = id,
                   ![r].pc = CASE kind = "restart" -> "restart"
                               [] kind = "key"     -> "lookup"
                               [] OTHER            -> "call"]
    /\ UNCHANGED <<database, service, Env, history>>

(* userIDByName *)
LookUpUser(r) ==
    /\ At(r, "lookup")
    /\ IF Answers /\ req[r].id \in users THEN Goto(r, "call") ELSE Finish(r, "done")
    /\ UNCHANGED <<database, service, Env, history>>

(* What each call does when it is served.                                  *)
ExpireNode(r) ==
    LET n == req[r].id IN
    /\ req[r].kind = "expire" /\ Answers /\ n \in served
    /\ rows' = IF rows[n] = None THEN rows ELSE [rows EXCEPT ![n]["expiry"] = "new"]
    /\ Disturb(n, r)
    /\ Did(r, <<"node", n>>)
    /\ UNCHANGED <<keys, users, served, settings>>

(* The row goes, or is marked as deleted.                                  *)
DeleteNode(r) ==
    LET n == req[r].id IN
    /\ req[r].kind = "delete" /\ Answers /\ n \in served
    /\ \/ rows' = [rows EXCEPT ![n] = None]
       \/ rows[n] # None /\ rows' = [rows EXCEPT ![n]["deleted_at"] = "new"]
    /\ served' = served \ {n}
    /\ Disturb(n, r)
    /\ Did(r, <<"node", n>>)
    /\ UNCHANGED <<keys, users, settings>>

(* The tags themselves are in TagOps.                                      *)
SetNodeTags(r) ==
    LET n == req[r].id IN
    /\ req[r].kind = "tags" /\ Answers /\ n \in served
    /\ Did(r, <<"node", n>>)
    /\ UNCHANGED <<database, served, settings, stale>>

CreatePreAuthKey(r) ==
    /\ req[r].kind = "key" /\ Answers /\ req[r].id \in users
    /\ \E k \in Ids : /\ keys[k] = "none"
                      /\ keys' = [keys EXCEPT ![k] = "valid"]
                      /\ Did(r, <<"key", k>>)
    /\ UNCHANGED <<rows, users, served, settings, stale>>

(* In Headscale's database, whether or not Headscale runs.                 *)
ExpirePreAuthKeyByID(r) ==
    LET k == req[r].id IN
    /\ req[r].kind = "expireKey" /\ keys[k] # "none"
    /\ keys' = [keys EXCEPT ![k] = "expired"]
    /\ Did(r, <<"key", k>>)
    /\ UNCHANGED <<rows, users, served, settings, stale>>

\* the name must have an "@", which "node.<id>" has not
CreateUser(r) ==
    /\ req[r].kind = "createUser" /\ Answers
    /\ req[r].id \notin users \cup DOMAIN Lookalikes
    /\ users' = users \cup {req[r].id}
    /\ Did(r, <<"user", req[r].id>>)
    /\ UNCHANGED <<rows, keys, served, settings, stale>>

DeleteUser(r) ==
    /\ req[r].kind = "deleteUser" /\ Answers /\ req[r].id \in users
    /\ users' = users \ {req[r].id}
    /\ Did(r, <<"user", req[r].id>>)
    /\ UNCHANGED <<rows, keys, served, settings, stale>>

(* POST /settings/...: saved as typed.                                     *)
SaveSetting(r) ==
    /\ req[r].kind = "save"
    /\ CASE req[r].id = "headscale_db" -> enabled' \in BOOLEAN /\ UNCHANGED reachable
         [] req[r].id = "headscale"    -> reachable' \in BOOLEAN /\ UNCHANGED enabled
         [] OTHER                      -> UNCHANGED <<enabled, reachable>>
    /\ Did(r, <<"settings", req[r].id>>)
    /\ UNCHANGED <<database, served, presets, stale>>

(* POST /settings/.../test: saved, and turned on, once they are found to   *)
(* work.  Only the mail test leaves an audit entry; the two others change  *)
(* settings and leave none.                                                *)
TestSetting(r) ==
    /\ req[r].kind = "test"
    /\ CASE req[r].id = "headscale_db" -> enabled' = TRUE /\ UNCHANGED reachable
         [] req[r].id = "headscale"    -> headscale = "up" /\ reachable' = TRUE /\ UNCHANGED enabled
         [] OTHER                      -> UNCHANGED <<enabled, reachable>>
    /\ Did(r, <<"test", req[r].id>>)
    /\ UNCHANGED <<database, served, presets, stale>>

(* An upsert by name, and a DELETE that finds its row or not.              *)
SavePreset(r) ==
    /\ \/ req[r].kind = "savePreset" /\ presets' = presets \cup {req[r].id}
       \/ req[r].kind = "deletePreset" /\ presets' = presets \ {req[r].id}
    /\ Did(r, <<"preset", req[r].id>>)
    /\ UNCHANGED <<database, served, enabled, reachable, stale>>

Effect(r) ==
    /\ \/ ExpireNode(r) \/ DeleteNode(r) \/ SetNodeTags(r)
       \/ CreatePreAuthKey(r) \/ ExpirePreAuthKeyByID(r)
       \/ CreateUser(r) \/ DeleteUser(r)
       \/ SaveSetting(r) \/ TestSetting(r) \/ SavePreset(r)
    /\ UNCHANGED <<headscale, log, unloaded>>

Unrecorded(r) == req[r].kind = "test" /\ req[r].id # "smtp"

(* Headscale may also reject what it is asked, or be down.                 *)
Call(r) ==
    /\ At(r, "call")
    /\ \/ Effect(r) /\ (IF Unrecorded(r) THEN Finish(r, "done") ELSE Goto(r, "audit"))
       \/ Finish(r, "done") /\ UNCHANGED <<database, service, settings, log, history>>
    /\ UNCHANGED <<faults, cut>>

(* A call that fails or times out, perhaps after it took effect.           *)
CallFails(r) ==
    /\ faults < MaxFaults
    /\ \/ At(r, "call") /\ Effect(r)
       \/ /\ At(r, "call") \/ At(r, "lookup")
          /\ UNCHANGED <<database, service, settings, log, did, stale, unloaded>>
    /\ Finish(r, "done")
    /\ faults' = faults + 1
    /\ cut' = cut \cup {r}

-----------------------------------------------------------------------------
(* audit.Write, the last thing a handler does before it answers.           *)
Answered(r) == Finish(r, IF req[r].reload THEN "wait" ELSE "done")

\* slip: a save that asked for a restart goes to the wait page at once
AuditUnlessReload(r) ==
    /\ At(r, "audit")
    /\ log' = IF req[r].reload THEN log
              ELSE Write(log, r, Action(req[r].kind), Target(req[r].kind, req[r].id))
    /\ Answered(r)
    /\ UNCHANGED <<database, service, settings, faults, history>>

Audit(r) ==
    /\ At(r, "audit")
    /\ log' = Write(log, r, Action(req[r].kind), Target(req[r].kind, req[r].id))
    /\ Answered(r)
    /\ UNCHANGED <<database, service, settings, faults, history>>

(* A failed INSERT goes to the system log only.                            *)
AuditFails(r) ==
    /\ faults < MaxFaults
    /\ At(r, "audit")
    /\ Answered(r)
    /\ faults' = faults + 1
    /\ cut' = cut \cup {r}
    /\ UNCHANGED <<database, service, settings, log, did, stale, unloaded>>

(* The dashboard dies and is started again.  Forms and wait pages are in   *)
(* the browser and stay.                                                   *)
Die ==
    /\ faults < MaxFaults
    /\ LET dying == {r \in Requests : req[r].pc \in Handling} IN
         /\ req' = [r \in Requests |-> IF r \in dying THEN [Blank EXCEPT !.pc = "done"] ELSE req[r]]
         /\ cut' = cut \cup dying
    /\ faults' = faults + 1
    /\ UNCHANGED <<database, service, settings, log, did, stale, unloaded>>

Step(r) ==
    \/ UpdateNodeFields(r) \/ RestartHeadscale(r)
    \/ LookUpUser(r) \/ Call(r) \/ Audit(r) \/ Poll(r)

StepFails(r) ==
    \/ UpdateFails(r) \/ RestartFails(r)
    \/ CallFails(r) \/ AuditFails(r) \/ PollFails(r)

Operator(r) ==
    \/ \E n \in Ids : LoadForm(r, n) \/ LoadFormFails(r, n)
    \/ \E edit \in Typed \cup {<<None, "">>}, danger, restart \in BOOLEAN :
          \/ Submit(r, edit[1], edit[2], danger, restart)
          \/ SubmitUnread(r, edit[1], edit[2], danger, restart)
    \/ \E kind \in Kinds, id \in Ids \cup Names \cup Settings \cup {None} : Arrive(r, kind, id)

Next ==
    \/ \E r \in Requests : Operator(r) \/ Step(r) \/ StepFails(r)
    \/ LoadDatabase \/ ComeUp
    \/ \E n \in Ids : Report(n)
    \/ Die

Spec == Init /\ [][Next]_vars

(* A wait page polls on by itself.  Nothing is assumed of the handlers     *)
(* (the restart command has no deadline), nor that Headscale comes up.     *)
FairSpec == Spec /\ \A r \in Requests : WF_vars(Poll(r))

-----------------------------------------------------------------------------
(* Properties                                                              *)

(* handlers.go: "Diffs against the current row so only changed columns are *)
(* written".  When nobody else wrote the row since the form was made, and  *)
(* the row could be read at save time, a save changes the field the        *)
(* operator typed into and updated_at, which every UPDATE sets, and        *)
(* nothing else, also when the form shows only some columns, and when they *)
(* came up blank.  (In a blank form the operator must not type an id: see  *)
(* README.)                                                                *)
EditOf(n, f, form) ==
    LET edited == [c \in Columns |-> IF c = f THEN form[c]
                                     ELSE IF c = "updated_at" THEN "now" ELSE rows[n][c]]
    IN  CASE f = None -> rows
          [] f = "id" -> [rows EXCEPT ![n] = None, ![form["id"]] = edited]
          [] OTHER    -> [rows EXCEPT ![n] = edited]

EditIsExact(r) ==
    At(r, "update") /\ ~At(r, "update")' /\ r \notin stale /\ rows' # rows
      /\ (req[r].touched = "id" => req[r].form["given_name"] # "")
    => rows' = EditOf(req[r].id, req[r].touched, req[r].form)

UndisturbedEditIsExact == [][\A r \in Requests : ~req[r].unread => EditIsExact(r)]_vars

(* When the wait page sends the operator back, Headscale has read what the *)
(* operator saved, whatever other restarts were under way.                 *)
RedirectMeansReloaded == \A r \in Requests : At(r, "back") => r \notin unloaded

(* wait.html: no wait page spins for ever.                                 *)
WaitEnds == \A r \in Requests : At(r, "wait") ~> ~At(r, "wait")

(* audit.go: "The bare-id form is filtered to the two node actions to      *)
(* avoid false-matching": the page of a node shows the newest of what was  *)
(* done to this node and nothing else, though keys have the same numbers.  *)
(* (If a user reads "node.<id>", what is done to the user is listed, too.) *)
Unambiguous(n) == \A u \in DOMAIN Lookalikes : Lookalikes[u] # n

NodeHistoryIsExact ==
    \A n \in Ids : Unambiguous(n) =>
        ListForNode(log, n, NodePage) =
            Newest({i \in DOMAIN log : did[log[i].by] = <<"node", n>>}, NodePage)

(* What a request changed is in the log, once, when the request is         *)
(* answered, unless a failure or an exit stopped it, or it was a test of   *)
(* the Headscale connection or of the database, which save the settings    *)
(* they tested and write no entry; and what is in the log was done.        *)
UnloggedTests == {"test"} \X {"headscale", "headscale_db"}

EffectsAreLogged ==
    /\ \A r \in Requests :
          req[r].pc \in {"wait", "done", "back", "gaveUp"} /\ r \notin cut
            /\ did[r] \notin UnloggedTests \cup {None}
          => Cardinality({i \in DOMAIN log : log[i].by = r}) = 1
    /\ \A i \in DOMAIN log : did[log[i].by] # None

(* handlers.go: "auditExportJSON streams every audit log row as a JSON     *)
(* array".                                                                 *)
ExportIsComplete == List(log, ExportRows, 0) = log
=============================================================================
