------------------------------- MODULE TagOps -------------------------------
(***************************************************************************)
(* Edits of the access policy and of the tags on nodes and pre-auth keys.  *)
(*                                                                         *)
(* The policy lives behind Headscale's API and is read, edited in memory   *)
(* and put back.  Renaming or deleting a tag goes on to rewrite two tables *)
(* of Headscale's own database and to restart Headscale, which serves from *)
(* memory and loads the database when it starts.  A request is used once   *)
(* and makes one call at a time; any other request may run in between.     *)
(***************************************************************************)
EXTENDS Policy, FiniteSets

CONSTANTS
    Requests,
    Nodes, Keys,
    Tags,              \* names of the form tag:*
    Members,           \* what can own a tag or be in a group
    Groups,            \* names of the form group:*
    NewRules,          \* rules the builder may append
    Bodies,            \* documents: initial ones and those of the raw editor
    TagLists,          \* tag lists that nodes and keys may carry
    Undecodable,       \* a tags column that is not a JSON list: it can be edited as text
    MaxFaults          \* bound: failed calls and reads that break off

ASSUME TagOpsAssumption ==
    /\ TagLists \subseteq SUBSET Tags /\ Undecodable \notin SUBSET Tags
    /\ MaxFaults \in Nat
    /\ \A tag \in Tags : tag \in Names /\ Len(tag) >= 2
    /\ Bodies \subseteq Documents(Groups, Tags, Members)
    /\ \A body \in Bodies : RulesAreUsable(body)
    /\ NewRules \subseteq Rule
    /\ \A rule \in NewRules : rule.src # {} /\ rule.dst # {}

VARIABLES
    policy,            \* stored by Headscale: form and body
    nodes, keys,       \* tags columns of nodes and pre_auth_keys
    live,              \* node tags in Headscale's memory
    up,                \* Headscale has loaded its database and answers
    req,               \* the requests
    faults,
    \* history
    disturbed,         \* requests during which another one wrote something
    broken,            \* requests that read a table in part
    unserved           \* a tag operation ended between its first write and its restart

tables == <<nodes, keys>>
headscale == <<live, up>>
history == <<disturbed, broken, unserved>>
vars == <<policy, tables, headscale, req, faults, history>>

Ops == [kind: {"rule"}, rule: NewRules]
         \cup [kind: {"group"}, name: Groups, members: (SUBSET Members) \ {{}}]
         \cup [kind: {"owner"}, tag: Tags, members: (SUBSET Members) \ {{}}]
         \cup [kind: {"rename"}, old: Tags, new: Tags]
         \cup [kind: {"delete"}, old: Tags]

TagOp(op) == op.kind \in {"rename", "delete"}

(* The closure each handler passes to loadAndMutate.                       *)
Mutate(p, op) ==
    CASE op.kind = "rule"   -> [p EXCEPT !.acls = @ \cup {op.rule}]
      [] op.kind = "group"  -> [p EXCEPT !.groups = With(@, op.name, op.members)]
      [] op.kind = "owner"  -> [p EXCEPT !.owners = With(@, op.tag, op.members)]
      [] op.kind = "rename" -> RenameTagInPolicy(p, op.old, op.new)
      [] op.kind = "delete" -> DeleteTagFromPolicy(p, op.old)

(* applyTagOp's transform of one tag list.                                 *)
Transform(op, tags) ==
    IF op.kind = "rename" THEN RenameInList(tags, op.old, op.new) ELSE tags \ {op.old}

(* RewriteTags: the rows that change, as read before the transaction.  A   *)
(* row that does not decode is passed over.                                *)
Rewrite(op, table, read) ==
    LET changed == {k \in DOMAIN read : read[k] # Undecodable /\ Transform(op, read[k]) # read[k]}
    IN  [k \in DOMAIN table |-> IF k \in changed THEN Transform(op, read[k]) ELSE table[k]]

Cells == (SUBSET Tags) \cup {Undecodable}
Rows(K) == UNION {[part -> Cells] : part \in SUBSET K}
Carries(cell, tag) == cell # Undecodable /\ tag \in cell

Unserving == {"readKeys", "writeKeys", "restart"}
Applying == {"readNodes", "writeNodes"} \cup Unserving
PCs == {"new", "get", "put", "raw", "tags", "done", "failed"} \cup Applying

(* doc: the document to put; seen: the policy it was made from; rows: the  *)
(* snapshot RewriteTags works on.                                          *)
NoOp == [kind |-> "none"]
Blank == [pc |-> "new", op |-> NoOp, doc |-> EmptyPolicy, rows |-> NoLists,
          seen |-> [form |-> "absent", body |-> EmptyPolicy]]

InFlight(r) == req[r].pc \notin {"new", "done", "failed"}

Docs == Documents(Groups, Tags, Members)
Stored == [form: Forms, body: Docs]
RequestStates == [pc: PCs, op: Ops \cup {NoOp}, doc: Docs, seen: Stored,
                  rows: Rows(Nodes \cup Keys)]

OpFits(q) ==
    IF q.pc \in {"get", "put"} \cup Applying
      THEN q.op \in Ops /\ (q.pc \in Applying => TagOp(q.op))
      ELSE q.op = NoOp

RowsFit(q) ==
    /\ q.pc = "writeNodes" => q.rows \in Rows(Nodes)
    /\ q.pc = "writeKeys" => q.rows \in Rows(Keys)

(* Types.  A request holds an operation from the form that named it until  *)
(* it finishes, only a tag operation gets past the policy, and what it     *)
(* rewrites a table from are rows of that table.                           *)
TagOpsTypeOK ==
    /\ policy \in Stored
    /\ req \in [Requests -> RequestStates]
    /\ \A r \in Requests : OpFits(req[r]) /\ RowsFit(req[r])
    /\ nodes \in [Nodes -> Cells] /\ keys \in [Keys -> Cells]
    /\ live \in [Nodes -> Cells] /\ up \in BOOLEAN
    /\ faults \in 0..MaxFaults
    /\ disturbed \in SUBSET Requests /\ broken \in SUBSET Requests
    /\ unserved \in BOOLEAN

Init ==
    /\ policy \in [form: Forms, body: Bodies]
    /\ policy.form = "absent" => policy.body = EmptyPolicy
    /\ nodes \in [Nodes -> TagLists \cup {Undecodable}]
    /\ keys \in [Keys -> TagLists \cup {Undecodable}]
    /\ live = nodes /\ up = TRUE
    /\ req = [r \in Requests |-> Blank]
    /\ faults = 0 /\ disturbed = {} /\ broken = {} /\ unserved = FALSE

At(r, pc) == req[r].pc = pc
Goto(r, pc) == req' = [req EXCEPT ![r].pc = pc]
Finish(r, pc) == req' = [req EXCEPT ![r] = [Blank EXCEPT !.pc = pc]]

(* A write of r is seen by every other request that is under way.          *)
Disturbs(r) == disturbed' = disturbed \cup {q \in Requests \ {r} : InFlight(q)}

Put(r) == policy' = [form |-> "plain", body |-> req[r].doc]
PutRaw == \E form \in {"opaque", "plain"}, body \in Bodies : policy' = [form |-> form, body |-> body]
ReplaceTags(n, list) == /\ nodes' = [nodes EXCEPT ![n] = list]
                        /\ live' = [live EXCEPT ![n] = list]

-----------------------------------------------------------------------------
(* POST /policy/rules/add, /policy/groups/add, /policy/tagowners/add,      *)
(* /tags/add, /tags/rename, /tags/delete with a well-formed form, and      *)
(* Headscale configured; otherwise nothing happens.                        *)
Arrive(r, op) ==
    /\ At(r, "new")
    /\ op.kind = "rename" => op.old # op.new
    /\ req' = [req EXCEPT ![r].pc = "get", ![r].op = op]
    /\ UNCHANGED <<policy, tables, headscale, faults, history>>

(* loadAndMutate: GET, parse, mutate, and later PUT.                       *)
GetPolicy(r) ==
    /\ At(r, "get") /\ up
    /\ req' = [req EXCEPT ![r].pc = "put", ![r].seen = policy,
                          ![r].doc = Mutate(ParsePolicy(policy), req[r].op)]
    /\ UNCHANGED <<policy, tables, headscale, faults, history>>

\* slip: a tag the policy does not name is taken to be nowhere else
PutPolicyStopsEarly(r) ==
    /\ At(r, "put") /\ up
    /\ Put(r)
    /\ IF TagOp(req[r].op) /\ req[r].op.old \in DOMAIN req[r].seen.body.owners
         THEN Goto(r, "readNodes") ELSE Finish(r, "done")
    /\ Disturbs(r)
    /\ UNCHANGED <<tables, headscale, faults, broken, unserved>>

\* slip: the operation is not carried over to the tables
PutPolicyForgetsOp(r) ==
    /\ At(r, "put") /\ up
    /\ Put(r)
    /\ Finish(r, IF TagOp(req[r].op) THEN "readNodes" ELSE "done")
    /\ Disturbs(r)
    /\ UNCHANGED <<tables, headscale, faults, broken, unserved>>

(* Headscale may reject the document.                                      *)
PutPolicy(r) ==
    /\ At(r, "put") /\ up
    /\ \/ /\ Put(r)
          /\ IF TagOp(req[r].op) THEN Goto(r, "readNodes") ELSE Finish(r, "done")
          /\ Disturbs(r)
       \/ /\ Finish(r, "failed")
          /\ UNCHANGED <<policy, disturbed>>
    /\ UNCHANGED <<tables, headscale, faults, broken, unserved>>

(* POST /policy: the text is put as it is.                                 *)
RawArrive(r) ==
    /\ At(r, "new")
    /\ Goto(r, "raw")
    /\ UNCHANGED <<policy, tables, headscale, faults, history>>

SaveRaw(r) ==
    /\ At(r, "raw") /\ up
    /\ \/ PutRaw /\ Finish(r, "done") /\ Disturbs(r)
       \/ Finish(r, "failed") /\ UNCHANGED <<policy, disturbed>>
    /\ UNCHANGED <<tables, headscale, faults, broken, unserved>>

(* POST /nodes/tags: Headscale replaces the tags of one node.              *)
TagsArrive(r) ==
    /\ At(r, "new")
    /\ Goto(r, "tags")
    /\ UNCHANGED <<policy, tables, headscale, faults, history>>

SetNodeTags(r, n, list) ==
    /\ At(r, "tags") /\ up
    /\ ReplaceTags(n, list)
    /\ Finish(r, "done")
    /\ Disturbs(r)
    /\ UNCHANGED <<policy, keys, up, faults, broken, unserved>>

(* Nobody answers while Headscale is not up.                               *)
NotReached(r) ==
    /\ req[r].pc \in {"get", "put", "raw", "tags"} /\ ~up
    /\ Finish(r, "failed")
    /\ UNCHANGED <<policy, tables, headscale, faults, history>>

-----------------------------------------------------------------------------
(* applyTagOp after the policy: RewriteTags reads a table, then writes the *)
(* rows that change in one transaction.  An error after which Next returns *)
(* false is not looked at (rs.Err): the rows read until then are taken for *)
(* the table.                                                              *)
Read(r, table, pc) ==
    \/ /\ req' = [req EXCEPT ![r].pc = pc, ![r].rows = table]
       /\ UNCHANGED <<faults, broken>>
    \/ /\ faults < MaxFaults
       /\ \E part \in (SUBSET DOMAIN table) \ {DOMAIN table} :
             req' = [req EXCEPT ![r].pc = pc, ![r].rows = [k \in part |-> table[k]]]
       /\ faults' = faults + 1
       /\ broken' = broken \cup {r}

ReadNodes(r) ==
    /\ At(r, "readNodes")
    /\ Read(r, nodes, "writeNodes")
    /\ UNCHANGED <<policy, tables, headscale, disturbed, unserved>>

WriteNodes(r) ==
    /\ At(r, "writeNodes")
    /\ nodes' = Rewrite(req[r].op, nodes, req[r].rows)
    /\ Goto(r, "readKeys")
    /\ Disturbs(r)
    /\ UNCHANGED <<policy, keys, headscale, faults, broken, unserved>>

ReadKeys(r) ==
    /\ At(r, "readKeys")
    /\ Read(r, keys, "writeKeys")
    /\ UNCHANGED <<policy, tables, headscale, disturbed, unserved>>

\* slip: no restart when no key changed
WriteKeysSkipsRestart(r) ==
    /\ At(r, "writeKeys")
    /\ keys' = Rewrite(req[r].op, keys, req[r].rows)
    /\ IF keys' # keys THEN Goto(r, "restart") ELSE Finish(r, "done")
    /\ Disturbs(r)
    /\ UNCHANGED <<policy, nodes, headscale, faults, broken, unserved>>

WriteKeys(r) ==
    /\ At(r, "writeKeys")
    /\ keys' = Rewrite(req[r].op, keys, req[r].rows)
    /\ Goto(r, "restart")
    /\ Disturbs(r)
    /\ UNCHANGED <<policy, nodes, headscale, faults, broken, unserved>>

(* systemctl returns when Headscale has been stopped and started: what it  *)
(* serves it still has to load.                                            *)
RestartHeadscale(r) ==
    /\ At(r, "restart")
    /\ up' = FALSE
    /\ Finish(r, "done")
    /\ UNCHANGED <<policy, tables, live, faults, history>>

LoadDatabase ==
    /\ ~up
    /\ up' = TRUE
    /\ live' = nodes
    /\ unserved' = FALSE
    /\ UNCHANGED <<policy, tables, req, faults, disturbed, broken>>

-----------------------------------------------------------------------------
(* A call fails: the handler gives up where it is.  A call that times out  *)
(* may have taken effect at Headscale all the same, and a restart that     *)
(* fails may have stopped it.                                              *)
TookEffect(r) ==
    /\ up
    /\ \/ At(r, "put") /\ Put(r) /\ UNCHANGED <<nodes, live>>
       \/ At(r, "raw") /\ PutRaw /\ UNCHANGED <<nodes, live>>
       \/ /\ At(r, "tags")
          /\ \E n \in Nodes, list \in TagLists : ReplaceTags(n, list)
          /\ UNCHANGED policy
    /\ Disturbs(r)

CallFails(r) ==
    /\ faults < MaxFaults
    /\ InFlight(r)
    /\ TookEffect(r) \/ UNCHANGED <<policy, nodes, live, disturbed>>
    /\ \/ up' = up
       \/ At(r, "restart") /\ up' = FALSE
    /\ unserved' = (unserved \/ req[r].pc \in Unserving)
    /\ Finish(r, "failed")
    /\ faults' = faults + 1
    /\ UNCHANGED <<keys, broken>>

Step(r) ==
    \/ GetPolicy(r) \/ PutPolicy(r) \/ SaveRaw(r)
    \/ \E n \in Nodes, list \in TagLists : SetNodeTags(r, n, list)
    \/ ReadNodes(r) \/ WriteNodes(r) \/ ReadKeys(r) \/ WriteKeys(r)
    \/ RestartHeadscale(r)
    \/ NotReached(r)

Next ==
    \/ \E r \in Requests :
          \/ \E op \in Ops : Arrive(r, op)
          \/ RawArrive(r)
          \/ TagsArrive(r)
          \/ Step(r)
          \/ CallFails(r)
    \/ LoadDatabase

Spec == Init /\ [][Next]_vars

-----------------------------------------------------------------------------
(* Properties                                                              *)

(* A tag rename or deletion that reports success is complete, also when it *)
(* repeats one that failed half-way: no node, key, owner or ACL names the  *)
(* old tag any more, and Headscale has been restarted to load that.        *)
(* Excepted are three cases where applyTagOp reports success without it:   *)
(* another request wrote in between, a read of a table broke off           *)
(* (RewriteTags does not ask for rs.Err), and rows that do not decode.     *)
SuccessIsComplete ==
    \A r \in Requests \ (disturbed \cup broken) :
      InFlight(r) /\ At(r, "done")' /\ req[r].op \in Ops /\ TagOp(req[r].op) =>
        LET old == req[r].op.old IN
        /\ ~up'
        /\ \A n \in Nodes : ~Carries(nodes'[n], old)
        /\ \A k \in Keys : ~Carries(keys'[k], old)
        /\ old \notin DOMAIN policy'.body.owners
        /\ \A g \in AclGrants(policy'.body) : old \notin {g.src, g.dst}

UndisturbedTagOpIsComplete == [][SuccessIsComplete]_vars

(* What Headscale serves and what its database holds differ only while a   *)
(* tag operation is on its way from its first write to the restart, or     *)
(* after one that failed there, until Headscale is next started: a restart *)
(* of one operation between the writes of another, or tags set through the *)
(* API meanwhile, leave nothing behind.                                    *)
ServedTagsAreStored ==
    up /\ live # nodes => unserved \/ \E r \in Requests : req[r].pc \in Unserving

(* What an edit of a parseable policy does to the traffic it permits, when *)
(* nobody wrote the policy between its GET and its PUT: a rename permits   *)
(* the same under the new name, a deletion permits the same less what      *)
(* named the tag, an appended rule adds its grants, and the rest nothing.  *)
EditMeaning ==
    \A r \in Requests : At(r, "put") /\ ~At(r, "put")' /\ policy' # policy
                            /\ policy = req[r].seen /\ policy.form = "plain" =>
        LET op == req[r].op
            before == policy.body
            after == AclGrants(policy'.body)
        IN  CASE op.kind = "rename" -> after = AclGrantsRenamed(before, op.old, op.new)
              [] op.kind = "delete" -> after = AclGrantsWithout(before, op.old)
              [] op.kind = "rule"   -> after = AclGrants(before) \cup
                                         AclGrants([before EXCEPT !.acls = {op.rule}])
              [] OTHER              -> after = AclGrants(before)

EditsMeanWhatTheySay == [][EditMeaning]_vars

(* policy.go: "Headscale would reject an empty-src or empty-dst rule": the *)
(* dashboard never writes one, whatever is edited in which order.          *)
WrittenRulesAreUsable == RulesAreUsable(policy.body)

(* policy.go: "creating an empty one if absent": an edit of a policy that  *)
(* is there keeps the rules it has.                                        *)
AppendKeepsRules ==
    [][\A r \in Requests : At(r, "put") /\ At(r, "done")'
                             /\ policy = req[r].seen /\ policy.form # "absent" =>
          AclGrants(policy.body) \subseteq AclGrants(policy'.body)]_vars

(* policy.go: "renameTagInPolicy walks every reference to oldTag and       *)
(* rewrites it to newTag: tagOwners map key, ACL src/dst, SSH src/dst".    *)
RenameRewritesEveryReference ==
    [][\A r \in Requests : At(r, "put") /\ At(r, "readNodes")' /\ req[r].op.kind = "rename" =>
          ~Mentions(policy'.body, req[r].op.old)]_vars
=============================================================================
