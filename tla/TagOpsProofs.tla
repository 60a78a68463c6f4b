---------------------------- MODULE TagOpsProofs ----------------------------
(***************************************************************************)
(* The safety properties of TagOps, for any number of requests, rows and   *)
(* names and any documents.                                                *)
(***************************************************************************)
EXTENDS TagOps, PolicyProofs

LEMMA EmptyDocs == EmptyPolicy \in Docs /\ RulesAreUsable(EmptyPolicy)
BY EmptyIsDocument DEF Docs

LEMMA RowsDef ==
    ASSUME NEW K, NEW part \in SUBSET K, NEW rows \in [part -> Cells]
    PROVE  rows \in Rows(K)
BY DEF Rows

LEMMA RowsOfMore ==
    ASSUME NEW K, NEW L, K \subseteq L
    PROVE  Rows(K) \subseteq Rows(L)
BY DEF Rows

LEMMA BlankType ==
    ASSUME NEW pc \in PCs
    PROVE  [Blank EXCEPT !.pc = pc] \in RequestStates
<1>1. NoLists \in Rows(Nodes \cup Keys)
  <2>1. NoLists \in [{} -> Cells]
    BY DEF NoLists
  <2>2. QED
    BY <2>1, RowsDef
<1>2. [form |-> "absent", body |-> EmptyPolicy] \in Stored
  BY EmptyDocs DEF Stored, Forms
<1>3. QED
  BY <1>1, <1>2, EmptyDocs DEF Blank, RequestStates

LEMMA ParsedDocument ==
    ASSUME NEW stored \in Stored
    PROVE  LET p == ParsePolicy(stored) IN
           /\ p \in Docs
           /\ RulesAreUsable(stored.body) => RulesAreUsable(p)
           /\ stored.form = "plain" => p.acls = stored.body.acls
<1>1. stored.body \in Docs
  BY DEF Stored
<1>2. CASE stored.form = "plain"
  <2>1. ParsePolicy(stored) = [stored.body EXCEPT !.other = FALSE]
    BY <1>2 DEF ParsePolicy
  <2>2. /\ ParsePolicy(stored) \in Docs
        /\ ParsePolicy(stored).acls = stored.body.acls /\ ParsePolicy(stored).ssh = stored.body.ssh
    BY <1>1, <2>1 DEF Docs, Documents
  <2>3. QED
    BY <2>2 DEF RulesAreUsable
<1>3. CASE stored.form # "plain"
  BY <1>3, EmptyDocs DEF ParsePolicy
<1>4. QED
  BY <1>2, <1>3

(* What the forms of the dashboard can ask for.                            *)
LEMMA OpShape ==
    ASSUME NEW op \in Ops
    PROVE  \/ op.kind = "rule" /\ op.rule \in NewRules
           \/ op.kind = "group" /\ op.name \in Groups /\ op.members \in SUBSET Members
           \/ op.kind = "owner" /\ op.tag \in Tags /\ op.members \in SUBSET Members
           \/ op.kind = "rename" /\ op.old \in Tags /\ op.new \in Tags
           \/ op.kind = "delete" /\ op.old \in Tags
BY DEF Ops

(* Every edit makes a document of a document, and usable rules of usable   *)
(* ones.                                                                   *)
LEMMA MutatedDocument ==
    ASSUME NEW p \in Docs, NEW op \in Ops
    PROVE  /\ Mutate(p, op) \in Docs
           /\ RulesAreUsable(p) => RulesAreUsable(Mutate(p, op))
<1>1. CASE op.kind = "rule"
  <2>1. op.rule \in NewRules
    BY <1>1, OpShape
  <2>2. Mutate(p, op) = [p EXCEPT !.acls = @ \cup {op.rule}]
    BY <1>1 DEF Mutate
  <2>3. op.rule \in Rule /\ op.rule.src # {} /\ op.rule.dst # {}
    BY <2>1, TagOpsAssumption
  <2>4. QED
    BY <2>2, <2>3 DEF Docs, Documents, RulesAreUsable
<1>2. CASE op.kind = "group"
  <2>1. op.name \in Groups /\ op.members \in SUBSET Members
    BY <1>2, OpShape
  <2>2. p.groups \in Lists(Groups, Members)
    BY DEF Docs, Documents
  <2>3. With(p.groups, op.name, op.members) \in Lists(Groups, Members)
    BY <2>1, <2>2, WithType, Zenon
  <2>4. Mutate(p, op) = [p EXCEPT !.groups = With(p.groups, op.name, op.members)]
    BY <1>2 DEF Mutate
  <2>5. QED
    BY <2>3, <2>4 DEF Docs, Documents, RulesAreUsable
<1>3. CASE op.kind = "owner"
  <2>1. op.tag \in Tags /\ op.members \in SUBSET Members
    BY <1>3, OpShape
  <2>2. p.owners \in Lists(Tags, Members)
    BY DEF Docs, Documents
  <2>3. With(p.owners, op.tag, op.members) \in Lists(Tags, Members)
    BY <2>1, <2>2, WithType, Zenon
  <2>4. Mutate(p, op) = [p EXCEPT !.owners = With(p.owners, op.tag, op.members)]
    BY <1>3 DEF Mutate
  <2>5. QED
    BY <2>3, <2>4 DEF Docs, Documents, RulesAreUsable
<1>4. CASE op.kind = "rename"
  <2>1. op.old \in Tags /\ op.new \in Tags
    BY <1>4, OpShape
  <2>2. Mutate(p, op) = RenameTagInPolicy(p, op.old, op.new)
    BY <1>4 DEF Mutate
  <2>3. QED
    BY <2>1, <2>2, TagOpsAssumption, RenamedDocument DEF Docs
<1>5. CASE op.kind = "delete"
  <2>1. Mutate(p, op) = DeleteTagFromPolicy(p, op.old)
    BY <1>5 DEF Mutate
  <2>2. QED
    BY <2>1, FilteredDocument DEF Docs
<1>6. QED
  BY <1>1, <1>2, <1>3, <1>4, <1>5, OpShape

(* A tag operation leaves its old name in no row it read as it is.         *)
LEMMA RewrittenTable ==
    ASSUME NEW K, NEW op \in Ops, TagOp(op),
           NEW table \in [K -> Cells], NEW read \in Rows(K)
    PROVE  /\ Rewrite(op, table, read) \in [K -> Cells]
           /\ read = table /\ (op.kind = "rename" => op.old # op.new) =>
                \A k \in K : ~Carries(Rewrite(op, table, read)[k], op.old)
<1>1. op.old \in Tags /\ (op.kind = "rename" => op.new \in Tags)
  BY OpShape DEF TagOp
<1>2. ASSUME NEW tags \in SUBSET Tags
      PROVE  /\ Transform(op, tags) \in SUBSET Tags
             /\ (op.kind = "rename" => op.old # op.new) => op.old \notin Transform(op, tags)
  BY <1>1 DEF Transform, RenameInList
<1>3. PICK part \in SUBSET K : read \in [part -> Cells]
  BY DEF Rows
<1> DEFINE changed == {k \in DOMAIN read : read[k] # Undecodable /\ Transform(op, read[k]) # read[k]}
<1>4. Rewrite(op, table, read) =
        [k \in K |-> IF k \in changed THEN Transform(op, read[k]) ELSE table[k]]
  BY DEF Rewrite
<1>5. ASSUME NEW k \in changed
      PROVE  read[k] \in SUBSET Tags /\ Transform(op, read[k]) \in Cells
  BY <1>2, <1>3 DEF Cells
<1>6. Rewrite(op, table, read) \in [K -> Cells]
  <2>1. \A k \in K : (IF k \in changed THEN Transform(op, read[k]) ELSE table[k]) \in Cells
    BY <1>5
  <2> HIDE DEF changed
  <2>2. QED
    BY <1>4, <2>1
<1>7. ASSUME read = table, op.kind = "rename" => op.old # op.new, NEW k \in K,
             Carries(Rewrite(op, table, read)[k], op.old)
      PROVE  FALSE
  <2>1. CASE k \in changed
    BY <1>2, <1>4, <1>5, <1>7, <2>1 DEF Carries
  <2>2. CASE k \notin changed
    <3>1. table[k] # Undecodable /\ op.old \in table[k] /\ table[k] \in SUBSET Tags
      BY <1>4, <1>7, <2>2 DEF Carries, Cells
    <3>2. Transform(op, table[k]) = table[k]
      <4>1. k \in DOMAIN read /\ read[k] = table[k]
        BY <1>7
      <4>2. QED
        BY <2>2, <3>1, <4>1
    <3>3. QED
      BY <1>2, <1>7, <3>1, <3>2
  <2>3. QED
    BY <2>1, <2>2
<1>8. QED
  BY <1>6, <1>7

-----------------------------------------------------------------------------
(* Types.                                                                  *)

ReqOK == /\ req \in [Requests -> RequestStates]
         /\ \A r \in Requests : OpFits(req[r]) /\ RowsFit(req[r])

LEMMA OneRequestMoves ==
    ASSUME ReqOK, NEW r \in Requests, NEW q \in RequestStates, OpFits(q), RowsFit(q),
           req' = [req EXCEPT ![r] = q]
    PROVE  ReqOK' /\ req'[r] = q /\ \A o \in Requests \ {r} : req'[o] = req[o]
<1>1. req' \in [Requests -> RequestStates]
  BY DEF ReqOK
<1>2. \A o \in Requests : req'[o] = IF o = r THEN q ELSE req[o]
  BY DEF ReqOK
<1>3. ASSUME NEW o \in Requests
      PROVE  OpFits(req'[o]) /\ RowsFit(req'[o])
  BY <1>2 DEF ReqOK
<1>4. QED
  BY <1>1, <1>2, <1>3 DEF ReqOK, OpFits, RowsFit

LEMMA RequestFinishes ==
    ASSUME ReqOK, NEW r \in Requests, NEW pc \in {"done", "failed"}, Finish(r, pc)
    PROVE  /\ ReqOK'
           /\ req'[r] = [Blank EXCEPT !.pc = pc]
           /\ \A o \in Requests \ {r} : req'[o] = req[o]
<1> DEFINE q == [Blank EXCEPT !.pc = pc]
<1>1. q \in RequestStates
  BY BlankType DEF PCs
<1>2. q.pc = pc /\ q.op = NoOp
  BY DEF Blank
<1>3. OpFits(q) /\ RowsFit(q)
  BY <1>2 DEF OpFits, RowsFit, Applying, Unserving
<1>4. QED
  BY <1>1, <1>3, OneRequestMoves DEF Finish

LEMMA RequestGoes ==
    ASSUME ReqOK, NEW r \in Requests, NEW pc \in PCs \ {"writeNodes", "writeKeys"}, Goto(r, pc),
           OpFits([req[r] EXCEPT !.pc = pc])
    PROVE  /\ ReqOK'
           /\ req'[r] = [req[r] EXCEPT !.pc = pc]
           /\ \A o \in Requests \ {r} : req'[o] = req[o]
<1> DEFINE q == [req[r] EXCEPT !.pc = pc]
<1>1. q \in RequestStates /\ q.pc = pc
  BY DEF ReqOK, RequestStates
<1>2. RowsFit(q)
  BY <1>1 DEF RowsFit
<1>3. req' = [req EXCEPT ![r] = q]
  BY DEF Goto, ReqOK
<1>4. QED
  BY <1>1, <1>2, <1>3, OneRequestMoves

-----------------------------------------------------------------------------
(* The inductive invariant.  A document about to be put is the edit of the *)
(* one that was read, and has usable rules; a tag operation nobody         *)
(* disturbed and whose reads were complete has left its old name nowhere   *)
(* it has been; and Headscale serves what is stored, or is due a restart.  *)

EditFits(q) ==
    /\ q.pc = "put" => q.doc = Mutate(ParsePolicy(q.seen), q.op)
    /\ q.op.kind = "rename" => q.op.old # q.op.new
    /\ RulesAreUsable(q.doc)

Free(p, tag) ==
    /\ tag \notin DOMAIN p.owners
    /\ \A g \in AclGrants(p) : tag \notin {g.src, g.dst}

CleanSoFar(q) ==
    /\ q.pc \in Applying => Free(policy.body, q.op.old)
    /\ q.pc = "writeNodes" => q.rows = nodes
    /\ q.pc \in Unserving => \A n \in Nodes : ~Carries(nodes[n], q.op.old)
    /\ q.pc = "writeKeys" => q.rows = keys
    /\ q.pc = "restart" => \A k \in Keys : ~Carries(keys[k], q.op.old)

TagOpsInv ==
    /\ TagOpsTypeOK
    /\ RulesAreUsable(policy.body)
    /\ \A r \in Requests : EditFits(req[r])
    /\ \A r \in Requests \ (disturbed \cup broken) : CleanSoFar(req[r])
    /\ ServedTagsAreStored

(* The old name is gone from the document a tag operation puts.            *)
LEMMA MutatedIsFree ==
    ASSUME NEW p \in Docs, NEW op \in Ops, TagOp(op), op.kind = "rename" => op.old # op.new
    PROVE  Free(Mutate(p, op), op.old)
<1>1. p.acls \in SUBSET Rule
  BY DEF Docs, Documents
<1>2. CASE op.kind = "rename"
  <2>1. /\ op.old \in Tags /\ op.new \in Tags /\ op.old # op.new
        /\ op.old \in Names /\ op.new \in Names /\ Len(op.old) >= 2 /\ Len(op.new) >= 2
    BY <1>2, OpShape, TagOpsAssumption
  <2> DEFINE q == RenameTagInPolicy(p, op.old, op.new)
  <2>2. Mutate(p, op) = q
    BY <1>2 DEF Mutate
  <2>3. q.acls = RenameInRules(p.acls, op.old, op.new) /\ op.old \notin DOMAIN q.owners
    BY <2>1, TagOpsAssumption, RenamedDocument DEF Docs
  <2> HIDE DEF q
  <2>4. AclGrants(q) = AclGrantsRenamed(p, op.old, op.new)
    BY <1>1, <2>1, <2>3, RenameIsSubstitution
  <2>5. \A g \in AclGrants(q) : op.old \notin {g.src, g.dst}
    BY <2>1, <2>4 DEF AclGrantsRenamed, Subst
  <2>6. QED
    BY <2>2, <2>3, <2>5 DEF Free
<1>3. CASE op.kind = "delete"
  <2> DEFINE q == DeleteTagFromPolicy(p, op.old)
  <2>1. Mutate(p, op) = q
    BY <1>3 DEF Mutate
  <2>2. q.acls = FilterRules(p.acls, op.old) /\ op.old \notin DOMAIN q.owners
    BY FilteredDocument DEF Docs
  <2> HIDE DEF q
  <2>3. AclGrants(q) = AclGrantsWithout(p, op.old)
    BY <1>1, <2>2, DeletionIsRestriction
  <2>4. \A g \in AclGrants(q) : op.old \notin {g.src, g.dst}
    BY <2>3 DEF AclGrantsWithout
  <2>5. QED
    BY <2>1, <2>2, <2>4 DEF Free
<1>4. QED
  BY <1>2, <1>3 DEF TagOp

(* What a step of one request leaves to show: the other requests it either *)
(* disturbs or leaves everything they rely on.                             *)
LEMMA OthersKeepTheirs ==
    ASSUME TagOpsInv, NEW r \in Requests, ReqOK',
           \A o \in Requests \ {r} : req'[o] = req[o],
           Disturbs(r) \/ UNCHANGED <<policy, tables, disturbed>>,
           broken' \in {broken, broken \cup {r}},
           policy' \in Stored, RulesAreUsable(policy.body)',
           nodes' \in [Nodes -> Cells], live' \in [Nodes -> Cells], up' \in BOOLEAN,
           keys' \in [Keys -> Cells], faults' \in 0..MaxFaults, unserved' \in BOOLEAN,
           EditFits(req'[r]), r \notin disturbed \cup broken' => CleanSoFar(req[r])',
           ServedTagsAreStored'
    PROVE  TagOpsInv'
<1>1. /\ disturbed' \in SUBSET Requests /\ (r \in disturbed' <=> r \in disturbed)
      /\ broken' \in SUBSET Requests
  BY DEF TagOpsInv, TagOpsTypeOK, Disturbs
<1>2. TagOpsTypeOK'
  BY <1>1 DEF TagOpsTypeOK, ReqOK
<1>3. \A o \in Requests : EditFits(req'[o])
  BY DEF TagOpsInv
<1>4. ASSUME NEW o \in Requests \ (disturbed \cup broken)'
      PROVE  CleanSoFar(req[o])'
  <2>1. CASE o = r
    BY <1>1, <1>4, <2>1
  <2>2. CASE o # r /\ Disturbs(r)
    <3>1. req'[o].pc \in {"new", "done", "failed"}
      BY <1>4, <2>2 DEF Disturbs, InFlight
    <3>2. QED
      BY <3>1 DEF CleanSoFar, Applying, Unserving
  <2>3. CASE o # r /\ UNCHANGED <<policy, tables, disturbed>>
    <3>1. CleanSoFar(req[o]) /\ req'[o] = req[o]
      BY <1>4, <2>3 DEF TagOpsInv
    <3>2. QED
      BY <2>3, <3>1 DEF CleanSoFar, Carries, tables
  <2>4. QED
    BY <2>1, <2>2, <2>3
<1>5. (\A o \in Requests : EditFits(req[o]))'
  BY <1>3 DEF EditFits
<1>6. QED
  BY <1>2, <1>4, <1>5 DEF TagOpsInv

LEMMA Unpacked ==
    ASSUME TagOpsInv
    PROVE  /\ ReqOK
           /\ policy \in Stored /\ faults \in 0..MaxFaults /\ disturbed \in SUBSET Requests
           /\ nodes \in [Nodes -> Cells] /\ live \in [Nodes -> Cells]
           /\ keys \in [Keys -> Cells]
           /\ up \in BOOLEAN /\ unserved \in BOOLEAN /\ broken \in SUBSET Requests
           /\ RulesAreUsable(policy.body)
           /\ ServedTagsAreStored
           /\ \A r \in Requests : /\ req[r] \in RequestStates /\ EditFits(req[r])
                                  /\ OpFits(req[r]) /\ RowsFit(req[r])
                                  /\ r \notin disturbed \cup broken => CleanSoFar(req[r])
BY DEF TagOpsInv, TagOpsTypeOK, ReqOK

(* Who starts or ends a request before its first write to a table, and     *)
(* changes neither what is stored nor what is served, keeps the last       *)
(* conjunct.                                                               *)
LEMMA ServesAsBefore ==
    ASSUME ServedTagsAreStored, NEW r \in Requests, req[r].pc \notin Unserving,
           \A o \in Requests \ {r} : req'[o] = req[o],
           UNCHANGED <<nodes, live, up, unserved>>
    PROVE  ServedTagsAreStored'
BY DEF ServedTagsAreStored

LEMMA FinishedFits ==
    ASSUME NEW pc \in {"done", "failed"}
    PROVE  LET q == [Blank EXCEPT !.pc = pc] IN
           q.pc = pc /\ EditFits(q) /\ CleanSoFar(q)
BY EmptyDocs DEF Blank, NoOp, EditFits, CleanSoFar, Applying, Unserving

(* A request that only moves on, without a write.                          *)
LEMMA ArriveKeeps ==
    ASSUME TagOpsInv, NEW r \in Requests, NEW op \in Ops, Arrive(r, op)
    PROVE  TagOpsInv'
<1> DEFINE q == [req[r] EXCEPT !.pc = "get", !.op = op]
<1>1. /\ q \in RequestStates /\ q.pc = "get" /\ q.op = op /\ q.doc = req[r].doc
      /\ req' = [req EXCEPT ![r] = q]
  BY Unpacked DEF Arrive, RequestStates, PCs, ReqOK
<1>2. OpFits(q) /\ RowsFit(q) /\ EditFits(q) /\ CleanSoFar(q)'
  BY <1>1, Unpacked DEF OpFits, RowsFit, EditFits, CleanSoFar, Applying, Unserving, Arrive
<1>3. ReqOK' /\ req'[r] = q /\ \A o \in Requests \ {r} : req'[o] = req[o]
  BY <1>1, <1>2, Unpacked, OneRequestMoves
<1> HIDE DEF q
<1>4. UNCHANGED <<policy, nodes, keys, live, up, faults, disturbed, broken, unserved>>
  BY DEF Arrive, tables, headscale, history
<1>5. EditFits(req'[r]) /\ CleanSoFar(req[r])'
  BY <1>1, <1>2, <1>3, <1>4 DEF CleanSoFar, Applying, Unserving
<1>6. ServedTagsAreStored'
  BY <1>3, <1>4, Unpacked, ServesAsBefore DEF Arrive, At, Unserving
<1>7. QED
  BY <1>3, <1>4, <1>5, <1>6, Unpacked, OthersKeepTheirs DEF tables, RulesAreUsable

LEMMA GetPolicyKeeps ==
    ASSUME TagOpsInv, NEW r \in Requests, GetPolicy(r)
    PROVE  TagOpsInv'
<1> DEFINE doc == Mutate(ParsePolicy(policy), req[r].op)
           q == [req[r] EXCEPT !.pc = "put", !.seen = policy, !.doc = doc]
<1>1. req[r].op \in Ops /\ req[r].pc = "get"
  BY Unpacked DEF GetPolicy, At, OpFits
<1>2. doc \in Docs /\ RulesAreUsable(doc)
  BY <1>1, Unpacked, ParsedDocument, MutatedDocument
<1> HIDE DEF doc
<1>3. /\ q \in RequestStates /\ q.pc = "put" /\ q.op = req[r].op /\ q.doc = doc /\ q.seen = policy
      /\ req' = [req EXCEPT ![r] = q]
  BY <1>2, Unpacked DEF GetPolicy, RequestStates, PCs, ReqOK, doc
<1>4. OpFits(q) /\ RowsFit(q)
  BY <1>1, <1>3 DEF OpFits, RowsFit, Applying, Unserving
<1>5. ReqOK' /\ req'[r] = q /\ \A o \in Requests \ {r} : req'[o] = req[o]
  BY <1>3, <1>4, Unpacked, OneRequestMoves
<1> HIDE DEF q
<1>6. UNCHANGED <<policy, nodes, keys, live, up, faults, disturbed, broken, unserved>>
  BY DEF GetPolicy, tables, headscale, history
<1>7. EditFits(req'[r])
  BY <1>2, <1>3, <1>5, Unpacked DEF EditFits, doc
<1>8. CleanSoFar(req[r])'
  BY <1>3, <1>5 DEF CleanSoFar, Applying, Unserving
<1>9. ServedTagsAreStored'
  BY <1>1, <1>5, <1>6, Unpacked, ServesAsBefore DEF Unserving
<1>10. QED
  BY <1>5, <1>6, <1>7, <1>8, <1>9, Unpacked, OthersKeepTheirs DEF tables, RulesAreUsable

(* A document put: the end of an edit, or the first part of a tag          *)
(* operation.                                                              *)
LEMMA DocumentPut ==
    ASSUME TagOpsInv, NEW r \in Requests, At(r, "put"), Put(r)
    PROVE  /\ req[r].op \in Ops /\ policy' \in Stored /\ RulesAreUsable(policy.body)'
           /\ TagOp(req[r].op) => Free(policy'.body, req[r].op.old)
<1>1. /\ req[r].pc = "put" /\ req[r].op \in Ops /\ req[r].doc \in Docs /\ req[r].seen \in Stored
      /\ RulesAreUsable(req[r].doc)
      /\ req[r].doc = Mutate(ParsePolicy(req[r].seen), req[r].op)
      /\ req[r].op.kind = "rename" => req[r].op.old # req[r].op.new
  BY Unpacked DEF At, OpFits, EditFits, RequestStates
<1>2. policy' \in Stored /\ policy'.body = req[r].doc
  BY <1>1 DEF Put, Stored, Forms
<1>3. TagOp(req[r].op) => Free(req[r].doc, req[r].op.old)
  BY <1>1, ParsedDocument, MutatedIsFree
<1>4. QED
  BY <1>1, <1>2, <1>3 DEF RulesAreUsable

LEMMA RawPut ==
    ASSUME PutRaw
    PROVE  policy' \in Stored /\ RulesAreUsable(policy.body)'
<1>1. policy' \in Stored /\ policy'.body \in Bodies
  BY TagOpsAssumption DEF PutRaw, Stored, Forms, Docs
<1>2. RulesAreUsable(policy'.body)
  BY <1>1, TagOpsAssumption
<1>3. QED
  BY <1>1, <1>2 DEF RulesAreUsable

LEMMA TagsReplaced ==
    ASSUME TagOpsInv, NEW n \in Nodes, NEW list \in TagLists, ReplaceTags(n, list)
    PROVE  /\ nodes' \in [Nodes -> Cells] /\ live' \in [Nodes -> Cells]
           /\ live' # nodes' => live # nodes
<1>1. list \in Cells
  BY TagOpsAssumption DEF Cells
<1>2. QED
  BY <1>1, Unpacked DEF ReplaceTags

LEMMA PutPolicyKeeps ==
    ASSUME TagOpsInv, NEW r \in Requests, PutPolicy(r)
    PROVE  TagOpsInv'
<1>1. At(r, "put") /\ UNCHANGED <<nodes, keys, live, up, faults, broken, unserved>>
  BY DEF PutPolicy, tables, headscale
<1>S. ASSUME \A o \in Requests \ {r} : req'[o] = req[o]
           PROVE  ServedTagsAreStored'
  BY <1>1, <1>S, Unpacked, ServesAsBefore DEF At, Unserving
<1>2. CASE Finish(r, "failed") /\ UNCHANGED <<policy, disturbed>>
  <2>1. ReqOK' /\ req'[r] = [Blank EXCEPT !.pc = "failed"] /\ \A o \in Requests \ {r} : req'[o] = req[o]
    BY <1>2, Unpacked, RequestFinishes
  <2>2. EditFits(req'[r]) /\ CleanSoFar(req[r])'
    BY <2>1, FinishedFits DEF CleanSoFar, Applying, Unserving
  <2>3. QED
    BY <1>1, <1>2, <1>S, <2>1, <2>2, Unpacked, OthersKeepTheirs DEF tables, RulesAreUsable
<1>3. CASE /\ Put(r)
           /\ IF TagOp(req[r].op) THEN Goto(r, "readNodes") ELSE Finish(r, "done")
           /\ Disturbs(r)
  <2>1. /\ req[r].op \in Ops /\ policy' \in Stored /\ RulesAreUsable(policy.body)'
        /\ TagOp(req[r].op) => Free(policy'.body, req[r].op.old)
    BY <1>1, <1>3, DocumentPut
  <2>2. CASE TagOp(req[r].op)
    <3> DEFINE q == [req[r] EXCEPT !.pc = "readNodes"]
    <3>1. q.op = req[r].op /\ q.pc = "readNodes" /\ q.doc = req[r].doc
      BY Unpacked DEF RequestStates
    <3>2. OpFits(q) /\ "readNodes" \in PCs \ {"writeNodes", "writeKeys"}
      BY <2>1, <2>2, <3>1 DEF OpFits, PCs, Applying, Unserving
    <3>3. ReqOK' /\ req'[r] = q /\ \A o \in Requests \ {r} : req'[o] = req[o]
      BY <1>3, <2>2, <3>2, Unpacked, RequestGoes
    <3> HIDE DEF q
    <3>4. EditFits(req'[r])
      BY <3>1, <3>3, Unpacked DEF EditFits
    <3>5. CleanSoFar(req[r])'
      BY <2>1, <2>2, <3>1, <3>3 DEF CleanSoFar, Unserving
    <3>6. QED
      BY <1>1, <1>3, <1>S, <2>1, <3>3, <3>4, <3>5, Unpacked, OthersKeepTheirs
  <2>3. CASE ~TagOp(req[r].op)
    <3>1. ReqOK' /\ req'[r] = [Blank EXCEPT !.pc = "done"] /\ \A o \in Requests \ {r} : req'[o] = req[o]
      BY <1>3, <2>3, Unpacked, RequestFinishes
    <3>2. EditFits(req'[r]) /\ CleanSoFar(req[r])'
      BY <3>1, FinishedFits DEF CleanSoFar, Applying, Unserving
    <3>3. QED
      BY <1>1, <1>3, <1>S, <2>1, <3>1, <3>2, Unpacked, OthersKeepTheirs
  <2>4. QED
    BY <2>2, <2>3
<1>4. QED
  BY <1>2, <1>3 DEF PutPolicy

(* POST /policy and POST /nodes/tags hold no operation.                    *)
LEMMA FormArriveKeeps ==
    ASSUME TagOpsInv, NEW r \in Requests, RawArrive(r) \/ TagsArrive(r)
    PROVE  TagOpsInv'
<1>1. PICK pc \in {"raw", "tags"} : Goto(r, pc)
  BY DEF RawArrive, TagsArrive
<1> DEFINE q == [req[r] EXCEPT !.pc = pc]
<1>2. /\ At(r, "new")
      /\ UNCHANGED <<policy, nodes, keys, live, up, faults, disturbed, broken, unserved>>
  BY DEF RawArrive, TagsArrive, tables, headscale, history
<1>3. q.pc = pc /\ q.op = req[r].op /\ q.doc = req[r].doc /\ req[r].op = NoOp
  BY <1>2, Unpacked DEF RequestStates, OpFits, At, Applying, Unserving
<1>4. OpFits(q) /\ pc \in PCs \ {"writeNodes", "writeKeys"}
  BY <1>3 DEF OpFits, PCs, Applying, Unserving
<1>5. ReqOK' /\ req'[r] = q /\ \A o \in Requests \ {r} : req'[o] = req[o]
  BY <1>1, <1>4, Unpacked, RequestGoes
<1> HIDE DEF q
<1>6. EditFits(req'[r])
  BY <1>3, <1>5, Unpacked DEF EditFits
<1>7. CleanSoFar(req[r])'
  BY <1>3, <1>5 DEF CleanSoFar, Applying, Unserving
<1>8. ServedTagsAreStored'
  BY <1>2, <1>5, Unpacked, ServesAsBefore DEF At, Unserving
<1>9. QED
  BY <1>2, <1>5, <1>6, <1>7, <1>8, Unpacked, OthersKeepTheirs DEF tables, RulesAreUsable

LEMMA SaveRawKeeps ==
    ASSUME TagOpsInv, NEW r \in Requests, SaveRaw(r)
    PROVE  TagOpsInv'
<1>1. PICK pc \in {"done", "failed"} : Finish(r, pc)
  BY DEF SaveRaw
<1>2. ReqOK' /\ req'[r] = [Blank EXCEPT !.pc = pc] /\ \A o \in Requests \ {r} : req'[o] = req[o]
  BY <1>1, Unpacked, RequestFinishes
<1>3. EditFits(req'[r]) /\ CleanSoFar(req[r])'
  BY <1>2, FinishedFits DEF CleanSoFar, Applying, Unserving
<1>4. At(r, "raw") /\ UNCHANGED <<nodes, keys, live, up, faults, broken, unserved>>
  BY DEF SaveRaw, tables, headscale
<1>5. ServedTagsAreStored'
  BY <1>2, <1>4, Unpacked, ServesAsBefore DEF At, Unserving
<1>6. CASE UNCHANGED <<policy, disturbed>>
  BY <1>2, <1>3, <1>4, <1>5, <1>6, Unpacked, OthersKeepTheirs DEF tables, RulesAreUsable
<1>7. CASE Disturbs(r) /\ PutRaw
  BY <1>2, <1>3, <1>4, <1>5, <1>7, RawPut, Unpacked, OthersKeepTheirs
<1>8. QED
  BY <1>6, <1>7 DEF SaveRaw

LEMMA SetNodeTagsKeeps ==
    ASSUME TagOpsInv, NEW r \in Requests, NEW n \in Nodes, NEW list \in TagLists,
           SetNodeTags(r, n, list)
    PROVE  TagOpsInv'
<1>1. At(r, "tags") /\ UNCHANGED <<policy, keys, up, faults, broken, unserved>> /\ Disturbs(r)
  BY DEF SetNodeTags
<1>2. /\ nodes' \in [Nodes -> Cells] /\ live' \in [Nodes -> Cells]
      /\ live' # nodes' => live # nodes
  BY TagsReplaced DEF SetNodeTags
<1>3. ReqOK' /\ req'[r] = [Blank EXCEPT !.pc = "done"] /\ \A o \in Requests \ {r} : req'[o] = req[o]
  BY Unpacked, RequestFinishes DEF SetNodeTags
<1>4. EditFits(req'[r]) /\ CleanSoFar(req[r])'
  BY <1>3, FinishedFits DEF CleanSoFar, Applying, Unserving
<1>5. ServedTagsAreStored'
  BY <1>1, <1>2, <1>3, Unpacked DEF ServedTagsAreStored, At, Unserving
<1>6. QED
  BY <1>1, <1>2, <1>3, <1>4, <1>5, Unpacked, OthersKeepTheirs DEF RulesAreUsable

LEMMA NotReachedKeeps ==
    ASSUME TagOpsInv, NEW r \in Requests, NotReached(r)
    PROVE  TagOpsInv'
<1>1. /\ req[r].pc \notin Unserving
      /\ UNCHANGED <<policy, nodes, keys, live, up, faults, disturbed, broken, unserved>>
  BY DEF NotReached, Unserving, tables, headscale, history
<1>2. ReqOK' /\ req'[r] = [Blank EXCEPT !.pc = "failed"] /\ \A o \in Requests \ {r} : req'[o] = req[o]
  BY Unpacked, RequestFinishes DEF NotReached
<1>3. EditFits(req'[r]) /\ CleanSoFar(req[r])'
  BY <1>2, FinishedFits DEF CleanSoFar, Applying, Unserving
<1>4. ServedTagsAreStored'
  BY <1>1, <1>2, Unpacked, ServesAsBefore
<1>5. QED
  BY <1>1, <1>2, <1>3, <1>4, Unpacked, OthersKeepTheirs DEF tables, RulesAreUsable

(* RewriteTags: the rows as read, and the rows that change.                *)
LEMMA ReadTableKeeps ==
    ASSUME TagOpsInv, NEW r \in Requests, ReadNodes(r) \/ ReadKeys(r)
    PROVE  TagOpsInv'
<1> DEFINE pc == IF ReadNodes(r) THEN "writeNodes" ELSE "writeKeys"
           table == IF ReadNodes(r) THEN nodes ELSE keys
           K == IF ReadNodes(r) THEN Nodes ELSE Keys
<1>1. UNCHANGED <<policy, nodes, keys, live, up, disturbed, unserved>>
  BY DEF ReadNodes, ReadKeys, tables, headscale
<1>2. /\ IF ReadNodes(r) THEN req[r].pc = "readNodes" ELSE req[r].pc = "readKeys"
      /\ table \in [K -> Cells] /\ K \in SUBSET (Nodes \cup Keys) /\ Read(r, table, pc)
  BY Unpacked DEF ReadNodes, ReadKeys, At
<1>3. pc \in {"writeNodes", "writeKeys"} /\ (pc = "writeNodes" <=> ReadNodes(r))
  OBVIOUS
<1> HIDE DEF pc, table, K
<1> DEFINE rows == req'[r].rows
           q == [req[r] EXCEPT !.pc = pc, !.rows = rows]
<1>4. /\ rows \in Rows(K) /\ (r \notin broken' => rows = table)
      /\ req' = [req EXCEPT ![r] = q]
      /\ faults' \in 0..MaxFaults /\ broken' \in {broken, broken \cup {r}}
  <2>1. ASSUME NEW some \in Rows(K), req' = [req EXCEPT ![r].pc = pc, ![r].rows = some]
        PROVE  rows = some /\ req' = [req EXCEPT ![r] = q]
    BY <2>1, Unpacked DEF ReqOK, RequestStates
  <2> HIDE DEF rows, q
  <2>2. CASE /\ req' = [req EXCEPT ![r].pc = pc, ![r].rows = table]
             /\ UNCHANGED <<faults, broken>>
    <3>1. table \in Rows(K)
      BY <1>2, RowsDef
    <3>2. QED
      BY <2>1, <2>2, <3>1, Unpacked
  <2>3. ASSUME NEW part \in (SUBSET DOMAIN table) \ {DOMAIN table},
               req' = [req EXCEPT ![r].pc = pc, ![r].rows = [k \in part |-> table[k]]],
               faults < MaxFaults, faults' = faults + 1, broken' = broken \cup {r}
        PROVE  rows \in Rows(K) /\ req' = [req EXCEPT ![r] = q] /\ faults' \in 0..MaxFaults
    <3> DEFINE some == [k \in part |-> table[k]]
    <3>1. part \in SUBSET K /\ some \in [part -> Cells]
      BY <1>2
    <3>2. some \in Rows(K)
      BY <3>1, RowsDef
    <3>3. faults' \in 0..MaxFaults
      BY <2>3, Unpacked, TagOpsAssumption
    <3>4. req' = [req EXCEPT ![r].pc = pc, ![r].rows = some]
      BY <2>3
    <3> HIDE DEF some
    <3>5. QED
      BY <2>1, <3>2, <3>3, <3>4
  <2>4. QED
    BY <1>2, <2>2, <2>3, Unpacked DEF Read
<1> HIDE DEF rows
<1>5. rows \in Rows(Nodes \cup Keys) /\ (IF ReadNodes(r) THEN rows \in Rows(Nodes) ELSE rows \in Rows(Keys))
  BY <1>2, <1>4, RowsOfMore DEF K
<1>6. /\ q \in RequestStates /\ q.pc = pc /\ q.rows = rows
      /\ q.op = req[r].op /\ q.doc = req[r].doc
  BY <1>3, <1>5, Unpacked DEF RequestStates, PCs, Applying, Unserving
<1>7. OpFits(q) /\ RowsFit(q)
  BY <1>2, <1>3, <1>5, <1>6, Unpacked DEF OpFits, RowsFit, Applying, Unserving
<1>8. ReqOK' /\ req'[r] = q /\ \A o \in Requests \ {r} : req'[o] = req[o]
  BY <1>4, <1>6, <1>7, Unpacked, OneRequestMoves
<1> HIDE DEF q
<1>9. EditFits(req'[r])
  BY <1>3, <1>6, <1>8, Unpacked DEF EditFits
<1>10. ASSUME r \notin disturbed \cup broken' PROVE CleanSoFar(req[r])'
  <2>1. CleanSoFar(req[r])
    BY <1>4, <1>10, Unpacked
  <2>2. req'[r].pc = pc /\ req'[r].op = req[r].op /\ req'[r].rows = rows
    BY <1>6, <1>8
  <2>3. rows = table
    BY <1>4, <1>10
  <2>4. CASE ReadNodes(r)
    BY <1>1, <1>2, <1>3, <2>1, <2>2, <2>3, <2>4 DEF CleanSoFar, Applying, Unserving, Carries, table
  <2>5. CASE ~ReadNodes(r)
    BY <1>1, <1>2, <1>3, <2>1, <2>2, <2>3, <2>5 DEF CleanSoFar, Applying, Unserving, Carries, table
  <2>6. QED
    BY <2>4, <2>5
<1>11. ServedTagsAreStored'
  <2>1. \A o \in Requests : req[o].pc \in Unserving => req'[o].pc \in Unserving
    BY <1>2, <1>3, <1>6, <1>8 DEF Unserving
  <2>2. QED
    BY <1>1, <2>1, Unpacked DEF ServedTagsAreStored
<1>12. QED
  BY <1>1, <1>4, <1>8, <1>9, <1>10, <1>11, Unpacked, OthersKeepTheirs DEF tables, RulesAreUsable

LEMMA WriteTableKeeps ==
    ASSUME TagOpsInv, NEW r \in Requests, WriteNodes(r) \/ WriteKeys(r)
    PROVE  TagOpsInv'
<1> DEFINE pc == IF WriteNodes(r) THEN "readKeys" ELSE "restart"
           q == [req[r] EXCEPT !.pc = pc]
           op == req[r].op
<1>1. /\ UNCHANGED <<policy, live, up, faults, broken, unserved>>
      /\ Disturbs(r) /\ Goto(r, pc)
  BY DEF WriteNodes, WriteKeys, headscale
<1>2. op \in Ops /\ TagOp(op) /\ (op.kind = "rename" => op.old # op.new)
  BY Unpacked DEF WriteNodes, WriteKeys, At, OpFits, EditFits, Applying, Unserving
<1>3. CASE WriteNodes(r)
  <2>1. pc = "readKeys" /\ req[r].pc = "writeNodes" /\ keys' = keys
    BY <1>3 DEF WriteNodes, At
  <2>2. req[r].rows \in Rows(Nodes) /\ nodes' = Rewrite(op, nodes, req[r].rows)
    BY <1>3, <2>1, Unpacked DEF WriteNodes, RowsFit
  <2> HIDE DEF op, pc
  <2>3. /\ nodes' \in [Nodes -> Cells]
        /\ req[r].rows = nodes => \A n \in Nodes : ~Carries(nodes'[n], op.old)
    BY <1>2, <2>2, Unpacked, RewrittenTable
  <2>4. /\ q.pc = "readKeys" /\ q.op = op /\ q.doc = req[r].doc
    BY <2>1, Unpacked DEF RequestStates, op
  <2>5. OpFits(q) /\ pc \in PCs \ {"writeNodes", "writeKeys"}
    BY <1>2, <2>1, <2>4 DEF OpFits, PCs, Applying, Unserving
  <2>6. ReqOK' /\ req'[r] = q /\ \A o \in Requests \ {r} : req'[o] = req[o]
    BY <1>1, <2>5, Unpacked, RequestGoes
  <2> HIDE DEF q
  <2>7. EditFits(req'[r])
    BY <2>4, <2>6, Unpacked DEF EditFits, op
  <2>8. ASSUME r \notin disturbed \cup broken PROVE CleanSoFar(req[r])'
    <3>1. CleanSoFar(req[r])
      BY <2>8, Unpacked
    <3>2. req'[r].pc = "readKeys" /\ req'[r].op = op
      BY <2>4, <2>6
    <3>3. Free(policy.body, op.old) /\ req[r].rows = nodes
      BY <2>1, <3>1 DEF CleanSoFar, Applying, Unserving, op
    <3>4. QED
      BY <1>1, <2>3, <3>2, <3>3 DEF CleanSoFar, Unserving
  <2>9. ServedTagsAreStored'
    <3>1. req'[r].pc \in Unserving
      BY <2>4, <2>6 DEF Unserving
    <3>2. QED
      BY <3>1 DEF ServedTagsAreStored
  <2>10. QED
    BY <1>1, <2>1, <2>3, <2>6, <2>7, <2>8, <2>9, Unpacked, OthersKeepTheirs DEF RulesAreUsable
<1>4. CASE WriteKeys(r)
  <2>1. req[r].pc = "writeKeys" /\ nodes' = nodes /\ ~WriteNodes(r)
    BY <1>4 DEF WriteKeys, WriteNodes, At
  <2>2. pc = "restart"
    BY <2>1
  <2>3. req[r].rows \in Rows(Keys) /\ keys' = Rewrite(op, keys, req[r].rows)
    BY <1>4, <2>1, Unpacked DEF WriteKeys, RowsFit
  <2> HIDE DEF op, pc
  <2>4. /\ keys' \in [Keys -> Cells]
        /\ req[r].rows = keys => \A k \in Keys : ~Carries(keys'[k], op.old)
    BY <1>2, <2>3, Unpacked, RewrittenTable
  <2>5. /\ q.pc = "restart" /\ q.op = op /\ q.doc = req[r].doc
    BY <2>2, Unpacked DEF RequestStates, op
  <2>6. OpFits(q) /\ pc \in PCs \ {"writeNodes", "writeKeys"}
    BY <1>2, <2>2, <2>5 DEF OpFits, PCs, Applying, Unserving
  <2>7. ReqOK' /\ req'[r] = q /\ \A o \in Requests \ {r} : req'[o] = req[o]
    BY <1>1, <2>6, Unpacked, RequestGoes
  <2> HIDE DEF q
  <2>8. EditFits(req'[r])
    BY <2>5, <2>7, Unpacked DEF EditFits, op
  <2>9. ASSUME r \notin disturbed \cup broken PROVE CleanSoFar(req[r])'
    <3>1. CleanSoFar(req[r])
      BY <2>9, Unpacked
    <3>2. req'[r].pc = "restart" /\ req'[r].op = op
      BY <2>5, <2>7
    <3>3. /\ Free(policy.body, op.old) /\ req[r].rows = keys
          /\ \A n \in Nodes : ~Carries(nodes[n], op.old)
      BY <2>1, <3>1 DEF CleanSoFar, Applying, Unserving, op
    <3>4. QED
      BY <1>1, <2>1, <2>4, <3>2, <3>3 DEF CleanSoFar, Carries
  <2>10. ServedTagsAreStored'
    <3>1. req'[r].pc \in Unserving
      BY <2>5, <2>7 DEF Unserving
    <3>2. QED
      BY <3>1 DEF ServedTagsAreStored
  <2>11. QED
    BY <1>1, <2>1, <2>4, <2>7, <2>8, <2>9, <2>10, Unpacked, OthersKeepTheirs DEF RulesAreUsable
<1>5. QED
  BY <1>3, <1>4

LEMMA RestartKeeps ==
    ASSUME TagOpsInv, NEW r \in Requests, RestartHeadscale(r)
    PROVE  TagOpsInv'
<1>1. UNCHANGED <<policy, nodes, keys, live, faults, disturbed, broken, unserved>> /\ up' = FALSE
  BY DEF RestartHeadscale, tables, history
<1>2. ReqOK' /\ req'[r] = [Blank EXCEPT !.pc = "done"] /\ \A o \in Requests \ {r} : req'[o] = req[o]
  BY Unpacked, RequestFinishes DEF RestartHeadscale
<1>3. EditFits(req'[r]) /\ CleanSoFar(req[r])'
  BY <1>2, FinishedFits DEF CleanSoFar, Applying, Unserving
<1>4. ServedTagsAreStored'
  BY <1>1 DEF ServedTagsAreStored
<1>5. QED
  BY <1>1, <1>2, <1>3, <1>4, Unpacked, OthersKeepTheirs DEF tables, RulesAreUsable

LEMMA LoadKeeps ==
    ASSUME TagOpsInv, LoadDatabase
    PROVE  TagOpsInv'
<1>1. /\ UNCHANGED <<policy, nodes, keys, req, faults, disturbed, broken>>
      /\ live' = nodes /\ up' = TRUE /\ unserved' = FALSE
  BY DEF LoadDatabase, tables
<1>2. TagOpsTypeOK'
  BY <1>1, Unpacked DEF TagOpsTypeOK, ReqOK, OpFits, RowsFit
<1>3. RulesAreUsable(policy.body)' /\ ServedTagsAreStored'
  BY <1>1, Unpacked DEF RulesAreUsable, ServedTagsAreStored
<1>4. (\A r \in Requests : EditFits(req[r]))'
  BY <1>1, Unpacked DEF EditFits
<1>5. (\A r \in Requests \ (disturbed \cup broken) : CleanSoFar(req[r]))'
  BY <1>1, Unpacked DEF CleanSoFar
<1>6. QED
  BY <1>2, <1>3, <1>4, <1>5 DEF TagOpsInv

LEMMA CallFailsKeeps ==
    ASSUME TagOpsInv, NEW r \in Requests, CallFails(r)
    PROVE  TagOpsInv'
<1>1. /\ UNCHANGED <<keys, broken>> /\ faults' \in 0..MaxFaults
      /\ up' \in BOOLEAN /\ (up' => up)
      /\ unserved' = (unserved \/ req[r].pc \in Unserving) /\ unserved' \in BOOLEAN
  <2>1. UNCHANGED <<keys, broken>> /\ faults' \in 0..MaxFaults
    BY Unpacked, TagOpsAssumption DEF CallFails
  <2>2. (up' = up \/ up' = FALSE) /\ unserved' = (unserved \/ req[r].pc \in Unserving)
    BY DEF CallFails
  <2>3. up \in BOOLEAN
    BY Unpacked
  <2>4. up' \in BOOLEAN /\ (up' => up)
    <3>1. CASE up' = up
      BY <2>3, <3>1
    <3>2. CASE up' = FALSE
      BY <3>2
    <3>3. QED
      BY <2>2, <3>1, <3>2
  <2>5. QED
    BY <2>1, <2>2, <2>4
<1>2. ReqOK' /\ req'[r] = [Blank EXCEPT !.pc = "failed"] /\ \A o \in Requests \ {r} : req'[o] = req[o]
  BY Unpacked, RequestFinishes DEF CallFails
<1>3. EditFits(req'[r]) /\ CleanSoFar(req[r])'
  BY <1>2, FinishedFits DEF CleanSoFar, Applying, Unserving
<1>4. ASSUME live' # nodes' => live # nodes
      PROVE  ServedTagsAreStored'
  BY <1>1, <1>2, <1>4, Unpacked DEF ServedTagsAreStored
<1>5. CASE UNCHANGED <<policy, nodes, live, disturbed>>
  <2>1. ServedTagsAreStored'
    BY <1>4, <1>5
  <2>2. QED
    BY <1>1, <1>2, <1>3, <1>5, <2>1, Unpacked, OthersKeepTheirs DEF tables, RulesAreUsable
<1>6. CASE TookEffect(r)
  <2>1. CASE At(r, "put") /\ Put(r) /\ UNCHANGED <<nodes, live>>
    <3>1. policy' \in Stored /\ RulesAreUsable(policy.body)' /\ ServedTagsAreStored'
      BY <1>4, <2>1, DocumentPut
    <3>2. QED
      BY <1>1, <1>2, <1>3, <1>6, <2>1, <3>1, Unpacked, OthersKeepTheirs DEF TookEffect
  <2>2. CASE PutRaw /\ UNCHANGED <<nodes, live>>
    <3>1. policy' \in Stored /\ RulesAreUsable(policy.body)' /\ ServedTagsAreStored'
      BY <1>4, <2>2, RawPut
    <3>2. QED
      BY <1>1, <1>2, <1>3, <1>6, <2>2, <3>1, Unpacked, OthersKeepTheirs DEF TookEffect
  <2>3. ASSUME NEW n \in Nodes, NEW list \in TagLists, ReplaceTags(n, list), UNCHANGED policy
        PROVE  TagOpsInv'
    <3>1. nodes' \in [Nodes -> Cells] /\ live' \in [Nodes -> Cells] /\ ServedTagsAreStored'
      BY <1>4, <2>3, TagsReplaced
    <3>2. QED
      BY <1>1, <1>2, <1>3, <1>6, <2>3, <3>1, Unpacked, OthersKeepTheirs DEF TookEffect, RulesAreUsable
  <2>4. QED
    BY <1>6, <2>1, <2>2, <2>3 DEF TookEffect
<1>7. QED
  BY <1>5, <1>6 DEF CallFails

LEMMA InitEstablishes == Init => TagOpsInv
<1> SUFFICES ASSUME Init PROVE TagOpsInv
  OBVIOUS
<1>1. policy \in Stored /\ RulesAreUsable(policy.body)
  BY TagOpsAssumption DEF Init, Stored, Docs
<1>2. /\ nodes \in [Nodes -> Cells] /\ live \in [Nodes -> Cells]
      /\ keys \in [Keys -> Cells] /\ up \in BOOLEAN
  <2>1. TagLists \cup {Undecodable} \subseteq Cells
    BY TagOpsAssumption DEF Cells
  <2>2. QED
    BY <2>1 DEF Init
<1>3. Blank.pc = "new" /\ Blank.op = NoOp /\ Blank.doc = EmptyPolicy
  BY DEF Blank
<1>4. Blank \in RequestStates
  <2>1. [Blank EXCEPT !.pc = "new"] = Blank
    BY DEF Blank
  <2>2. QED
    BY <2>1, BlankType DEF PCs
<1>5. OpFits(Blank) /\ RowsFit(Blank) /\ EditFits(Blank) /\ CleanSoFar(Blank)
  BY <1>3, EmptyDocs DEF OpFits, RowsFit, EditFits, CleanSoFar, Applying, Unserving, NoOp
<1>6. req \in [Requests -> RequestStates] /\ \A r \in Requests : req[r] = Blank
  BY <1>4 DEF Init
<1>7. /\ faults \in 0..MaxFaults /\ disturbed \in SUBSET Requests
      /\ broken \in SUBSET Requests /\ unserved \in BOOLEAN /\ ServedTagsAreStored
  <2>1. faults \in 0..MaxFaults /\ disturbed \in SUBSET Requests /\ broken \in SUBSET Requests
    BY TagOpsAssumption DEF Init
  <2>2. unserved = FALSE /\ live = nodes
    BY DEF Init
  <2>3. QED
    BY <2>1, <2>2 DEF ServedTagsAreStored
<1>8. TagOpsTypeOK
  BY <1>1, <1>2, <1>5, <1>6, <1>7 DEF TagOpsTypeOK
<1>9. QED
  BY <1>1, <1>5, <1>6, <1>7, <1>8 DEF TagOpsInv

LEMMA NextKeeps == TagOpsInv /\ [Next]_vars => TagOpsInv'
<1> SUFFICES ASSUME TagOpsInv, [Next]_vars PROVE TagOpsInv'
  OBVIOUS
<1>1. CASE UNCHANGED vars
  <2>1. UNCHANGED <<policy, nodes, keys, live, up, req, faults, disturbed, broken, unserved>>
    BY <1>1 DEF vars, tables, headscale, history
  <2>2. TagOpsTypeOK'
    BY <2>1, Unpacked DEF TagOpsTypeOK, ReqOK, OpFits, RowsFit
  <2>3. RulesAreUsable(policy.body)' /\ ServedTagsAreStored'
    BY <2>1, Unpacked DEF RulesAreUsable, ServedTagsAreStored
  <2>4. (\A r \in Requests : EditFits(req[r]))'
    BY <2>1, Unpacked DEF EditFits
  <2>5. (\A r \in Requests \ (disturbed \cup broken) : CleanSoFar(req[r]))'
    BY <2>1, Unpacked DEF CleanSoFar
  <2>6. QED
    BY <2>2, <2>3, <2>4, <2>5 DEF TagOpsInv
<1>2. ASSUME NEW r \in Requests, NEW op \in Ops, Arrive(r, op) PROVE TagOpsInv'
  BY <1>2, ArriveKeeps
<1>3. ASSUME NEW r \in Requests, RawArrive(r) \/ TagsArrive(r) PROVE TagOpsInv'
  BY <1>3, FormArriveKeeps
<1>4. ASSUME NEW r \in Requests, Step(r) PROVE TagOpsInv'
  BY <1>4, GetPolicyKeeps, PutPolicyKeeps, SaveRawKeeps, SetNodeTagsKeeps, ReadTableKeeps,
     WriteTableKeeps, RestartKeeps, NotReachedKeeps DEF Step
<1>5. ASSUME NEW r \in Requests, CallFails(r) PROVE TagOpsInv'
  BY <1>5, CallFailsKeeps
<1>6. QED
  BY <1>1, <1>2, <1>3, <1>4, <1>5, LoadKeeps DEF Next

(* Types, usable rules, what a tag operation nobody disturbed has cleaned  *)
(* of its old name so far, and when Headscale serves what is stored.       *)
THEOREM TagOpsInvariant == Spec => []TagOpsInv
BY InitEstablishes, NextKeeps, PTL DEF Spec

(* Types of the policy editor and the tag manager, of every document       *)
(* written included: loadAndMutate makes documents of documents, and       *)
(* RewriteTags has the rows of the table it writes.                        *)
THEOREM TagOpsTypeCorrect == Spec => []TagOpsTypeOK
<1>1. TagOpsInv => TagOpsTypeOK
  BY DEF TagOpsInv
<1>2. QED
  BY <1>1, TagOpsInvariant, PTL

(* No rule with an empty source or destination is ever stored, whatever is *)
(* renamed, deleted, appended or overtaken (filterACLRules,                *)
(* filterSSHRules).                                                        *)
THEOREM RulesStayUsable == Spec => []WrittenRulesAreUsable
<1>1. TagOpsInv => WrittenRulesAreUsable
  BY DEF TagOpsInv, WrittenRulesAreUsable
<1>2. QED
  BY <1>1, TagOpsInvariant, PTL

(* What Headscale serves differs from what its database holds only between *)
(* the first write of a tag operation and its restart, or after one that   *)
(* failed there (applyTagOp; the restart loads the tables afresh).         *)
THEOREM ServedTagsStored == Spec => []ServedTagsAreStored
<1>1. TagOpsInv => ServedTagsAreStored
  BY DEF TagOpsInv
<1>2. QED
  BY <1>1, TagOpsInvariant, PTL

-----------------------------------------------------------------------------
(* A request is moved by its own steps only, and finishes by one of these. *)
Moves(r) ==
    \/ \E op \in Ops : Arrive(r, op)
    \/ RawArrive(r) \/ TagsArrive(r) \/ Step(r) \/ CallFails(r)

LEMMA OnlyOwnMoves ==
    ASSUME TagOpsInv, NEW o \in Requests, Moves(o), NEW r \in Requests, r # o
    PROVE  req'[r] = req[r]
<1>1. req \in [Requests -> RequestStates]
  BY Unpacked DEF ReqOK
<1>2. \E q : req' = [req EXCEPT ![o] = q]
  <2>1. ASSUME NEW pc, Goto(o, pc) PROVE \E q : req' = [req EXCEPT ![o] = q]
    BY <2>1 DEF Goto
  <2>2. ASSUME NEW pc, Finish(o, pc) PROVE \E q : req' = [req EXCEPT ![o] = q]
    BY <2>2 DEF Finish
  <2>3. ASSUME NEW op \in Ops, Arrive(o, op) PROVE \E q : req' = [req EXCEPT ![o] = q]
    <3>1. req' = [req EXCEPT ![o] = [[req[o] EXCEPT !.pc = "get"] EXCEPT !.op = op]]
      BY <1>1, <2>3 DEF Arrive
    <3>2. QED
      BY <3>1
  <2>4. CASE GetPolicy(o)
    <3> DEFINE q == [[[req[o] EXCEPT !.pc = "put"] EXCEPT !.seen = policy]
                       EXCEPT !.doc = Mutate(ParsePolicy(policy), req[o].op)]
    <3>1. req' = [req EXCEPT ![o] = q]
      BY <1>1, <2>4 DEF GetPolicy
    <3>2. QED
      BY <3>1
  <2>5. ASSUME NEW table, NEW pc, Read(o, table, pc) PROVE \E q : req' = [req EXCEPT ![o] = q]
    <3>1. PICK rows : req' = [req EXCEPT ![o].pc = pc, ![o].rows = rows]
      BY <2>5 DEF Read
    <3>2. req' = [req EXCEPT ![o] = [[req[o] EXCEPT !.pc = pc] EXCEPT !.rows = rows]]
      BY <1>1, <3>1
    <3>3. QED
      BY <3>2
  <2>6. CASE ReadNodes(o) \/ ReadKeys(o)
    BY <2>5, <2>6 DEF ReadNodes, ReadKeys
  <2>7. QED
    BY <2>1, <2>2, <2>3, <2>4, <2>5, <2>6
       DEF Moves, Step, RawArrive, TagsArrive, PutPolicy, SaveRaw, SetNodeTags, WriteNodes,
           WriteKeys, RestartHeadscale, NotReached, CallFails
<1>3. QED
  BY <1>1, <1>2

LEMMA NextMoves ==
    ASSUME TagOpsInv, Next, NEW r \in Requests, req'[r] # req[r]
    PROVE  Moves(r)
<1>1. PICK o \in Requests : Moves(o)
  BY DEF Next, Moves, LoadDatabase
<1>2. QED
  BY <1>1, OnlyOwnMoves

(* A tag rename or deletion that reports success has left its old name     *)
(* nowhere and Headscale restarted (applyTagOp from the policy to the      *)
(* restart), unless another request wrote in between, a read of a table    *)
(* broke off, or a row does not decode.                                    *)
THEOREM TagOpsComplete == Spec => UndisturbedTagOpIsComplete
<1>1. TagOpsInv /\ [Next]_vars => [SuccessIsComplete]_vars
  <2> SUFFICES ASSUME TagOpsInv, Next,
                      NEW r \in Requests \ (disturbed \cup broken), InFlight(r), At(r, "done")',
                      req[r].op \in Ops, TagOp(req[r].op)
               PROVE  LET old == req[r].op.old IN
                      /\ ~up'
                      /\ \A n \in Nodes : ~Carries(nodes'[n], old)
                      /\ \A k \in Keys : ~Carries(keys'[k], old)
                      /\ old \notin DOMAIN policy'.body.owners
                      /\ \A g \in AclGrants(policy'.body) : old \notin {g.src, g.dst}
    BY DEF SuccessIsComplete
  <2>1. req'[r].pc = "done" /\ req[r].pc \notin {"new", "done", "failed"}
    BY DEF At, InFlight
  <2>2. Moves(r)
    BY <2>1, NextMoves
  <2>3. req[r] \in RequestStates /\ req \in [Requests -> RequestStates] /\ CleanSoFar(req[r])
          /\ OpFits(req[r])
    BY Unpacked DEF ReqOK
  <2>4. req[r].pc \in {"get", "put"} \cup Applying
    BY <2>3 DEF OpFits, NoOp, TagOp
  <2>5. RestartHeadscale(r)
    <3>1. ASSUME NEW pc, Goto(r, pc), pc # "done" PROVE FALSE
      BY <2>1, <2>3, <3>1 DEF Goto, RequestStates
    <3>2. ASSUME Finish(r, "failed") PROVE FALSE
      BY <2>1, <2>3, <3>2 DEF Finish, Blank
    <3>3. ~(\E op \in Ops : Arrive(r, op)) /\ ~RawArrive(r) /\ ~TagsArrive(r)
      BY <2>1 DEF Arrive, RawArrive, TagsArrive, At
    <3>4. ~GetPolicy(r) /\ ~ReadNodes(r) /\ ~ReadKeys(r)
      BY <2>1, <2>3 DEF GetPolicy, ReadNodes, ReadKeys, Read, RequestStates
    <3>5. ~SaveRaw(r) /\ ~(\E n \in Nodes, list \in TagLists : SetNodeTags(r, n, list))
      BY <2>4 DEF SaveRaw, SetNodeTags, At, Applying, Unserving
    <3>6. /\ ~PutPolicy(r) /\ ~WriteNodes(r) /\ ~WriteKeys(r)
          /\ ~NotReached(r) /\ ~CallFails(r)
      BY <3>1, <3>2 DEF PutPolicy, WriteNodes, WriteKeys, NotReached, CallFails
    <3>7. QED
      BY <2>2, <3>3, <3>4, <3>5, <3>6 DEF Moves, Step
  <2>6. /\ req[r].pc = "restart" /\ ~up' /\ nodes' = nodes /\ keys' = keys
        /\ policy' = policy
    BY <2>5 DEF RestartHeadscale, tables, At
  <2>7. QED
    BY <2>3, <2>6 DEF CleanSoFar, Applying, Unserving, Free
<1>2. QED
  BY <1>1, TagOpsInvariant, PTL DEF Spec, UndisturbedTagOpIsComplete

(* What an edit does to the traffic the policy permits: a rename is a      *)
(* substitution, a deletion a restriction, a rule adds its own grants, and *)
(* groups and owners change nothing (the closures given to loadAndMutate). *)
THEOREM EditsMeanIt == Spec => EditsMeanWhatTheySay
<1>1. TagOpsInv /\ [Next]_vars => [EditMeaning]_vars
  <2> SUFFICES ASSUME TagOpsInv, Next, NEW r \in Requests, At(r, "put"), ~At(r, "put")',
                      policy' # policy, policy = req[r].seen, policy.form = "plain"
               PROVE  LET op == req[r].op
                          before == policy.body
                          after == AclGrants(policy'.body)
                      IN  CASE op.kind = "rename" -> after = AclGrantsRenamed(before, op.old, op.new)
                            [] op.kind = "delete" -> after = AclGrantsWithout(before, op.old)
                            [] op.kind = "rule"   -> after = AclGrants(before) \cup
                                                       AclGrants([before EXCEPT !.acls = {op.rule}])
                            [] OTHER              -> after = AclGrants(before)
    BY DEF EditMeaning
  <2> DEFINE op == req[r].op
             p == ParsePolicy(policy)
  <2>1. req[r].pc = "put" /\ req'[r].pc # "put"
    BY DEF At
  <2>2. Moves(r)
    BY <2>1, NextMoves
  <2>3. /\ op \in Ops /\ req[r].doc = Mutate(p, op)
        /\ p \in Docs /\ p.acls = policy.body.acls /\ policy.body \in Docs
    BY <2>1, Unpacked, ParsedDocument DEF OpFits, EditFits, Stored
  <2>4. policy'.body = Mutate(p, op)
    <3>1. PutPolicy(r) \/ CallFails(r)
      BY <2>1, <2>2 DEF Moves, Step, Arrive, RawArrive, TagsArrive, GetPolicy, SaveRaw, SetNodeTags,
                        ReadNodes, WriteNodes, ReadKeys, WriteKeys, RestartHeadscale, NotReached, At
    <3>2. Put(r)
      <4>1. CASE PutPolicy(r)
        BY <4>1 DEF PutPolicy
      <4>2. CASE CallFails(r)
        BY <2>1, <4>2 DEF CallFails, TookEffect, At
      <4>3. QED
        BY <3>1, <4>1, <4>2
    <3>3. QED
      BY <2>3, <3>2 DEF Put
  <2> HIDE DEF p
  <2>5. CASE op.kind = "rename"
    <3>1. /\ op.old \in Tags /\ op.new \in Tags
          /\ op.old \in Names /\ op.new \in Names /\ Len(op.old) >= 2 /\ Len(op.new) >= 2
      BY <2>3, <2>5, OpShape, TagOpsAssumption
    <3> DEFINE q == RenameTagInPolicy(p, op.old, op.new)
    <3>2. Mutate(p, op) = q
      BY <2>5 DEF Mutate
    <3>3. q.acls = RenameInRules(p.acls, op.old, op.new)
      BY <2>3, <3>1, TagOpsAssumption, RenamedDocument DEF Docs
    <3>4. policy.body.acls \in SUBSET Rule /\ q.acls = RenameInRules(policy.body.acls, op.old, op.new)
      BY <2>3, <3>3 DEF Docs, Documents
    <3> HIDE DEF q
    <3>5. AclGrants(q) = AclGrantsRenamed(policy.body, op.old, op.new)
      BY <3>1, <3>4, RenameIsSubstitution
    <3>6. QED
      BY <2>4, <2>5, <3>2, <3>5
  <2>6. CASE op.kind = "delete"
    <3> DEFINE q == DeleteTagFromPolicy(p, op.old)
    <3>1. Mutate(p, op) = q
      BY <2>6 DEF Mutate
    <3>2. q.acls = FilterRules(p.acls, op.old)
      BY <2>3, FilteredDocument DEF Docs
    <3>3. policy.body.acls \in SUBSET Rule /\ q.acls = FilterRules(policy.body.acls, op.old)
      BY <2>3, <3>2 DEF Docs, Documents
    <3> HIDE DEF q
    <3>4. AclGrants(q) = AclGrantsWithout(policy.body, op.old)
      BY <3>3, DeletionIsRestriction
    <3>5. QED
      BY <2>4, <2>6, <3>1, <3>4
  <2>7. CASE op.kind = "rule"
    <3> DEFINE q == [p EXCEPT !.acls = @ \cup {op.rule}]
               one == [policy.body EXCEPT !.acls = {op.rule}]
    <3>1. Mutate(p, op) = q
      BY <2>7 DEF Mutate
    <3>2. q.acls = policy.body.acls \cup {op.rule} /\ one.acls = {op.rule}
      BY <2>3 DEF Docs, Documents
    <3> HIDE DEF q, one
    <3>3. AclGrants(q) = AclGrants(policy.body) \cup AclGrants(one)
      <4>1. ASSUME NEW g
            PROVE  g \in AclGrants(q) <=> g \in AclGrants(policy.body) \/ g \in AclGrants(one)
        BY <3>2, AclGrant
      <4>2. QED
        BY <4>1
    <3>4. QED
      BY <2>4, <2>7, <3>1, <3>3 DEF one
  <2>8. CASE op.kind \in {"group", "owner"}
    <3>1. Mutate(p, op).acls = policy.body.acls
      BY <2>3, <2>8 DEF Mutate, Docs, Documents
    <3>2. AclGrants(Mutate(p, op)) = AclGrants(policy.body)
      BY <3>1 DEF AclGrants
    <3>3. QED
      BY <2>4, <2>8, <3>2
  <2>9. QED
    BY <2>3, <2>5, <2>6, <2>7, <2>8, OpShape
<1>2. QED
  BY <1>1, TagOpsInvariant, PTL DEF Spec, EditsMeanWhatTheySay

=============================================================================
