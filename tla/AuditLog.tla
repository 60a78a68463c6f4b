------------------------------ MODULE AuditLog ------------------------------
(***************************************************************************)
(* The audit log as its readers see it: rows of audit_log newest first, an *)
(* INSERT in front, and the two queries the pages use.                     *)
(***************************************************************************)
EXTENDS Naturals, Sequences, FiniteSets

CONSTANTS
    ListDefault, ListMax,     \* List: rows returned for a limit out of range
    NodeDefault, NodeMax,     \* ListForNode: the same
    NodePage,                 \* rows the page of a node asks for
    ExportRows                \* rows the JSON export asks for

ASSUME AuditAssumption ==
    /\ ListDefault \in 1..ListMax /\ ListMax \in Nat
    /\ NodeDefault \in 1..NodeMax /\ NodeMax \in Nat
    /\ NodePage \in 1..NodeMax /\ ExportRows \in Nat

(* Targets as the handlers write them: the text is a prefix and a name.    *)
NodeTarget(n) == <<"node.", n>>
TagsTarget(n) == <<"node.tags.", n>>
Bare(name) == <<"", name>>

Write(log, by, action, target) ==
    <<[by |-> by, action |-> action, target |-> target]>> \o log

Page(rows, offset, limit) ==
    SubSeq(rows, offset + 1,
           IF offset + limit < Len(rows) THEN offset + limit ELSE Len(rows))

List(log, limit, offset) ==
    Page(log, offset, IF limit \in 1..ListMax THEN limit ELSE ListDefault)

\* slip: the bare form is not filtered by action
NamesNumber(entry, n) ==
    entry.target \in {NodeTarget(n), TagsTarget(n), Bare(n)}

(* The WHERE clause of ListForNode.                                        *)
NamesNode(entry, n) ==
    \/ entry.target \in {NodeTarget(n), TagsTarget(n)}
    \/ /\ entry.target = Bare(n)
       /\ entry.action \in {"headscale.node.expire", "headscale.node.delete"}

(* ORDER BY id DESC LIMIT: positions in the log, newest first.             *)
Newest(hits, limit) == {i \in hits : Cardinality({j \in hits : j < i}) < limit}

ListForNode(log, n, limit) ==
    Newest({i \in DOMAIN log : NamesNode(log[i], n)},
           IF limit \in 1..NodeMax THEN limit ELSE NodeDefault)
=============================================================================
