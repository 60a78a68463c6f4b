------------------------------- MODULE Policy -------------------------------
(***************************************************************************)
(* The access policy as the dashboard reads and rewrites it.  Pure         *)
(* operators; TagOps calls them.                                           *)
(*                                                                         *)
(* A name such as "tag:db" is the sequence of its parts between colons,    *)
(* <<"tag", "db">>, because the code cuts names at their last colon.       *)
(* Of empty ports nothing is said: splitHostPort reads "x:" as "x".        *)
(* Rules, and the lists inside a rule, are sets: neither order nor         *)
(* repetition is told apart here, nor are the fields of a rule that no     *)
(* edit touches.                                                           *)
(***************************************************************************)
EXTENDS Integers, Sequences, SequencesExt

Names == Seq(STRING)

Rule == [src: SUBSET Names, dst: SUBSET Names]

(* Maps from some of the keys to a list each.                              *)
Lists(keys, Items) == UNION {[D -> SUBSET Items] : D \in SUBSET keys}

Documents(Groups, Tags, Members) ==
    [groups: Lists(Groups, Members), owners: Lists(Tags, Members),
     acls: SUBSET Rule, ssh: SUBSET Rule, other: BOOLEAN]

NoLists == [x \in {} |-> {}]
EmptyPolicy ==
    [groups |-> NoLists, owners |-> NoLists, acls |-> {}, ssh |-> {}, other |-> FALSE]

(* What Headscale stores.  "opaque" is a policy Headscale accepts and      *)
(* json.Unmarshal does not, once the comments were cut out: "//" inside a  *)
(* string is cut as well.  "other" says whether the document has sections  *)
(* that ParsedPolicy has no field for.                                     *)
Forms == {"absent", "opaque", "plain"}

(* parsePolicy, and the empty policy loadAndMutate puts in place of nil.   *)
ParsePolicy(stored) ==
    IF stored.form = "plain" THEN [stored.body EXCEPT !.other = FALSE] ELSE EmptyPolicy

SplitHostPort(s) ==
    IF Len(s) <= 1 THEN [host |-> s, port |-> <<>>]
                   ELSE [host |-> Front(s), port |-> <<Last(s)>>]

Host(s) == SplitHostPort(s).host

RenameInList(names, old, new) == {IF v = old THEN new ELSE v : v \in names}

RenameDst(v, old, new) == IF Host(v) = old THEN new \o SplitHostPort(v).port ELSE v

RenameInDstList(names, old, new) == {RenameDst(v, old, new) : v \in names}

RenameRule(rule, old, new) ==
    [src |-> RenameInList(rule.src, old, new), dst |-> RenameInDstList(rule.dst, old, new)]

RenameInRules(rules, old, new) == {RenameRule(rule, old, new) : rule \in rules}

Without(f, x) == [k \in DOMAIN f \ {x} |-> f[k]]
With(f, x, v) == [k \in DOMAIN f \cup {x} |-> IF k = x THEN v ELSE f[k]]

\* slip: destinations are compared whole, ports included
RenameTagSrcOnly(p, old, new) ==
    LET Rules(rules) == {[src |-> RenameInList(rule.src, old, new),
                          dst |-> RenameInList(rule.dst, old, new)] : rule \in rules}
    IN  [p EXCEPT !.owners = IF old \in DOMAIN @ THEN With(Without(@, old), new, @[old]) ELSE @,
                  !.acls = Rules(@), !.ssh = Rules(@)]

(* The owners of the old name replace those of the new one, if it had any. *)
RenameTagInPolicy(p, old, new) ==
    [p EXCEPT !.owners = IF old \in DOMAIN @ THEN With(Without(@, old), new, @[old]) ELSE @,
              !.acls = RenameInRules(@, old, new),
              !.ssh = RenameInRules(@, old, new)]

FilterRule(rule, tag) ==
    [src |-> rule.src \ {tag}, dst |-> {v \in rule.dst : Host(v) # tag}]

\* slip: a rule is dropped only when both of its lists are empty
FilterRulesLax(rules, tag) ==
    {kept \in {FilterRule(rule, tag) : rule \in rules} : kept.src # {} \/ kept.dst # {}}

FilterRules(rules, tag) ==
    {kept \in {FilterRule(rule, tag) : rule \in rules} : kept.src # {} /\ kept.dst # {}}

DeleteTagFromPolicy(p, tag) ==
    [p EXCEPT !.owners = Without(@, tag),
              !.acls = FilterRules(@, tag),
              !.ssh = FilterRules(@, tag)]

-----------------------------------------------------------------------------
(* Reference: what a policy permits, without the shape it is written in.   *)

Grant(s, d) == [src |-> s, dst |-> Host(d), port |-> SplitHostPort(d).port]

AclGrants(p) ==
    UNION {{Grant(s, d) : s \in rule.src, d \in rule.dst} : rule \in p.acls}

SshGrants(p) ==
    UNION {{[src |-> s, dst |-> d] : s \in rule.src, d \in rule.dst} : rule \in p.ssh}

Subst(name, old, new) == IF name = old THEN new ELSE name

AclGrantsRenamed(p, old, new) ==
    {[src |-> Subst(g.src, old, new), dst |-> Subst(g.dst, old, new), port |-> g.port] :
       g \in AclGrants(p)}

AclGrantsWithout(p, tag) ==
    {g \in AclGrants(p) : g.src # tag /\ g.dst # tag}

(* Every place a policy can name a tag.                                    *)
Mentions(p, tag) ==
    \/ tag \in DOMAIN p.owners
    \/ \E g \in AclGrants(p) : tag \in {g.src, g.dst}
    \/ \E g \in SshGrants(p) : tag \in {g.src, g.dst}

RulesAreUsable(p) ==
    \A rule \in p.acls \cup p.ssh : rule.src # {} /\ rule.dst # {}
=============================================================================
