---------------------------- MODULE PolicyProofs ----------------------------
(***************************************************************************)
(* What the edits of a policy do to the traffic it permits, for every      *)
(* document and all names.                                                 *)
(***************************************************************************)
EXTENDS Policy, SequenceTheorems, TLAPS

LEMMA AppendOne ==
    ASSUME NEW S, NEW name \in Seq(S), Len(name) >= 1, NEW part \in S
    PROVE  /\ name \o <<part>> \in Seq(S)
           /\ Len(name \o <<part>>) = Len(name) + 1
           /\ Front(name \o <<part>>) = name
           /\ Last(name \o <<part>>) = part
<1> DEFINE w == name \o <<part>>
<1>1. <<part>> \in Seq(S) /\ Len(<<part>>) = 1 /\ <<part>>[1] = part
  OBVIOUS
<1>2. Len(name) \in Nat
  OBVIOUS
<1>3. w \in Seq(S) /\ Len(w) = Len(name) + 1
  BY <1>1, ConcatProperties
<1>4. \A i \in 1..Len(name) : w[i] = name[i]
  BY <1>1, <1>2, ConcatProperties
<1>5. w[Len(name) + 1] = part
  <2>1. Len(name) + 1 \in 1..Len(name) + Len(<<part>>)
    BY <1>1, <1>2
  <2>2. w[Len(name) + 1] = <<part>>[Len(name) + 1 - Len(name)]
    BY <1>1, <1>2, <2>1, ConcatProperties
  <2>3. QED
    BY <1>1, <1>2, <2>2
<1>6. Last(w) = part
  BY <1>3, <1>5 DEF Last
<1>7. Front(w) = name
  <2>1. Front(w) \in Seq(S) /\ Len(Front(w)) = Len(name)
          /\ \A i \in 1..Len(name) : Front(w)[i] = w[i]
    BY <1>2, <1>3, SubSeqProperties DEF Front
  <2> HIDE DEF w
  <2>2. QED
    BY <1>2, <1>4, <2>1, SeqEqual
<1>8. QED
  BY <1>3, <1>6, <1>7

(* A name with a port appended is cut into that name and that port.        *)
LEMMA CutAppended ==
    ASSUME NEW name \in Names, Len(name) >= 1, NEW part \in STRING
    PROVE  /\ name \o <<part>> \in Names
           /\ Host(name \o <<part>>) = name
           /\ SplitHostPort(name \o <<part>>).port = <<part>>
<1> DEFINE w == name \o <<part>>
<1>1. w \in Seq(STRING) /\ Len(w) = Len(name) + 1 /\ Front(w) = name /\ Last(w) = part
  BY AppendOne DEF Names
<1> HIDE DEF w
<1>2. Len(name) \in Nat
  BY DEF Names
<1>3. ~(Len(w) <= 1)
  BY <1>1, <1>2
<1>4. SplitHostPort(w) = [host |-> Front(w), port |-> <<Last(w)>>]
  BY <1>3 DEF SplitHostPort
<1>5. QED
  BY <1>1, <1>4 DEF Host, Names, w

(* What SplitHostPort cuts off is nothing or one part.                     *)
LEMMA CutParts ==
    ASSUME NEW v \in Names
    PROVE  /\ Host(v) \in Names
           /\ \/ Len(v) <= 1 /\ Host(v) = v /\ SplitHostPort(v).port = <<>>
              \/ \E part \in STRING : SplitHostPort(v).port = <<part>>
<1>1. CASE Len(v) <= 1
  BY <1>1 DEF Host, SplitHostPort, Names
<1>2. CASE ~(Len(v) <= 1)
  <2>1. Len(v) \in Nat /\ Len(v) >= 2
    BY <1>2, LenProperties DEF Names
  <2>2. Last(v) \in STRING
    BY <2>1, ElementOfSeq DEF Last, Names
  <2>3. Front(v) \in Names
    BY <2>1, SubSeqProperties DEF Front, Names
  <2>4. SplitHostPort(v) = [host |-> Front(v), port |-> <<Last(v)>>]
    BY <1>2 DEF SplitHostPort
  <2>5. Host(v) = Front(v) /\ SplitHostPort(v).port = <<Last(v)>>
    BY <2>4 DEF Host
  <2>6. \E part \in STRING : SplitHostPort(v).port = <<part>>
    BY <2>2, <2>5
  <2>7. QED
    BY <2>3, <2>5, <2>6
<1>3. QED
  BY <1>1, <1>2

-----------------------------------------------------------------------------
(* Renaming a destination keeps its port and puts the new name for the old *)
(* one, nothing else.                                                      *)
LEMMA RenamedDestination ==
    ASSUME NEW v \in Names, NEW old \in Names, NEW new \in Names,
           Len(old) >= 2, Len(new) >= 2
    PROVE  LET w == RenameDst(v, old, new) IN
           /\ w \in Names
           /\ Host(w) = Subst(Host(v), old, new)
           /\ SplitHostPort(w).port = SplitHostPort(v).port
<1> DEFINE w == RenameDst(v, old, new)
<1>1. CASE Host(v) # old
  BY <1>1 DEF Subst, RenameDst
<1>2. CASE Host(v) = old
  <2>1. PICK part \in STRING : SplitHostPort(v).port = <<part>>
    BY <1>2, CutParts
  <2>2. w = new \o <<part>>
    BY <1>2, <2>1 DEF RenameDst
  <2>3. Len(new) >= 1
    BY DEF Names
  <2>4. QED
    BY <1>2, <2>1, <2>2, <2>3, CutAppended DEF Subst
<1>3. QED
  BY <1>1, <1>2

LEMMA AclGrant ==
    ASSUME NEW p, NEW g
    PROVE  g \in AclGrants(p) <=>
              \E rule \in p.acls : \E s \in rule.src, d \in rule.dst : g = Grant(s, d)
BY DEF AclGrants

LEMMA RenamedRule ==
    ASSUME NEW rule \in Rule, NEW old \in Names, NEW new \in Names,
           Len(old) >= 2, Len(new) >= 2
    PROVE  /\ RenameRule(rule, old, new) \in Rule
           /\ RenameRule(rule, old, new).src = {Subst(s, old, new) : s \in rule.src}
           /\ RenameRule(rule, old, new).dst = {RenameDst(d, old, new) : d \in rule.dst}
<1>1. rule.src \in SUBSET Names /\ rule.dst \in SUBSET Names
  BY DEF Rule
<1>2. RenameInList(rule.src, old, new) = {Subst(s, old, new) : s \in rule.src}
  BY DEF RenameInList, Subst
<1>3. RenameInList(rule.src, old, new) \in SUBSET Names
  BY <1>1 DEF RenameInList
<1>4. \A d \in rule.dst : RenameDst(d, old, new) \in Names
  BY <1>1, RenamedDestination
<1>5. RenameInDstList(rule.dst, old, new) \in SUBSET Names
  BY <1>4 DEF RenameInDstList
<1>6. QED
  BY <1>2, <1>3, <1>5 DEF RenameRule, Rule, RenameInDstList

(* A rename permits the same traffic under the new name: whoever and       *)
(* whatever had the old name, ports unchanged.                             *)
THEOREM RenameIsSubstitution ==
    ASSUME NEW p, p.acls \in SUBSET Rule, NEW q, NEW old \in Names, NEW new \in Names,
           Len(old) >= 2, Len(new) >= 2,
           q.acls = RenameInRules(p.acls, old, new)
    PROVE  AclGrants(q) = AclGrantsRenamed(p, old, new)
<1> DEFINE Moved(g) == [src |-> Subst(g.src, old, new), dst |-> Subst(g.dst, old, new),
                        port |-> g.port]
           Dst(d) == RenameDst(d, old, new)
           Src(s) == Subst(s, old, new)
           Renamed(rule) == RenameRule(rule, old, new)
<1>1. ASSUME NEW rule \in p.acls
      PROVE  /\ rule \in Rule /\ rule.dst \in SUBSET Names
             /\ Renamed(rule).src = {Src(s) : s \in rule.src}
             /\ Renamed(rule).dst = {Dst(d) : d \in rule.dst}
  <2>1. rule \in Rule
    OBVIOUS
  <2>2. QED
    BY <2>1, RenamedRule DEF Rule
<1>2. ASSUME NEW s, NEW d \in Names
      PROVE  Grant(Src(s), Dst(d)) = Moved(Grant(s, d))
  <2>1. /\ Host(Dst(d)) = Subst(Host(d), old, new)
        /\ SplitHostPort(Dst(d)).port = SplitHostPort(d).port
    BY RenamedDestination
  <2> HIDE DEF Dst
  <2>2. QED
    BY <2>1 DEF Grant
<1>3. q.acls = {Renamed(rule) : rule \in p.acls}
  BY DEF RenameInRules
<1>4. ASSUME NEW g
      PROVE  g \in AclGrantsRenamed(p, old, new) <=> \E h \in AclGrants(p) : g = Moved(h)
  BY DEF AclGrantsRenamed
<1> HIDE DEF Moved, Dst, Src, Renamed
<1>5. ASSUME NEW g
      PROVE  g \in AclGrants(q) <=>
              \E rule \in p.acls : \E s \in rule.src, d \in rule.dst : g = Moved(Grant(s, d))
  <2>1. g \in AclGrants(q) <=>
          \E rule \in p.acls :
            \E s \in Renamed(rule).src, d \in Renamed(rule).dst : g = Grant(s, d)
    BY <1>3, AclGrant
  <2>2. ASSUME NEW rule \in p.acls
        PROVE  (\E s \in Renamed(rule).src, d \in Renamed(rule).dst : g = Grant(s, d)) <=>
               \E s \in rule.src, d \in rule.dst : g = Grant(Src(s), Dst(d))
    <3>1. /\ \A s : s \in Renamed(rule).src <=> \E t \in rule.src : s = Src(t)
          /\ \A d : d \in Renamed(rule).dst <=> \E e \in rule.dst : d = Dst(e)
      BY <1>1
    <3>2. ASSUME NEW s \in Renamed(rule).src, NEW d \in Renamed(rule).dst, g = Grant(s, d)
          PROVE  \E t \in rule.src, e \in rule.dst : g = Grant(Src(t), Dst(e))
      <4>1. PICK t \in rule.src : s = Src(t)
        BY <3>1
      <4>2. PICK e \in rule.dst : d = Dst(e)
        BY <3>1
      <4>3. QED
        BY <3>2, <4>1, <4>2
    <3>3. ASSUME NEW s \in rule.src, NEW d \in rule.dst, g = Grant(Src(s), Dst(d))
          PROVE  \E t \in Renamed(rule).src, e \in Renamed(rule).dst : g = Grant(t, e)
      <4>1. Src(s) \in Renamed(rule).src /\ Dst(d) \in Renamed(rule).dst
        BY <3>1
      <4>2. QED
        BY <3>3, <4>1
    <3>4. QED
      BY <3>2, <3>3
  <2>3. ASSUME NEW rule \in p.acls
        PROVE  (\E s \in rule.src, d \in rule.dst : g = Grant(Src(s), Dst(d))) <=>
               \E s \in rule.src, d \in rule.dst : g = Moved(Grant(s, d))
    BY <1>1, <1>2
  <2>4. QED
    BY <2>1, <2>2, <2>3
<1>6. ASSUME NEW g
      PROVE  g \in AclGrantsRenamed(p, old, new) <=> g \in AclGrants(q)
  BY <1>4, <1>5, AclGrant
<1>7. QED
  BY <1>6

(* A deletion permits the same traffic less what named the tag             *)
(* (deleteTagFromPolicy, filterACLRules).                                  *)
THEOREM DeletionIsRestriction ==
    ASSUME NEW p, p.acls \in SUBSET Rule, NEW q, NEW tag,
           q.acls = FilterRules(p.acls, tag)
    PROVE  AclGrants(q) = AclGrantsWithout(p, tag)
<1>1. ASSUME NEW g
      PROVE  g \in AclGrants(q) <=>
              \E rule \in p.acls : \E s \in rule.src, d \in rule.dst :
                  s # tag /\ Host(d) # tag /\ g = Grant(s, d)
  <2>1. g \in AclGrants(q) <=>
          \E rule \in FilterRules(p.acls, tag) :
            \E s \in rule.src, d \in rule.dst : g = Grant(s, d)
    BY AclGrant
  <2>2. g \in AclGrants(q) <=>
          \E rule \in p.acls :
            \E s \in FilterRule(rule, tag).src, d \in FilterRule(rule, tag).dst : g = Grant(s, d)
    BY <2>1 DEF FilterRules
  <2>3. QED
    BY <2>2 DEF FilterRule
<1>2. ASSUME NEW s, NEW d
      PROVE  Grant(s, d).src = s /\ Grant(s, d).dst = Host(d)
  BY DEF Grant
<1>3. ASSUME NEW g
      PROVE  g \in AclGrantsWithout(p, tag) <=> g \in AclGrants(q)
  BY <1>1, <1>2, AclGrant DEF AclGrantsWithout
<1>4. QED
  BY <1>3

-----------------------------------------------------------------------------
(* Edits make documents of documents.                                      *)
LEMMA ListsDef ==
    ASSUME NEW K, NEW I, NEW f
    PROVE  f \in Lists(K, I) <=> \E D \in SUBSET K : f \in [D -> SUBSET I]
BY DEF Lists

LEMMA NoListsType ==
    ASSUME NEW K, NEW I
    PROVE  NoLists \in Lists(K, I)
<1>1. {} \in SUBSET K /\ NoLists \in [{} -> SUBSET I]
  BY DEF NoLists
<1>2. QED
  BY <1>1, ListsDef

LEMMA ListsType ==
    ASSUME NEW K, NEW I, NEW f \in Lists(K, I)
    PROVE  DOMAIN f \in SUBSET K /\ \A k \in DOMAIN f : f[k] \in SUBSET I
BY ListsDef

LEMMA WithType ==
    ASSUME NEW K, NEW I, NEW f \in Lists(K, I), NEW k \in K, NEW v \in SUBSET I
    PROVE  With(f, k, v) \in Lists(K, I) /\ DOMAIN With(f, k, v) = DOMAIN f \cup {k}
<1>1. DOMAIN f \cup {k} \in SUBSET K
  BY ListsType
<1>2. With(f, k, v) \in [DOMAIN f \cup {k} -> SUBSET I]
  BY ListsType DEF With
<1>3. QED
  BY <1>1, <1>2, ListsDef

LEMMA WithoutType ==
    ASSUME NEW K, NEW I, NEW f \in Lists(K, I), NEW k
    PROVE  Without(f, k) \in Lists(K, I) /\ DOMAIN Without(f, k) = DOMAIN f \ {k}
<1>1. DOMAIN f \ {k} \in SUBSET K
  BY ListsType
<1>2. Without(f, k) \in [DOMAIN f \ {k} -> SUBSET I]
  BY ListsType DEF Without
<1>3. QED
  BY <1>1, <1>2, ListsDef

LEMMA MovedType ==
    ASSUME NEW K, NEW I, NEW f \in Lists(K, I), NEW old \in K, NEW new \in K
    PROVE  LET g == IF old \in DOMAIN f THEN With(Without(f, old), new, f[old]) ELSE f
           IN  g \in Lists(K, I) /\ (old # new => old \notin DOMAIN g)
<1> DEFINE rest == Without(f, old)
<1>1. CASE old \in DOMAIN f
  <2>1. f[old] \in SUBSET I
    BY <1>1, ListsType
  <2>2. rest \in Lists(K, I) /\ DOMAIN rest = DOMAIN f \ {old}
    BY WithoutType
  <2> HIDE DEF rest
  <2>3. With(rest, new, f[old]) \in Lists(K, I)
          /\ DOMAIN With(rest, new, f[old]) = DOMAIN rest \cup {new}
    BY <2>1, <2>2, WithType
  <2>4. QED
    BY <1>1, <2>2, <2>3 DEF rest
<1>2. CASE old \notin DOMAIN f
  BY <1>2
<1>3. QED
  BY <1>1, <1>2

LEMMA EmptyIsDocument ==
    ASSUME NEW G, NEW T, NEW M
    PROVE  EmptyPolicy \in Documents(G, T, M) /\ RulesAreUsable(EmptyPolicy)
BY NoListsType DEF EmptyPolicy, Documents, RulesAreUsable

LEMMA RenamedDocument ==
    ASSUME NEW G, NEW T, NEW M, NEW p \in Documents(G, T, M), NEW old \in T, NEW new \in T,
           \A t \in T : t \in Names /\ Len(t) >= 2
    PROVE  LET q == RenameTagInPolicy(p, old, new) IN
           /\ q \in Documents(G, T, M)
           /\ q.acls = RenameInRules(p.acls, old, new)
           /\ old # new => old \notin DOMAIN q.owners
           /\ RulesAreUsable(p) => RulesAreUsable(q)
<1> DEFINE q == RenameTagInPolicy(p, old, new)
           owners == IF old \in DOMAIN p.owners
                       THEN With(Without(p.owners, old), new, p.owners[old]) ELSE p.owners
           Usable(rules) == \A rule \in rules : rule.src # {} /\ rule.dst # {}
<1>1. /\ p.groups \in Lists(G, M) /\ p.owners \in Lists(T, M) /\ p.other \in BOOLEAN
      /\ p.acls \in SUBSET Rule /\ p.ssh \in SUBSET Rule
  BY DEF Documents
<1>2. owners \in Lists(T, M) /\ (old # new => old \notin DOMAIN owners)
  BY <1>1, MovedType, Zenon
<1>3. ASSUME NEW rules \in SUBSET Rule
      PROVE  /\ RenameInRules(rules, old, new) \in SUBSET Rule
             /\ Usable(rules) => Usable(RenameInRules(rules, old, new))
  <2>1. ASSUME NEW was \in rules
        PROVE  /\ RenameRule(was, old, new) \in Rule
               /\ was.src # {} => RenameRule(was, old, new).src # {}
               /\ was.dst # {} => RenameRule(was, old, new).dst # {}
    <3>1. was \in Rule /\ old \in Names /\ new \in Names /\ Len(old) >= 2 /\ Len(new) >= 2
      OBVIOUS
    <3>2. /\ RenameRule(was, old, new) \in Rule
          /\ RenameRule(was, old, new).src = {Subst(s, old, new) : s \in was.src}
          /\ RenameRule(was, old, new).dst = {RenameDst(d, old, new) : d \in was.dst}
      BY <3>1, RenamedRule
    <3>3. QED
      BY <3>2
  <2>2. QED
    BY <2>1 DEF RenameInRules
<1>4. RenameInRules(p.acls, old, new) \in SUBSET Rule /\ RenameInRules(p.ssh, old, new) \in SUBSET Rule
  BY <1>1, <1>3, Zenon
<1> HIDE DEF owners
<1>5. q = [p EXCEPT !.owners = owners, !.acls = RenameInRules(p.acls, old, new),
                    !.ssh = RenameInRules(p.ssh, old, new)]
  BY DEF RenameTagInPolicy, owners
<1>6. /\ q \in Documents(G, T, M) /\ q.owners = owners
      /\ q.acls = RenameInRules(p.acls, old, new) /\ q.ssh = RenameInRules(p.ssh, old, new)
  BY <1>1, <1>2, <1>4, <1>5 DEF Documents
<1>7. RulesAreUsable(p) => RulesAreUsable(q)
  <2>1. Usable(p.acls) => Usable(q.acls)
    BY <1>1, <1>3, <1>6, Zenon
  <2>2. Usable(p.ssh) => Usable(q.ssh)
    BY <1>1, <1>3, <1>6, Zenon
  <2>3. QED
    BY <2>1, <2>2 DEF RulesAreUsable
<1>8. QED
  BY <1>2, <1>6, <1>7

LEMMA FilteredDocument ==
    ASSUME NEW G, NEW T, NEW M, NEW p \in Documents(G, T, M), NEW tag
    PROVE  LET q == DeleteTagFromPolicy(p, tag) IN
           /\ q \in Documents(G, T, M)
           /\ q.acls = FilterRules(p.acls, tag)
           /\ tag \notin DOMAIN q.owners
           /\ RulesAreUsable(q)
<1> DEFINE q == DeleteTagFromPolicy(p, tag)
<1>1. /\ p.groups \in Lists(G, M) /\ p.owners \in Lists(T, M) /\ p.other \in BOOLEAN
      /\ p.acls \in SUBSET Rule /\ p.ssh \in SUBSET Rule
  BY DEF Documents
<1>2. Without(p.owners, tag) \in Lists(T, M)
  BY <1>1, WithoutType, Zenon
<1>3. tag \notin DOMAIN Without(p.owners, tag)
  BY DEF Without
<1>4. ASSUME NEW rules \in SUBSET Rule
      PROVE  /\ FilterRules(rules, tag) \in SUBSET Rule
             /\ \A rule \in FilterRules(rules, tag) : rule.src # {} /\ rule.dst # {}
  <2>1. \A rule \in rules : FilterRule(rule, tag) \in Rule
    BY DEF FilterRule, Rule
  <2>2. QED
    BY <2>1 DEF FilterRules
<1>5. q = [p EXCEPT !.owners = Without(p.owners, tag), !.acls = FilterRules(p.acls, tag),
                    !.ssh = FilterRules(p.ssh, tag)]
  BY DEF DeleteTagFromPolicy
<1>6. /\ q \in Documents(G, T, M) /\ q.owners = Without(p.owners, tag)
      /\ q.acls = FilterRules(p.acls, tag) /\ q.ssh = FilterRules(p.ssh, tag)
  BY <1>1, <1>2, <1>4, <1>5 DEF Documents
<1>7. QED
  BY <1>3, <1>4, <1>6, <1>1 DEF RulesAreUsable

=============================================================================
