------------------------------ MODULE MCTagOps ------------------------------
(* Two tags, one node, one key, and policies that name the tags as source, *)
(* as ACL destination with a port and as bare SSH destination.             *)
EXTENDS TagOps, TLC

A == <<"tag", "a">>
B == <<"tag", "b">>
Bob == <<"bob">>

MCTags == {A, B}
MCMembers == {Bob}
MCGroups == {<<"group", "g">>}
MCTagLists == {{}, {A}, {A, B}}
MCUndecodable == {<<"not a list">>}
MCNewRules == {[src |-> {Bob}, dst |-> {A \o <<"22">>}]}

SshRule == [src |-> {Bob}, dst |-> {A}]
WideRule == [src |-> {A, Bob}, dst |-> {A \o <<"22">>, B \o <<"80">>}]
NarrowRule == [src |-> {A}, dst |-> {B \o <<"80">>}]

BothOwned == [EmptyPolicy EXCEPT !.owners = [t \in {A, B} |-> {Bob}]]
OneOwned == [EmptyPolicy EXCEPT !.owners = [t \in {A} |-> {Bob}]]

MCBodies ==
    {EmptyPolicy,
     [BothOwned EXCEPT !.acls = {WideRule, NarrowRule}, !.other = TRUE],
     [OneOwned EXCEPT !.acls = {WideRule}, !.ssh = {SshRule}]}

MCSshBodies == {[BothOwned EXCEPT !.ssh = {SshRule}]}

MCSymmetry == Permutations(Requests)
=============================================================================
