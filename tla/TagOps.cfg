SPECIFICATION Spec
CONSTANTS
    Requests = {r1, r2}
    Nodes = {n1}
    Keys = {k1}
    Tags <- MCTags
    Members <- MCMembers
    Groups <- MCGroups
    NewRules <- MCNewRules
    Bodies <- MCBodies
    TagLists <- MCTagLists
    Undecodable <- MCUndecodable
    MaxFaults = 1
SYMMETRY MCSymmetry
CHECK_DEADLOCK FALSE
INVARIANTS TagOpsTypeOK WrittenRulesAreUsable 
PROPERTIES UndisturbedTagOpIsComplete EditsMeanWhatTheySay
