SPECIFICATION Spec
CONSTANTS
    Requests = {r1}
    Nodes = {n1}
    Keys = {k1}
    Tags <- MCTags
    Members <- MCMembers
    Groups <- MCGroups
    NewRules <- MCNewRules
    Bodies <- MCSshBodies
    TagLists <- MCTagLists
    Undecodable <- MCUndecodable
    MaxFaults = 0
CHECK_DEADLOCK FALSE
PROPERTIES RenameRewritesEveryReference
