\* "mic" moves from facility a to facility b between two runs.
CONSTANTS
    FacilitySuffix = "-facility"
    Services = {"mic"}
    Subdirs = {"data"}
    OrgUnits <- MCOrgUnits
    LinkTargets <- MCLinkTargets
    Configs <- ConfigsReassign
    MaxRuns = 3
    MaxFaults = 0
SPECIFICATION Spec
INVARIANT NoStaleOpsAccess
