\* Four runs, one injected failure or crash, configuration churn between
\* runs, and users writing and deleting data at any time.
CONSTANTS
    FacilitySuffix = "-facility"
    Services = {"mic"}
    Subdirs = {"data"}
    OrgUnits <- MCOrgUnits
    LinkTargets <- MCLinkTargets
    Configs <- ConfigsChurn
    MaxRuns = 4
    MaxFaults = 1
SPECIFICATION Spec
INVARIANTS TypeOK SuccessfulRunVerifies
PROPERTY CleanRunChangesNothing
