\* Facility b uses "mic" through a filter rule; then "mic" moves to
\* facility b.  No failure is injected.
CONSTANTS
    FacilitySuffix = "-facility"
    Services = {"mic"}
    Subdirs = {"data"}
    OrgUnits <- MCOrgUnits
    LinkTargets <- MCLinkTargets
    Configs <- ConfigsFacilityMove
    MaxRuns = 3
    MaxFaults = 0
SPECIFICATION Spec
INVARIANT FaultFreeRunSucceeds
