\* Two sharing configurations that regrant, change modes and unexport;
\* three runs, one fault, users creating and removing the shared dirs.
CONSTANTS
    ServiceDir <- SrvName
    OrgUnitDir <- OrgName
    Facilities <- FacilityNames
    FacilityOf <- ServiceFacility
    Configs <- PassConfigs
    OpsSuffix = "ops"
    MaxRuns = 3
    MaxFaults = 1
SPECIFICATION Spec
INVARIANTS TypeOK SuccessfulRunEstablishesSharing FaultFreeRunSucceeds
PROPERTY ManagingEntriesKept
