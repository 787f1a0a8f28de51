\* Alice shares her ou subdir with bob, read-write; two runs, no faults.
CONSTANTS
    ServiceDir <- SrvName
    OrgUnitDir <- OrgName
    Facilities <- FacilityNames
    FacilityOf <- ServiceFacility
    Configs <- MaskedConfigs
    OpsSuffix = "ops"
    MaxRuns = 2
    MaxFaults = 0
SPECIFICATION Spec
INVARIANT FaultFreeRunSucceeds
