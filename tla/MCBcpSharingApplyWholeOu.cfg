\* Alice shares her whole org unit directory with bob; one run.
CONSTANTS
    ServiceDir <- SrvName
    OrgUnitDir <- OrgName
    Facilities <- FacilityNames
    FacilityOf <- ServiceFacility
    Configs <- WholeOuConfigs
    OpsSuffix = "ops"
    MaxRuns = 1
    MaxFaults = 0
SPECIFICATION Spec
INVARIANT SuccessfulRunEstablishesSharing
