\* The ops groups are named <srvprefix>_<fac>-operators (cfg.OpsSuffix).
CONSTANTS
    ServiceDir <- SrvName
    OrgUnitDir <- OrgName
    Facilities <- FacilityNames
    FacilityOf <- ServiceFacility
    Configs <- GrantConfigs
    OpsSuffix = "operators"
    MaxRuns = 1
    MaxFaults = 0
SPECIFICATION Spec
PROPERTY ManagingEntriesKept
