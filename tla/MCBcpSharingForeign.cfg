\* A facility org unit exports an ou's dir of a service of another
\* facility (em-facility/lm1/alice) under an accept-all filter.
CONSTANTS
    ServiceDir <- SrvName
    OrgUnitDir <- OrgName
    Facilities <- FacilityNames
    FacilityOf <- ServiceFacility
    ExportPaths <- AllPaths
    FilterRules <- AcceptAllFilter
    MaxExports = 1
SPECIFICATION Spec
INVARIANT GrantReachable
