\* Facility "e" is a prefix of facility "em": the facility org unit
\* "em-facility" starts with "e".  No org, parser or sharing questions.
CONSTANTS
    FacilitySuffix = "-facility"
    FilterTable <- PrefixTable
    FilterConfigs <- PrefixConfigs
    MaxRules = 1
    CandidateGroups <- OrgCandidates
    OrgConfigs <- OrgConfigSet
    MaxGroups = 0
    ParserConfigs = {}
    MaxExports = 0
SPECIFICATION Spec
INVARIANT SameFacilityOwnsService
