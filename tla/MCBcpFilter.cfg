\* Every filter of up to two rules over the Organizations built from a group
\* table whose facility names are not prefixes of one another; and every
\* group table of up to four entries from seven candidate groups under
\* twenty configurations, put to the group resolver and the builder; and
\* twenty-three configurations, most with one defect, put to the parser
\* with the empty table and with the table they name; and
\* every sharing configuration of up to three exports, put to the sharing
\* compiler.
CONSTANTS
    FacilitySuffix = "-facility"
    FilterTable <- DisjointTable
    FilterConfigs <- DisjointConfigs
    MaxRules = 2
    CandidateGroups <- OrgCandidates
    OrgConfigs <- OrgConfigSet
    MaxGroups = 4
    ParserConfigs <- ParserConfigSet
    MaxExports = 3
SPECIFICATION Spec
INVARIANTS AcceptIsFirstDecision SameFacilityOwnsService
           DedupGroupsIsReference LoadGroupsIsReference
           ParseIsReference ParsedConfigLoadsWithoutPanic
           NestingChecksMatchReference RealShareIsUnion GrantReachable
