SPECIFICATION CalculationsSpec
CONSTANTS
    ModuleKey = "module"
    CatalogActions = {"read", "update", "delete"}
    FieldTypes <- MCFieldTypes
    FieldOperators <- MCFieldOperators
    FieldValues <- MCFieldValues
    Trees <- MCTrees
    PolicySets <- MCPolicySets
    Modes = {"tenant", "platform"}
    Contexts <- MCContexts
    Times = {1, 2}
    JobTables <- MCJobTables
    JobCalls <- MCJobCalls
    ScheduleTables <- MCScheduleTables
    ScheduleCalls <- MCScheduleCalls
    KeyTables <- MCKeyTables
    KeyCalls <- MCKeyCalls
    RowTables <- MCRowTables
    RowCalls <- MCRowCalls
    Databases <- MCDatabases
    Plans <- MCPlans
    ReadTables <- MCReadTables
    ReadCallers <- MCReadCallers
    ReadEntities <- MCReadEntities
    ReadQueries <- MCReadQueries
    EntityInputs <- MCEntityInputs
    ProjectConfigs <- MCProjectConfigs
    GivenEntities <- MCGivenEntities
    MinutesInHour = 2
    HoursInDay = 3
    DaysInWeek = 2
    Dates <- MCDates
    Expressions <- MCExpressions
    Places <- MCPlaces
    Starts <- MCStarts
    Spans <- MCSpans
    Requests = {"r1", "r2", "r3"}
    Calls <- MCCalls
    Situations <- MCSituations
    UnitLength <- MCUnitLength
    MaxTime = 3
INVARIANTS
    PredicatesSound
    BundlesFailClosed
    ScopeIsDecision
    HiddenStaysHidden
    DialectsAgree
    TenantsApart
    RetriesAnswered
    WritesGuarded
    LimitKept
    DefinitionsUsable
    OccurrencesFirst
