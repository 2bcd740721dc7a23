SPECIFICATION Spec
CONSTANTS
    Paths <- MCPaths
    Rules <- MCRules
    Contents = {c1, c2}
    Absent = Absent
INVARIANTS
    ContentStaysInside
    OnlyMovesEscape
    CleanRulesAreHonoured
