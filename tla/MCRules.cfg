SPECIFICATION RulesSpec
PROPERTIES GraphsAreExplained EquivalenceIsEarned PlansAreKept ReportsAreBacked
CHECK_DEADLOCK FALSE
