SPECIFICATION FairSpec
CONSTANTS
    MetricNames = {"CPUUtilization", "SwapUsage", "ReadIOPS"}
    Answers <- MCAnswers
INVARIANTS
    TypeOK
    ReportsNewest
    FailuresStayIsolated
PROPERTIES
    CollectTerminates
