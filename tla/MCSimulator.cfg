\* Machine words of seven bits.  No bound cuts a scenario short: the longest log
\* is far below MaxEvents.
CONSTANTS
    QtySpace = 128
    SlotSpace = 128
    OrderIds <- Words
    Prices <- Words
    None = None
    EventMode = "Full"
    MaxEvents = 100
    Floats <- MCFloats
    Fine = 16
    Exact = 16
    Configs <- MCConfigs
    Given <- MCGiven
SPECIFICATION SimSpec
CHECK_DEADLOCK FALSE
INVARIANTS
    ScenarioBalances
    MetricsInRange
    GeneratedAsPromised
PROPERTIES
    ScenarioEnds
