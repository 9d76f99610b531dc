SPECIFICATION Spec
CONSTANTS
    none = none
    None = none
    EvmChains <- Evm
    SolanaChains <- Solana
    MsTicks = 2
    DayTicks = 4
    TrailingDays = 2
    SecondTicks = 4
    Reports <- ReportedRows
    PricesOf <- Prices
    BlockTimes <- Times
    Plans <- Ranges
    FeedFilters = {"any", "pending"}
    PageSize = 1
    RowsMax = 3
    StartTime = 5
    MaxRows = 2
    MaxTime = 6
INVARIANTS
    FeedWalkComplete
    RankingPagesAreTheRanking
    
    AgentPageAgrees
CHECK_DEADLOCK FALSE
