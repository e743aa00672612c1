SPECIFICATION PlaneSpec
INVARIANTS
    SelectorOrderKept
CONSTANTS
    Default = "opengecko.db"
    Validation = "opengecko-validation.db"
    Memory = ":memory:"
    Canonical = {"bitcoin"}
    Other = {"other"}
    Coin = {1, 2, 3}
    RankOf <- MCRanks
    Supply <- MCSupply
    Active = {1, 2}
    Seeds <- MCSeeds
    Snapshots <- MCSnapshots
    Closes <- MCSeries
    ClosePrice = 3
    Fiat = {1, 5}
    Queries <- MCQueries
    Modes = {"off", "degraded_seeded_bootstrap"}
    CacheTtl = 1
    MaxTime = 2
    MaxChanges = 2
    Threshold = 0
    TooOld = 2
    QuotedExchange = {"kraken", "gate", "okx"}
    KnownExchange = {"kraken", "okex"}
    CanonicalName <- MCCanonicalName
    QuotedSymbol = {"USD", "USDT"}
    Offers <- MCOffers
    QuotePrices = {24, 31, 100}
    QuoteSupplies = {7}
    MaxRefreshes = 2
    Tellings <- MCTellings
    AddressOf <- MCAddressOf
    PoolSeeds <- MCPoolSeeds
    PoolNetworks = {"eth"}
    Client = {x, y}
    MaxTargets = 3
    MaxPoolSweeps = 2
    BaseBackoff = 1
    MaxBackoff = 1
    MaxFailures = 1
    Pools <- MCPools
    Stable = {"usdc"}
    Swaps <- MCSwaps
    Replays <- MCCandleReplays
    Fixtures <- MCFixtures
    SwapWindow = 2
    Made = 5
    MaxSwapTime = 5
    MaxSteps = 2
    Depth = 5
    First = 2
    Chunk = 2
    Slo = 2
    ProductionSlo = 1
    Retention = 2
    Granularities <- MCGranularities
    Coarsest = 3
    ChartTold <- MCChartTold
    ChartReplays <- MCChartReplays
    WorkerCandles <- MCWorkerCandles
    Ratio = 2
    ChartQueries <- MCChartQueries
    EventLimit = 1
    ChartStart = 7
    ChartEnd = 8
    MaxChartChanges = 2
    MaxPasses = 2
    Venue = {"known", "new", "idle"}
    ConfiguredVenues <- MCConfiguredVenues
    SeededVenues = {"known", "idle"}
    SeededTickers <- MCSeededTickers
    SeededInterest = 5
    Symbols = {"s", "t"}
    Interest <- MCInterest
    MaxSafeInteger = 1000
    SeededEntities = {"strategy", "salvador"}
    SeededHoldings <- MCSeededHoldings
    SeededTransactions <- MCSeededTransactions
    Files <- MCFiles
    DayPrices <- MCDayPrices
    CurrentPrice = 2
    HoldingWindows = {2, 9}
    LastDay = 3
    MaxSweeps = 3
    SpotExchange = {"okex", "okx"}
    SeededExchanges = {"okex"}
    Alias <- MCAlias
    Targets <- MCVolumeTargets
    Instants = {0, 1}
    Claims <- MCClaims
    VolumeWindows = {1, 2}
    PerPage = 1
CHECK_DEADLOCK FALSE
