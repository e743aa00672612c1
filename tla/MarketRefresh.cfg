SPECIFICATION FairSpec
CONSTANTS
    api = api
    worker = worker
    cli = cli
    binance = binance
    kraken = kraken
    NoOne = NoOne
    Lost = Lost
    Process = {api, cli}
    Command = {cli}
    Exchange = {binance, kraken}
    Forcing = {api}
    LeaseTtl = 2
    Cooldown = 2
    BaseBackoff = 1
    MaxBackoff = 2
    MaxFailures = 2
    MaxRevision = 1
INVARIANTS
    LiveHoldersAlone
PROPERTIES
    RevisionNeverRegresses
    AbandonedLeaseRetaken
    OpenBreakerProbed
