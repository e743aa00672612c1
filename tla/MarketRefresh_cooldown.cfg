SPECIFICATION Spec
CONSTANTS
    api = api
    worker = worker
    cli = cli
    binance = binance
    kraken = kraken
    NoOne = NoOne
    Lost = Lost
    Process = {api, worker}
    Command = {}
    Exchange = {binance}
    Forcing = {}
    LeaseTtl = 3
    Cooldown = 3
    BaseBackoff = 1
    MaxBackoff = 2
    MaxFailures = 2
    MaxRevision = 1
PROPERTIES
    CooldownHeld
