SPECIFICATION FairSpec
CONSTANTS
    Services = {"account", "payment", "gateway", "webhook", "notification"}
    RedisRetries = 1
    MaxOutages = 1
INVARIANTS
    TypeOK
    ServesOnFullSchema
PROPERTIES
    AllServeInTheEnd
