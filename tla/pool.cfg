CONSTANT NodeConfigs <- PoolConfigs
SPECIFICATION PoolSpec
INVARIANTS PoolTypeOK WeightedRoundRobin
