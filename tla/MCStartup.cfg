\* Settings and systems.
CONSTANTS
    Configs <- SomeConfigs
SPECIFICATION FairSpec
INVARIANTS
    Ready
PROPERTIES
    Starts
