CONSTANTS
    Pin <- MCPin
    Channels = 2
    MaxFaults = 3
SPECIFICATION Spec
INVARIANTS TypeOK ChannelsExclusive DriverOnStation
PROPERTY ControllerRepaired
