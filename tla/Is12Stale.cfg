\* The reporting delay of the link and stream domains.
CONSTANT DELAY = 2
SPECIFICATION MonitorSpec
PROPERTY AllPersisted
