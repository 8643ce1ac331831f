\* The client's option enableTelemetry is on or off.
SPECIFICATION FairSpec
CONSTANTS
  MaxMsgs = 3
  MaxAsks = 1
PROPERTY TelemetryInBackground
CHECK_DEADLOCK FALSE
