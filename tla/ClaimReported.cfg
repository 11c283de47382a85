CONSTANTS
  MaxLog = 2
  Retries = 4
  MaxEvents = 3
SPECIFICATION EngineSpec
PROPERTIES ReportedAtALaterStart
