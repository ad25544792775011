SPECIFICATION CronSpec
CONSTANTS
  backup = backup
  mail = mail
  broken = broken
  Commands <- Three
  FieldsOf <- Crontab3
  Times <- June
  MaxThreads = 2
  Careful = FALSE
  MaxLines = 2
  MaxStreams = 2
  MaxCrashes = 0
  MaxEdits = 3
INVARIANTS RemovedStaysOut NoOlderCommand LastLineExact
CHECK_DEADLOCK FALSE
