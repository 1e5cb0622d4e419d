SPECIFICATION FairSpec
CONSTANTS
  Daemon = {d1, d2}
  Fallible = {d1}
  MaxRun = 2
  CronJob = {c1}
  NoDaemon = NoDaemon
  NoCronJob = NoCronJob
  TTL = 1
  MaxMinute = 2
CHECK_DEADLOCK FALSE
INVARIANTS
  CronInv
  OneRowPerTrigger
  FiredAsRecorded
  ExecutorHasTheRow
PROPERTIES
  VerdictStands
  
