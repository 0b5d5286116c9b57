CONSTANTS
  Browsers = {b1}
  Endpoints = {e1}
  Secrets = {x1, x2}
  Messages = {n1}
  Replicas = {w1, w2}
  VapidKeys = {k1}
  MaxSubscriptions = 1
  MaxAttempts = 2
  Lease = 3
  SendTimeout = 1
  BackoffUnit = 1
  JobLifetime = 4
  Renewal = 3
  MaxLag = 1
  MaxClock = 4
  MaxFaults = 1
SPECIFICATION FairSpec
INVARIANTS
  OneSender
  QueuedForThisRegistration
PROPERTIES
  OnlyDeadRemoved
  NeverSilentlyLost
  QueueDrains
