CONSTANTS
  MaxEvents = 4
  Poison <- FirstTwoRefused
  NotifyLimit = 2
  MaxBackoff = 4
  MaxCycle = 2
  MaxFaults = 2

SPECIFICATION NotifierFairSpec

INVARIANTS
  NotifierTypeOK
  NotifiedIsDelivered
  PostedOnce

PROPERTIES
  AlertsDelivered
