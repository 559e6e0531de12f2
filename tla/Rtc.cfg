SPECIFICATION Spec
CONSTANTS
  Instants <- BootMoments
  Sleeps <- Pauses
  MaxTicks = 2
  MaxSleeps = 2
INVARIANTS TimeIsOfDhaka DateIsOfDhaka UptimeForgetsDays UptimeIsNotNegative
