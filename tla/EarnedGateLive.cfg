SPECIFICATION FairSpec
CONSTANTS
  bed = bed
  trash = trash
  Chore <- OnlyBed
  Required <- MCRequired
  Weekly <- NoWeekly
  OnceOnly = {}
  Minutes <- MCBedMinutes
  MaxTime = 2
  DateOf <- MCDateOf
  WeekOf <- MCWeekOf
  Due <- MCBedDue
  Hhmm <- MCHhmm
  Policies <- MCPolicies
  EarnMinutes <- NoMinutes
  MaxAttempts = 1
  Lockout = 1
  Banks <- MCBedBanks
  KidGrants <- MCBedGrants
  ApprovalLead = 0
  MaxCrashes = 1
PROPERTY ApprovalsLand
PROPERTY HoldIsReleased
