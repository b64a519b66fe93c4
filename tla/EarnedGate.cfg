SPECIFICATION Spec
CONSTANTS
  bed = bed
  trash = trash
  Chore <- MCChore
  Required <- MCRequired
  Weekly <- MCWeekly
  OnceOnly = {}
  Minutes <- MCMinutes
  MaxTime = 2
  DateOf <- MCDateOf
  WeekOf <- MCWeekOf
  Due <- MCDue
  Hhmm <- MCHhmm
  Policies <- MCPolicies
  EarnMinutes <- MCEarnMinutes
  MaxAttempts = 2
  Lockout = 2
  Banks <- MCBanks
  KidGrants <- MCKidGrants
  ApprovalLead = 0
  MaxCrashes = 1
INVARIANT TypeOK
INVARIANT BonusIsEarned
INVARIANT VerifiedConsumesClaim
 
INVARIANT RestartKeepsLedger
INVARIANT CapHoldsOnceKnown
PROPERTY LockoutHolds
