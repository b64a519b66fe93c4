---------------------------- MODULE MCEarnedGate ----------------------------
(* Small instances of EarnedGate: a required daily chore and a bonus weekly    *)
(* one, over two days of one week and the first day of the next.              *)
EXTENDS EarnedGate, TLC

CONSTANTS bed, trash

MCChore    == {bed, trash}
MCRequired == {bed}
MCWeekly   == {trash}
MCMinutes  == (bed :> 0 @@ trash :> 2)

\* One step a day: days 0 and 1 in week 0, day 2 in week 1.
MCDateOf == [t \in 0..MaxTime |-> t]
MCWeekOf == [t \in 0..MaxTime |-> t \div 2]
MCHhmm   == [t \in 0..MaxTime |-> t]
MCDue    == [t \in 0..MaxTime |-> {bed}]

\* The hold hour is not reached on the first day.
On == [enabled |-> TRUE, bonusCap |-> 1, ttl |-> 1, holdFrom |-> 1,
       gateActive |-> TRUE, ratio |-> 3, dailyCap |-> 2, maxBank |-> 2]

MCPolicies    == {On}
MCEarnMinutes == {2}

MCBanks == {[chores |-> MCChore, pin |-> TRUE]}

MCKidGrants == {[named |-> TRUE, chores |-> MCChore, approved |-> {bed, trash}],
                [named |-> TRUE, chores |-> {trash}, approved |-> {}]}

\* The server's chores are not in the bank, and one delivery names no kid for
\* this Mac (its hostname was being changed), so the bank stands in.
MCOtherBanks == {[chores |-> {bed}, pin |-> TRUE]}
MCLapsedGrants ==
  {[named |-> TRUE, chores |-> MCChore, approved |-> {trash}],
   [named |-> FALSE, chores |-> {}, approved |-> {}]}

\* The liveness run: required chores only, reports that carry the policy but
\* no credit.
OnlyBed     == {bed}
NoWeekly    == {}
NoMinutes   == {0}
MCBedMinutes == (bed :> 0)
MCBedDue    == [t \in 0..MaxTime |-> OnlyBed]
MCBedBanks  == {[chores |-> OnlyBed, pin |-> TRUE]}
MCBedGrants == {[named |-> TRUE, chores |-> OnlyBed, approved |-> OnlyBed],
                [named |-> TRUE, chores |-> OnlyBed, approved |-> {}],
                [named |-> FALSE, chores |-> {}, approved |-> {}]}
=============================================================================
