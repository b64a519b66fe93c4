--------------------------- MODULE ExposureBudget ---------------------------
(***************************************************************************)
(* The exposure budget and the coverage escalation (pipeline.rs              *)
(* ExposureTracker, metric_increment, escalation_scale and the end of run):  *)
(* every round adds to a rolling window what the censor had to do, and too   *)
(* much within the window asks the daemon for a timed lockout, or warns.     *)
(*                                                                          *)
(* Time is in ticks of a second.  Amounts are whole; the area metric, a      *)
(* fraction of the time, is left out.  The escalation's own window is the    *)
(* same machine with other constants; here its sum is any number.            *)
(***************************************************************************)
EXTENDS Integers, Sequences, SequencesExt, Retaining

CONSTANTS
  Metric,       \* of the policy: "events", "activeSeconds", "boxSeconds"
  MaxBoxes,     \* bound on the boxes held
  MaxEvents,    \* bound on the events kept
  BlockWindow, BlockLimit, Penalty,   \* block_window_sec, block_threshold, penalty_sec
  WarnWindow, WarnLimit, WarnPause,   \* and of the warning
  Slack,        \* 5 s: how much longer events are kept, and the longest step
  ScaleMax, ScaleStart, Growth, Decay, CoverLimit   \* coverage_escalation, 1.0 is One

One == 10

ASSUME BudgetAssumption ==
  /\ Metric \in {"events", "activeSeconds", "boxSeconds"}
  /\ {MaxBoxes, MaxEvents, WarnLimit, Growth, Decay, CoverLimit} \subseteq Nat
  /\ {BlockWindow, BlockLimit, Penalty, WarnWindow, WarnPause, Slack} \subseteq Nat \ {0}
  /\ ScaleMax \in Nat /\ ScaleMax >= One /\ ScaleStart \in Nat

VARIABLES
  budgetOn, coverOn,  \* the policy
  boxes,              \* boxes held
  events,             \* the tracker's events, the oldest first: age and amount
  sinceRound,         \* ticks since last_tick
  sinceBlock,         \* ticks since last_block, or NotYet
  sinceWarn,          \* ticks since last_warn, or NotYet
  overBudget,         \* Health::exposure_over_budget
  scale,              \* cov_scale
  spent               \* history: all that was done within the block window and
                      \* since the last trip: age and amount

budgetVars == <<budgetOn, coverOn, boxes, events, sinceRound, sinceBlock, sinceWarn,
                overBudget, scale, spent>>

NotYet == -1

BudgetInit ==
  /\ budgetOn \in BOOLEAN /\ coverOn \in BOOLEAN
  /\ boxes = 0 /\ events = <<>> /\ sinceRound = 0
  /\ sinceBlock = NotYet /\ sinceWarn = NotYet
  /\ overBudget = FALSE /\ scale = One /\ spent = <<>>

UpTo(n, bound) == IF n < bound THEN n ELSE bound
Raise(n, bound) == IF n > bound THEN n ELSE bound

Total(entries, window) ==
  FoldLeft(LAMBDA sum, e : sum + (IF e.age <= window THEN e.amount ELSE 0), 0, entries)

Aged(entries) == [i \in DOMAIN entries |-> [entries[i] EXCEPT !.age = @ + 1]]

Younger(entries, age) == Retain(entries, {e \in Range(entries) : e.age <= age})

KeepFor == Raise(WarnWindow, BlockWindow) + Slack

-----------------------------------------------------------------------------
ChangeBudget ==
  /\ budgetOn' \in BOOLEAN /\ coverOn' \in BOOLEAN
  /\ UNCHANGED <<boxes, events, sinceRound, sinceBlock, sinceWarn, overBudget, scale, spent>>

\* A heartbeat consumes the edge.
Consume ==
  /\ overBudget /\ overBudget' = FALSE
  /\ UNCHANGED <<budgetOn, coverOn, boxes, events, sinceRound, sinceBlock, sinceWarn, scale,
                 spent>>

\* A second passes; what is past every use is not told apart any more.
BudgetSecond ==
  /\ events' = Younger(Aged(events), KeepFor + 1)
  /\ spent' = Younger(Aged(spent), BlockWindow)
  /\ sinceRound' = UpTo(sinceRound + 1, Slack)
  /\ sinceBlock' = IF sinceBlock = NotYet THEN NotYet ELSE UpTo(sinceBlock + 1, Penalty)
  /\ sinceWarn' = IF sinceWarn = NotYet THEN NotYet ELSE UpTo(sinceWarn + 1, WarnPause)
  /\ UNCHANGED <<budgetOn, coverOn, boxes, overBudget, scale>>

\* An excluded app pauses the pipeline: no boxes, no escalation.
PauseCensor ==
  /\ boxes' = 0 /\ scale' = One
  /\ UNCHANGED <<budgetOn, coverOn, events, sinceRound, sinceBlock, sinceWarn, overBudget,
                 spent>>

-----------------------------------------------------------------------------
\* metric_increment
Increment(new, held, dt) ==
  CASE Metric = "events"        -> new
    [] Metric = "activeSeconds" -> IF held > 0 THEN dt ELSE 0
    [] Metric = "boxSeconds"    -> held * dt

Recorded(entries, amount) ==
  IF amount > 0 THEN Append(entries, [age |-> 0, amount |-> amount]) ELSE entries

\* Mutant: events are only kept for the window of the warning.
PrunedToWarn(entries) == Younger(entries, WarnWindow)

Pruned(entries) == Younger(entries, KeepFor)

\* The budget's part of a round.
Budget(new, held) ==
  LET amount == Increment(new, held, sinceRound)
      kept   == Pruned(Recorded(events, amount))
      trips  == /\ Total(kept, BlockWindow) >= BlockLimit
                /\ sinceBlock = NotYet \/ sinceBlock = Penalty
      warns  == /\ ~trips /\ WarnLimit > 0 /\ Total(kept, WarnWindow) >= WarnLimit
                /\ sinceWarn = NotYet \/ sinceWarn = WarnPause
  IN /\ events' = IF trips THEN <<>> ELSE kept
     /\ spent' = IF trips THEN <<>> ELSE Recorded(spent, amount)
     /\ sinceBlock' = IF trips THEN 0 ELSE sinceBlock
     /\ sinceWarn' = IF warns THEN 0 ELSE sinceWarn
     /\ overBudget' = (overBudget \/ trips)
     /\ sinceRound' = 0

\* escalation_scale: a ratchet over the limit, a decay below it.
Escalated(sum, dt) ==
  IF CoverLimit > 0 /\ sum >= CoverLimit
  THEN UpTo(Raise(scale, ScaleStart + (sum - CoverLimit) * Growth), ScaleMax)
  ELSE Raise(UpTo(scale, ScaleMax) - Decay * dt, One)

\* The end of a round that made `new` boxes of those now held.  With the budget
\* off nothing is recorded and last_tick stays.
EndRound(new, held, sum) ==
  /\ new <= held /\ Len(events) < MaxEvents
  /\ boxes' = held
  /\ \/ budgetOn /\ Budget(new, held)
     \/ ~budgetOn /\ UNCHANGED <<events, sinceRound, sinceBlock, sinceWarn, overBudget, spent>>
  /\ scale' = IF coverOn THEN Escalated(sum, UpTo(sinceRound, Slack)) ELSE One
  /\ UNCHANGED <<budgetOn, coverOn>>

BudgetNext ==
  \/ ChangeBudget \/ Consume \/ BudgetSecond \/ PauseCensor
  \/ \E new, held \in 0..MaxBoxes, sum \in 0..(CoverLimit + 1) : EndRound(new, held, sum)

BudgetSpec == BudgetInit /\ [][BudgetNext]_budgetVars

-----------------------------------------------------------------------------
(* Properties *)

Entries == Seq([age: Nat, amount: Nat \ {0}])

\* Type invariant; the scale stays between 1.0 and its maximum.
BudgetTypeOK ==
  /\ budgetOn \in BOOLEAN /\ coverOn \in BOOLEAN /\ overBudget \in BOOLEAN
  /\ boxes \in 0..MaxBoxes /\ sinceRound \in 0..Slack
  /\ events \in Entries /\ spent \in Entries
  /\ sinceBlock \in NotYet..Penalty /\ sinceWarn \in NotYet..WarnPause
  /\ scale \in One..ScaleMax

RoundKeepsBudget ==
  \A new, held \in 0..MaxBoxes, sum \in 0..(CoverLimit + 1) :
    EndRound(new, held, sum) =>
      \/ Total(spent', BlockWindow) < BlockLimit
      \/ sinceBlock' \in 0..(Penalty - 1)

\* Whatever was done within the block window since the last trip counts: no
\* round leaves it at the limit, unless the last penalty still runs.
\* (ExposureTracker: record, prune, sum_within)
BudgetIsKept == [][budgetOn => RoundKeepsBudget]_budgetVars
=============================================================================
