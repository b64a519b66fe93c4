------------------------------ MODULE Challenge ------------------------------
(***************************************************************************)
(* The activity challenges (challenge.rs and the dialog of prompt.rs): a     *)
(* scheduler thread that poses a task of the delivered bank, keeps asking    *)
(* until it is solved or the attempts are used up, and leaves a flag that    *)
(* makes the daemon cut the network while an answer is overdue.              *)
(*                                                                          *)
(* The dialog blocks the thread: while one is open the policy and the bank   *)
(* may change and the scheduler does not see it.                             *)
(***************************************************************************)
EXTENDS Naturals, FiniteSets, SequencesExt

CONSTANTS
  Task,         \* the tasks a bank may hold, by id
  Answer,       \* what may be typed, in canonical form
  Accepted,     \* the answers each task accepts (by value or by hash)
  MaxAttempts,  \* max_attempts, at least 1
  RecentMax,    \* 8: how many solved tasks are remembered
  NoTask

ASSUME ChallengeAssumption ==
  /\ Accepted \in [Task -> SUBSET Answer]
  /\ MaxAttempts \in Nat \ {0} /\ RecentMax \in Nat
  /\ NoTask \notin Task

VARIABLES
  challengeOn,  \* the policy
  eligible,     \* the tasks of tasks.json that pass the policy's filter
  timer,        \* next_at: "unset", "running", or "due"
  posed,        \* the task of the open dialog, or NoTask
  wrong,        \* wrong answers to it
  recent,       \* the ids of the last tasks solved
  overdue,      \* Health::challenge_overdue
  tries,        \* history: wrong answers given since the task was posed
  unanswered    \* history: the open task outlived its window

challengeVars == <<challengeOn, eligible, timer, posed, wrong, recent, overdue, tries,
                   unanswered>>

ChallengeInit ==
  /\ challengeOn \in BOOLEAN /\ eligible \in SUBSET Task
  /\ timer = "unset" /\ posed = NoTask /\ wrong = 0 /\ recent = <<>>
  /\ overdue = FALSE /\ tries = 0 /\ unanswered = FALSE

-----------------------------------------------------------------------------
(* Around the scheduler: a new policy, a new bank, time *)

SetPolicy ==
  /\ challengeOn' = ~challengeOn
  /\ UNCHANGED <<eligible, timer, posed, wrong, recent, overdue, tries, unanswered>>

Deliver ==
  /\ eligible' \in (SUBSET Task) \ {eligible}
  /\ UNCHANGED <<challengeOn, timer, posed, wrong, recent, overdue, tries, unanswered>>

\* A random interval, or 30 s after a failure: not modelled further than that
\* it ends.
ComeDue ==
  /\ timer = "running"
  /\ timer' = "due"
  /\ UNCHANGED <<challengeOn, eligible, posed, wrong, recent, overdue, tries, unanswered>>

-----------------------------------------------------------------------------
(* The scheduler *)

Free == posed = NoTask

\* Switched off: the flag is cleared and the timer forgotten.
Off ==
  /\ Free /\ ~challengeOn /\ (overdue \/ timer # "unset")
  /\ overdue' = FALSE /\ timer' = "unset"
  /\ UNCHANGED <<challengeOn, eligible, posed, wrong, recent, tries, unanswered>>

Wait ==
  /\ Free /\ challengeOn /\ timer = "unset"
  /\ timer' = "running"
  /\ UNCHANGED <<challengeOn, eligible, posed, wrong, recent, overdue, tries, unanswered>>

\* pick: those not solved recently, or all of them if there is no such task.
Pool ==
  LET new == eligible \ ToSet(recent)
  IN IF new # {} THEN new ELSE eligible

\* No bank, or nothing eligible in it.
Skip ==
  /\ Free /\ challengeOn /\ timer = "due" /\ Pool = {}
  /\ timer' = "running"
  /\ UNCHANGED <<challengeOn, eligible, posed, wrong, recent, overdue, tries, unanswered>>

Pose ==
  /\ Free /\ challengeOn /\ timer = "due"
  /\ posed' \in Pool
  /\ wrong' = 0 /\ tries' = 0 /\ unanswered' = FALSE
  /\ UNCHANGED <<challengeOn, eligible, timer, recent, overdue>>

\* Mutant: an old id is not dropped.
RememberAll(t) == Append(recent, t)

Remember(t) ==
  LET longer == Append(recent, t)
  IN IF Len(longer) > RecentMax THEN Tail(longer) ELSE longer

Solve(a) ==
  /\ ~Free /\ a \in Accepted[posed]
  /\ overdue' = FALSE
  /\ recent' = Remember(posed)
  /\ posed' = NoTask /\ timer' = "running" /\ unanswered' = FALSE
  /\ UNCHANGED <<challengeOn, eligible, wrong, tries>>

\* The dialog is shown again, with the hint.
Miss(a) ==
  /\ ~Free /\ a \notin Accepted[posed] /\ wrong + 1 < MaxAttempts
  /\ wrong' = wrong + 1 /\ tries' = tries + 1
  /\ UNCHANGED <<challengeOn, eligible, timer, posed, recent, overdue, unanswered>>

\* The attempts are used up: overdue, and another task shortly.
Exhaust(a) ==
  /\ ~Free /\ a \notin Accepted[posed] /\ wrong + 1 >= MaxAttempts
  /\ wrong' = wrong + 1 /\ tries' = tries + 1
  /\ overdue' = TRUE
  /\ posed' = NoTask /\ timer' = "running" /\ unanswered' = FALSE
  /\ UNCHANGED <<challengeOn, eligible, recent>>

\* Mutant: a window that passes goes unnoticed, the dialog is only shown again.
LapseUnnoticed ==
  /\ ~Free
  /\ UNCHANGED challengeVars

\* The dialog gives up after the window, or cannot be shown: ask again.
Lapse ==
  /\ ~Free
  /\ overdue' = TRUE /\ unanswered' = TRUE
  /\ UNCHANGED <<challengeOn, eligible, timer, posed, wrong, recent, tries>>

ChallengeNext ==
  \/ SetPolicy \/ Deliver \/ ComeDue
  \/ Off \/ Wait \/ Skip \/ Pose \/ Lapse
  \/ \E a \in Answer : Solve(a) \/ Miss(a) \/ Exhaust(a)

ChallengeSpec == ChallengeInit /\ [][ChallengeNext]_challengeVars

-----------------------------------------------------------------------------
(* Properties *)

\* Type invariant.
ChallengeTypeOK ==
  /\ challengeOn \in BOOLEAN /\ overdue \in BOOLEAN /\ unanswered \in BOOLEAN
  /\ eligible \subseteq Task /\ posed \in Task \union {NoTask}
  /\ timer \in {"unset", "running", "due"}
  /\ wrong \in 0..MaxAttempts /\ tries \in Nat
  /\ recent \in Seq(Task) /\ Len(recent) <= RecentMax

\* A task is not guessed at more often than allowed, however many windows pass
\* in between; and one whose window has passed counts as overdue until it is
\* solved or given up. (run_challenge)
GuessesAreBounded == tries <= MaxAttempts /\ (unanswered => overdue)

\* With challenges on and a task to ask, a Mac at which nobody solves anything
\* any more ends up overdue and stays so, whatever is typed. (spawn)
UnattendedIsOverdue ==
  /\ <>[](challengeOn /\ eligible # {})
  /\ <>[][\A a \in Answer : ~Solve(a)]_challengeVars
  => <>[]overdue

\* Both: nobody gets around a challenge by guessing, waiting or staying away.
ChallengeHolds == []GuessesAreBounded /\ UnattendedIsOverdue

\* challenge.rs: "Missing/empty bank or no eligible task means challenges are
\* simply skipped - never a lockout from absence."
NeverLockedByAbsence == [][Skip => ~overdue']_challengeVars
=============================================================================
