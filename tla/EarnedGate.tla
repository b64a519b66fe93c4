----------------------------- MODULE EarnedGate -----------------------------
(***************************************************************************)
(* The earned-time gate of betamacsd: the root-owned ledger (balance, daily *)
(* counters, chore claims and verifications, PIN attempt counter), its copy *)
(* on disk, the policy snapshot the agent relays, the two delivered files   *)
(* the chores come from, and the operations that run under the `earned`     *)
(* mutex.                                                                   *)
(*                                                                          *)
(* Every operation that needs the chore definitions starts with             *)
(* reload_chores, so taking the mutex is one action (Reload), each approval *)
(* merged from a new grants file is one (MergeEntry), its save is one       *)
(* (MergeDone), and the operation proper is one more.  Between them the     *)
(* clock advances, files are delivered (installs do not take the mutex) and *)
(* the daemon may stop: it comes back with what earned-ledger.json holds.   *)
(* Which operation has taken the mutex shows only when it takes effect.     *)
(*                                                                          *)
(* Abstractions.  Minutes are integers.  A chore keeps its kind, repeat and *)
(* minutes for ever; files differ in which chores they define.  A file's    *)
(* mtime is the flag dirty: the file differs from the one last read.        *)
(* Claims and verifications are sets (the code's lists are searched and     *)
(* filtered, never indexed).  One step of the clock is longer than the      *)
(* 60 s for which a report is fresh and than the watchdog's 15 s period.    *)
(***************************************************************************)
EXTENDS Integers, FiniteSets

CONSTANTS
  Chore,        \* chore ids
  Required,     \* the chores of kind "required"; the others are "bonus"
  Weekly,       \* chores with repeat "weekly"
  OnceOnly,     \* chores with repeat "once"; the rest are "daily"
  Minutes,      \* Minutes[c]: what a bonus chore is worth
  MaxTime,      \* bound on the clock
  DateOf,       \* DateOf[t]: the local date at time t
  WeekOf,       \* WeekOf[t]: the ISO week at time t
  Due,          \* Due[t]: daily chores whose `days` list the weekday of t
  Hhmm,         \* Hhmm[t]: the time of day at t
  Policies,     \* the policy snapshots an agent may report
  EarnMinutes,  \* the credit one report may carry
  MaxAttempts,  \* verifyMaxAttempts
  Lockout,      \* verifyLockoutSec, in clock steps
  Banks,        \* the contents a delivered task bank may have
  KidGrants,    \* what a grants file may say of this Mac's kid
  ApprovalLead, \* how far ahead of this Mac the server's calendar may be
  MaxCrashes    \* bound on the number of daemon restarts

Time == 0..MaxTime

PolicyRecord ==
  [enabled: BOOLEAN, bonusCap: Nat, ttl: Nat, holdFrom: Nat,
   gateActive: BOOLEAN, ratio: Nat, dailyCap: Nat, maxBank: Nat]

ASSUME ChoreAssumption ==
  /\ Required \subseteq Chore
  /\ Weekly \subseteq Chore
  /\ OnceOnly \subseteq Chore \ Weekly
  /\ Minutes \in [Chore -> Nat]

\* The calendar never runs backwards: a mid-run clock change is the clock
\* monitor's business (a full block), not this gate's.
ASSUME CalendarAssumption ==
  /\ MaxTime \in Nat
  /\ DateOf \in [Time -> Nat]
  /\ WeekOf \in [Time -> Nat]
  /\ Due \in [Time -> SUBSET Chore]
  /\ Hhmm \in [Time -> Nat]
  /\ \A s, t \in Time : s <= t => DateOf[s] <= DateOf[t] /\ WeekOf[s] <= WeekOf[t]

ASSUME PolicyAssumption ==
  /\ Policies \subseteq PolicyRecord
  /\ EarnMinutes \subseteq Nat
  /\ MaxAttempts \in Nat \ {0}
  /\ Lockout \in Nat

ASSUME FileAssumption ==
  /\ Banks \subseteq [chores: SUBSET Chore, pin: BOOLEAN]
  /\ KidGrants \subseteq [named: BOOLEAN, chores: SUBSET Chore, approved: SUBSET Chore]
  /\ ApprovalLead \in Nat
  /\ MaxCrashes \in Nat

VARIABLES
  clock,    \* the OS clock
  idle,     \* clock steps since the last watchdog tick (0 or 1)
  bank,     \* tasks.json
  pinFile,  \* chore-pin exists
  grants,   \* grants.json, as it concerns this Mac
  dirty,    \* which of the two files changed since reload_chores read them
  ledger,   \* EarnedGate.ledger
  disk,     \* earned-ledger.json
  policy,   \* the snapshot of the last report; the defaults after a restart
  fresh,    \* that report is less than 60 s old
  defs,     \* EarnedGate.chore_defs
  lock,     \* the earned mutex: "free", "merging" (in merge_grants) or "held"
  merge,    \* merge_grants: entries left, the local time it read, `changed`
  gate,     \* what the last watchdog tick returned
  crashes,  \* restarts so far
  guesses   \* history: wrong PINs compared since the last right one

vars == <<clock, idle, bank, pinFile, grants, dirty, ledger, disk, policy, fresh,
          defs, lock, merge, gate, crashes, guesses>>

files    == <<bank, pinFile, grants>>
snapshot == <<policy, fresh>>

-----------------------------------------------------------------------------
(* The calendar, and the ledger's own operations *)

\* The period a claim or a verification of c belongs to at time t.
Period(c, t) ==
  CASE c \in OnceOnly -> 0
    [] c \in Weekly   -> WeekOf[t]
    [] OTHER          -> DateOf[t]

DueOn(c, t) == c \in Weekly \union OnceOnly \/ c \in Due[t]

Least(a, b) == IF a <= b THEN a ELSE b
Overdrawn(n) == n                    \* mutant: no saturation
Positive(n) == IF n > 0 THEN n ELSE 0

\* ChorePolicy::default and EarnedGate::new: chores off, gate off, no caps.
DefaultPolicy ==
  [enabled |-> FALSE, bonusCap |-> 0, ttl |-> 0, holdFrom |-> 0,
   gateActive |-> FALSE, ratio |-> 1, dailyCap |-> 0, maxBank |-> 0]

NoDate == -1

EmptyLedger ==
  [date |-> NoDate, earned |-> 0, balance |-> 0, bonus |-> 0,
   claims |-> {}, verified |-> {}, failures |-> 0, lockedUntil |-> 0,
   credited |-> {}, twice |-> FALSE, uncapped |-> 0]

\* The last three fields are history: every (chore, period) ever recorded,
\* whether one was recorded again, and today's minutes banked with no cap set.

Current(D, c, p, t) == c \in D /\ Period(c, t) = p

IsVerified(L, c, t) == <<c, Period(c, t)>> \in L.verified

\* Mutants: the day's bonus survives midnight; midnight clears the lockout.
RolloverKeepsBonus(L, D, t) ==
  IF L.date = DateOf[t] THEN L
  ELSE [L EXCEPT !.date = DateOf[t], !.earned = 0, !.uncapped = 0]

RolloverUnlocks(L, D, t) ==
  IF L.date = DateOf[t] THEN L
  ELSE [EmptyLedger EXCEPT !.date = DateOf[t], !.balance = L.balance]

Rollover(L, D, t) ==
  IF L.date = DateOf[t] THEN L
  ELSE [L EXCEPT
         !.date = DateOf[t], !.earned = 0, !.bonus = 0, !.uncapped = 0,
         !.claims = {k \in @ : Current(D, k.id, k.period, t)},
         !.verified = {v \in @ : v[1] \in OnceOnly \/ Current(D, v[1], v[2], t)}]

ExpireClaims(L, D, t) ==
  [L EXCEPT !.claims =
    {k \in @ : /\ Current(D, k.id, k.period, t)
               /\ policy.ttl = 0 \/ t - k.at < policy.ttl}]

\* Mutant: the cap applies to each report, not to the day.
CreditPerReport(pol, L, minutes) ==
  IF pol.dailyCap > 0 THEN Least(minutes, pol.dailyCap) ELSE minutes

\* What bank(minutes) credits under the caps of pol, and the ledger after it.
Credit(pol, L, minutes) ==
  IF pol.dailyCap > 0
  THEN Least(minutes, Positive(pol.dailyCap - L.earned))
  ELSE minutes

Banked(pol, L, add) ==
  [L EXCEPT
    !.earned   = @ + add,
    !.balance  = IF add > 0 /\ pol.maxBank > 0 THEN Least(@ + add, pol.maxBank)
                 ELSE @ + add,
    !.uncapped = IF pol.dailyCap > 0 THEN @ ELSE @ + add]

BonusWanted(L, c) ==
  CASE c \in Required      -> 0
    [] policy.bonusCap > 0 -> Least(Minutes[c], Positive(policy.bonusCap - L.bonus))
    [] OTHER               -> Minutes[c]

RecordVerified(L, c, p) ==
  LET add == Credit(policy, L, BonusWanted(L, c))
  IN  [Banked(policy, L, add) EXCEPT
        !.bonus    = @ + add,
        !.verified = @ \union {<<c, p>>},
        !.credited = @ \union {<<c, p>>},
        !.twice    = @ \/ <<c, p>> \in L.credited]

KeepClaims(L, c) == L                 \* mutant
DropClaims(L, c) == [L EXCEPT !.claims = {k \in @ : k.id # c}]

\* Required chores that hold the gate at t.
RequiredOutstanding(L, D, t) ==
  IF ~policy.enabled \/ Hhmm[t] < policy.holdFrom THEN {}
  ELSE {c \in D \intersect Required : DueOn(c, t) /\ ~IsVerified(L, c, t)}

-----------------------------------------------------------------------------
(* Initial state: nothing delivered yet, first start of the daemon *)

NoMerge == [todo |-> {}, at |-> 0, changed |-> FALSE]
NoGuess == [streak |-> 0, lockedAt |-> 0]

Init ==
  /\ clock = 0
  /\ idle = 0
  /\ bank = [there |-> FALSE, chores |-> {}]
  /\ pinFile = FALSE
  /\ grants = [there |-> FALSE, named |-> FALSE, chores |-> {}, verified |-> {}]
  /\ dirty = [bank |-> FALSE, grants |-> FALSE]
  /\ ledger = EmptyLedger
  /\ disk = EmptyLedger
  /\ policy = DefaultPolicy
  /\ fresh = FALSE
  /\ defs = {}
  /\ lock = "free"
  /\ merge = NoMerge
  /\ gate = "open"
  /\ crashes = 0
  /\ guesses = NoGuess

-----------------------------------------------------------------------------
(* The world: time, deliveries, restarts *)

\* A minute passes.  The watchdog runs every 15 s, so it has ticked since the
\* last one; the last report is stale unless another has come.
ClockTick ==
  /\ clock < MaxTime
  /\ idle = 0
  /\ clock' = clock + 1
  /\ idle' = 1
  /\ fresh' = FALSE
  /\ UNCHANGED <<files, dirty, ledger, disk, policy, defs, lock, merge, gate,
                 crashes, guesses>>

\* install_bank: tasks.json is replaced, and chore-pin written or removed.
InstallBank ==
  \E b \in Banks :
    /\ bank' = [there |-> TRUE, chores |-> b.chores]
    /\ pinFile' = b.pin
    /\ dirty' = [dirty EXCEPT !.bank = TRUE]
    /\ UNCHANGED <<clock, idle, grants, ledger, disk, snapshot, defs, lock, merge,
                   gate, crashes, guesses>>

\* install_grants: the server's approvals carry the period its own calendar
\* was in when it published them.
InstallGrants ==
  \E g \in KidGrants, lead \in 0..ApprovalLead :
    /\ clock + lead \in Time
    /\ grants' = [there |-> TRUE, named |-> g.named, chores |-> g.chores,
                  verified |-> {<<c, Period(c, clock + lead)>> : c \in g.approved}]
    /\ dirty' = [dirty EXCEPT !.grants = TRUE]
    /\ UNCHANGED <<clock, idle, bank, pinFile, ledger, disk, snapshot, defs, lock,
                   merge, gate, crashes, guesses>>

\* No mtime is remembered across a start, so every file counts as changed.
UnreadBank == [bank |-> bank.there, grants |-> FALSE]      \* mutant
Unread     == [bank |-> bank.there, grants |-> grants.there]

\* The daemon dies, or exits after an app update, and launchd starts it again:
\* EarnedGate::new reads the ledger back and defaults everything else.
Restart ==
  /\ crashes < MaxCrashes
  /\ crashes' = crashes + 1
  /\ ledger' = disk
  /\ policy' = DefaultPolicy
  /\ fresh' = FALSE
  /\ defs' = {}
  /\ dirty' = Unread
  /\ idle' = 0
  /\ lock' = "free"
  /\ merge' = NoMerge
  /\ gate' = "open"
  /\ UNCHANGED <<clock, files, disk, guesses>>

-----------------------------------------------------------------------------
(* reload_chores and merge_grants *)

\* Take the mutex and run reload_chores.  The server's definitions win when
\* the grants file names this Mac's kid, and its approvals are merged when it
\* is new: merge_grants starts with rollover.
Reload ==
  /\ lock = "free"
  /\ dirty' = [bank |-> FALSE, grants |-> FALSE]
  /\ \/ /\ ~dirty.bank /\ ~dirty.grants
        /\ lock' = "held"
        /\ UNCHANGED <<ledger, defs, merge>>
     \/ /\ dirty.bank \/ dirty.grants
        /\ grants.there /\ grants.named
        /\ defs' = grants.chores
        /\ \/ /\ ~dirty.grants
              /\ lock' = "held"
              /\ UNCHANGED <<ledger, merge>>
           \/ /\ dirty.grants
              /\ lock' = "merging"
              /\ ledger' = Rollover(ledger, defs', clock)
              /\ merge' = [todo |-> grants.verified, at |-> clock, changed |-> FALSE]
     \/ /\ dirty.bank \/ dirty.grants
        /\ ~(grants.there /\ grants.named)
        /\ defs' = IF bank.there THEN bank.chores ELSE {}
        /\ lock' = "held"
        /\ UNCHANGED <<ledger, merge>>
  /\ UNCHANGED <<clock, idle, files, disk, snapshot, gate, crashes, guesses>>

\* Mutants: an approval is recorded again; only claimed chores are recorded.
MergeableAgain == {e \in merge.todo : Current(defs, e[1], e[2], merge.at)}
MergeableClaimed ==
  {e \in MergeableAgain : /\ e \notin ledger.verified
                          /\ \E k \in ledger.claims : k.id = e[1]}

\* The entries merge_grants records: known here, for the period this Mac is
\* in, not yet verified.
Mergeable ==
  {e \in merge.todo : /\ Current(defs, e[1], e[2], merge.at)
                      /\ e \notin ledger.verified}

MergeEntry ==
  /\ lock = "merging"
  /\ \E e \in Mergeable :
       /\ ledger' = DropClaims(RecordVerified(ledger, e[1], e[2]), e[1])
       /\ merge' = [merge EXCEPT !.todo = @ \ {e}, !.changed = TRUE]
  /\ UNCHANGED <<clock, idle, files, dirty, disk, snapshot, defs, lock, gate,
                 crashes, guesses>>

MergeUnsaved ==                       \* mutant
  /\ lock = "merging"
  /\ Mergeable = {}
  /\ lock' = "held"
  /\ merge' = NoMerge
  /\ UNCHANGED <<clock, idle, files, dirty, ledger, disk, snapshot, defs, gate,
                 crashes, guesses>>

MergeDone ==
  /\ lock = "merging"
  /\ Mergeable = {}
  /\ disk' = IF merge.changed THEN ledger ELSE disk
  /\ lock' = "held"
  /\ merge' = NoMerge
  /\ UNCHANGED <<clock, idle, files, dirty, ledger, snapshot, defs, gate, crashes,
                 guesses>>

-----------------------------------------------------------------------------
(* The operations, each from the moment reload_chores has returned *)

Release ==
  /\ lock = "held"
  /\ lock' = "free"
  /\ UNCHANGED <<clock, files, dirty, defs, merge, crashes>>

\* The ledger after the two calls every chore operation makes first.
Tidied == ExpireClaims(Rollover(ledger, defs, clock), defs, clock)

\* `status`, `chores`, and the reload after a grants envelope.
Status ==
  /\ Release
  /\ UNCHANGED <<idle, ledger, disk, snapshot, gate, guesses>>

\* chore_claim(c)
Claim(c) ==
  LET p == Period(c, clock)
      accepted == /\ policy.enabled
                  /\ c \in defs
                  /\ ~IsVerified(Tidied, c, clock)
                  /\ ~\E k \in Tidied.claims : k.id = c /\ k.period = p
  IN  /\ Release
      /\ \/ /\ accepted
            /\ ledger' = [Tidied EXCEPT !.claims =
                            @ \union {[id |-> c, period |-> p, at |-> clock]}]
            /\ disk' = ledger'
         \/ /\ ~accepted
            /\ ledger' = Tidied
            /\ UNCHANGED disk
      /\ UNCHANGED <<idle, snapshot, gate, guesses>>

\* chore_reject(c): the one chore operation that neither reloads nor rolls over.
Reject(c) ==
  /\ lock = "free"
  /\ \E k \in ledger.claims : k.id = c
  /\ ledger' = DropClaims(ledger, c)
  /\ disk' = ledger'
  /\ UNCHANGED <<clock, idle, files, dirty, snapshot, defs, lock, merge, gate,
                 crashes, guesses>>

PinLocked(L) == L.lockedUntil > clock

\* History: wrong PINs in a row, counted modulo the attempts a lockout allows.
WrongGuess ==
  LET n == IF guesses.streak = MaxAttempts THEN 1 ELSE guesses.streak + 1
  IN  [streak |-> n, lockedAt |-> IF n = MaxAttempts THEN clock ELSE guesses.lockedAt]

VerifyRefused(c) ==
  \/ ~policy.enabled
  \/ c \notin defs
  \/ IsVerified(Tidied, c, clock)
  \/ ~pinFile

\* chore_verify(c, pin), refused or locked: no PIN is compared.
VerifyTurnedAway(c) ==
  /\ Release
  /\ VerifyRefused(c) \/ PinLocked(Tidied)
  /\ ledger' = Tidied
  /\ UNCHANGED <<idle, disk, snapshot, gate, guesses>>

\* chore_verify(c, pin) with a wrong PIN.
VerifyWrong(c) ==
  LET tries == Tidied.failures + 1
  IN  /\ Release
      /\ ~VerifyRefused(c) /\ ~PinLocked(Tidied)
      /\ ledger' = IF tries >= MaxAttempts
                   THEN [Tidied EXCEPT !.failures = 0, !.lockedUntil = clock + Lockout]
                   ELSE [Tidied EXCEPT !.failures = tries]
      /\ disk' = ledger'
      /\ guesses' = WrongGuess
      /\ UNCHANGED <<idle, snapshot, gate>>

\* chore_verify(c, pin) with the parent's PIN.
VerifyRight(c) ==
  /\ Release
  /\ ~VerifyRefused(c) /\ ~PinLocked(Tidied)
  /\ ledger' = RecordVerified(
                 DropClaims([Tidied EXCEPT !.failures = 0, !.lockedUntil = 0], c),
                 c, Period(c, clock))
  /\ disk' = ledger'
  /\ guesses' = NoGuess
  /\ UNCHANGED <<idle, snapshot, gate>>

\* apply_report: the reload and the rollover come before the new policy.
Report ==
  /\ Release
  /\ \E p \in Policies, minutes \in EarnMinutes :
       LET L == Rollover(ledger, defs, clock)
           add == Credit(p, L, minutes)
       IN  /\ policy' = p
           /\ ledger' = Banked(p, L, add)
           /\ disk' = IF add > 0 THEN ledger' ELSE disk
  /\ fresh' = TRUE
  /\ UNCHANGED <<idle, gate, guesses>>

\* tick: an unprovisioned Mac, an inactive gate, a stale snapshot and a full
\* block all leave the gate open and spend nothing.
GateApplies == bank.there /\ policy.gateActive /\ fresh

TickOpen(fullBlock) ==
  /\ lock = "free"
  /\ ~GateApplies \/ fullBlock
  /\ idle' = 0
  /\ gate' = "open"
  /\ UNCHANGED <<clock, files, dirty, ledger, disk, snapshot, defs, lock, merge,
                 crashes, guesses>>

TickGated ==
  LET L == Rollover(ledger, defs, clock)
      spent == idle * policy.ratio
  IN  /\ Release
      /\ GateApplies
      /\ idle' = 0
      /\ \/ /\ RequiredOutstanding(L, defs, clock) # {}
            /\ gate' = "chores"
            /\ ledger' = L
            /\ UNCHANGED disk
         \/ /\ RequiredOutstanding(L, defs, clock) = {}
            /\ L.balance > 0
            /\ gate' = "open"
            /\ ledger' = [L EXCEPT !.balance = Positive(@ - spent)]
            /\ disk' = IF spent > 0 THEN ledger' ELSE disk
         \/ /\ RequiredOutstanding(L, defs, clock) = {}
            /\ L.balance = 0
            /\ gate' = "earned"
            /\ ledger' = L
            /\ UNCHANGED disk
      /\ UNCHANGED <<snapshot, guesses>>

ChoreOp ==
  \E c \in Chore : \/ Claim(c) \/ Reject(c)
                   \/ VerifyTurnedAway(c) \/ VerifyWrong(c) \/ VerifyRight(c)

Next ==
  \/ ClockTick \/ InstallBank \/ InstallGrants \/ Restart
  \/ Reload \/ MergeEntry \/ MergeDone
  \/ Status \/ Report \/ TickGated
  \/ \E full \in BOOLEAN : TickOpen(full)
  \/ ChoreOp

Spec == Init /\ [][Next]_vars

-----------------------------------------------------------------------------
(* Properties *)

Entry == Chore \X Nat

LedgerRecord ==
  [date: Nat \union {NoDate}, earned: Nat, balance: Nat, bonus: Nat,
   claims: SUBSET [id: Chore, period: Nat, at: Nat], verified: SUBSET Entry,
   failures: Nat, lockedUntil: Nat,
   credited: SUBSET Entry, twice: BOOLEAN, uncapped: Nat]

\* Type invariant.
TypeOK ==
  /\ clock \in Time
  /\ idle \in {0, 1}
  /\ bank \in [there: BOOLEAN, chores: SUBSET Chore]
  /\ pinFile \in BOOLEAN
  /\ grants \in [there: BOOLEAN, named: BOOLEAN, chores: SUBSET Chore,
                 verified: SUBSET Entry]
  /\ dirty \in [bank: BOOLEAN, grants: BOOLEAN]
  /\ ledger \in LedgerRecord
  /\ disk \in LedgerRecord
  /\ policy \in PolicyRecord
  /\ fresh \in BOOLEAN
  /\ defs \subseteq Chore
  /\ lock \in {"free", "merging", "held"}
  /\ merge \in [todo: SUBSET Entry, at: Time, changed: BOOLEAN]
  /\ gate \in {"open", "chores", "earned"}
  /\ crashes \in Nat
  /\ guesses \in [streak: 0..MaxAttempts, lockedAt: Nat]

\* A bonus minute is an earned minute: whatever was credited for chores today
\* also counts as earned today, in memory and in the file, so the daily cap
\* sees it.  Rollover, restart and partly merged approvals must keep the two
\* counters together.  (bank, record_verified, rollover)
BonusIsEarned ==
  \A L \in {ledger, disk} : L.bonus <= L.earned

\* A verified chore has no pending claim for the same period, in memory or in
\* the file: the PIN and the server's approval both consume it, and a chore
\* already verified cannot be claimed.  (chore_claim, chore_verify,
\* merge_grants)
VerifiedConsumesClaim ==
  \A L \in {ledger, disk} :
    \A k \in L.claims : <<k.id, k.period>> \notin L.verified

\* No chore is credited twice for one period, by the PIN, by a delivered
\* approval, by the same approval delivered again or re-read by a restarted
\* daemon, or by any mix of them.  (is_verified, merge_grants, rollover)
CreditedOnce == ~ledger.twice /\ ~disk.twice

\* Whenever no approvals are being merged, the file holds everything a restart
\* must not lose or give back: the balance, the PIN attempts and lockout, and
\* today's counters and verifications.  What it still lists beyond memory is
\* only what the next rollover drops again.  (persist)
RestartKeepsLedger ==
  lock # "merging" =>
    /\ disk.balance = ledger.balance
    /\ disk.failures = ledger.failures
    /\ disk.lockedUntil = ledger.lockedUntil
    /\ ledger.verified \subseteq disk.verified
    /\ disk.date = ledger.date =>
         /\ disk.earned = ledger.earned
         /\ disk.bonus = ledger.bonus
         /\ disk.verified = ledger.verified

\* The minutes earned in a day never exceed the daily cap by more than what
\* was banked that day while no cap was known.  (bank)
CapHoldsOnceKnown ==
  \A cap \in {p.dailyCap : p \in Policies} :
    (\A p \in Policies : p.dailyCap = cap) /\ cap > 0 =>
      \A L \in {ledger, disk} : L.earned <= cap + L.uncapped

\* docs/chores.md: the ledger's dailyEarnCapMin applies to chores too, "so
\* chores can never mint more than the earned-time policy allows in total".
ChoresStayUnderDailyCap ==
  \A p \in Policies : ledger.earned <= p.dailyCap

\* After MaxAttempts wrong PINs in a row, no further PIN is compared until
\* Lockout has passed, however often the daemon restarts meanwhile.
\* (chore_verify, pin_locked_secs)
LockoutHolds ==
  [][guesses.streak = MaxAttempts /\ guesses' # guesses
       => clock >= guesses.lockedAt + Lockout]_vars

\* An approval in the installed grants file, for a chore it defines and the
\* period this Mac is in, ends up in the ledger, unless the file is replaced
\* or the period ends first.  (the `grants` handler, reload_chores, merge_grants)
ApprovalPending(c) ==
  /\ grants.named /\ c \in grants.chores
  /\ <<c, Period(c, clock)>> \in grants.verified
  /\ ~IsVerified(ledger, c, clock)

ApprovalsLand ==
  \A c \in Chore : ApprovalPending(c) ~> ~ApprovalPending(c)

\* Once every required chore of the installed grants file is approved for the
\* current period, a gate held for chores is let go, whatever restarts come in
\* between.  (merge_grants, tick)
AllApproved ==
  /\ grants.named
  /\ \A c \in Required \intersect grants.chores :
       <<c, Period(c, clock)>> \in grants.verified

HoldIsReleased ==
  gate = "chores" /\ AllApproved ~> gate # "chores" \/ ~AllApproved

\* The daemon keeps running: the socket threads and the watchdog take the
\* mutex again and again, and whoever holds it finishes; the watchdog's turn
\* comes again and again.  Nothing is assumed of deliveries, of the agent, of
\* the child or of restarts.
Fairness ==
  /\ WF_vars(Reload)
  /\ WF_vars(MergeEntry)
  /\ WF_vars(MergeDone)
  /\ WF_vars(Status)
  /\ SF_vars(TickGated)
  /\ SF_vars(TickOpen(FALSE))

FairSpec == Spec /\ Fairness

=============================================================================
