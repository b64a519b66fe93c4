------------------------------ MODULE Observer ------------------------------
(***************************************************************************)
(* The agent's earned-time observer and the same-tab focus limit (earned.rs, *)
(* with the scroll tap of scroll.rs): one thread that looks every 20 s at    *)
(* the frontmost tab and at what the user has been doing.                    *)
(*                                                                          *)
(* One sample spans a tick, or more if the sample before took long.  Earned  *)
(* time is counted in parts of a whole second, since only whole ones are     *)
(* reported.                                                                 *)
(***************************************************************************)
EXTENDS Naturals, FiniteSetsExt

CONSTANTS
  Tab,        \* URLs
  Watched,    \* those the focus limit is about (whitelist and blacklist)
  Source,     \* the sources that earn
  Earns,      \* for each source, the tabs it matches
  Ratio,      \* earn_ratio of each source, in parts of a second per tick
  Part,       \* parts of a second
  TabLimit,   \* same_tab_limit_min, in ticks
  Lockout,    \* lockout_min, in ticks
  LongTick,   \* the longest sample, in ticks
  MaxEarned,  \* bound on what is earned in a behaviour
  NoTab

ASSUME ObserverAssumption ==
  /\ Watched \subseteq Tab
  /\ Earns \in [Source -> SUBSET Tab] /\ Ratio \in [Source -> Nat]
  /\ Part \in Nat \ {0}
  /\ TabLimit \in Nat \ {0} /\ Lockout \in Nat \ {0} /\ LongTick \in Nat \ {0}
  /\ MaxEarned \in Nat /\ NoTab \notin Tab

VARIABLES
  earnOn, focusOn,  \* the policy
  tap,              \* the scroll tap runs (Accessibility is granted)
  scrolls,          \* it has counted a scroll since the last look
  carry,            \* parts of a second earned and not yet reported
  url,              \* the tab being timed
  dwell,            \* active ticks on it
  locked,           \* ticks left of the lockout it asked for
  focusEdge,        \* Health::focus_over_limit
  earned,           \* history: all parts earned
  told,             \* history: seconds reported, and heard by the daemon or not
  stay,             \* history: ticks on the tab since it was come to
  quiet             \* history: ticks since the last trip

observerVars == <<earnOn, focusOn, tap, scrolls, carry, url, dwell, locked, focusEdge,
                  earned, told, stay, quiet>>

policies == <<earnOn, focusOn>>

LowerOf(x, y) == IF x < y THEN x ELSE y
Minus(x, y)   == IF x > y THEN x - y ELSE 0

ObserverInit ==
  /\ earnOn \in BOOLEAN /\ focusOn \in BOOLEAN
  /\ tap = FALSE /\ scrolls = FALSE
  /\ carry = 0 /\ url = NoTab /\ dwell = 0 /\ locked = 0 /\ focusEdge = FALSE
  /\ earned = 0 /\ told = 0 /\ stay = 0 /\ quiet = Lockout

-----------------------------------------------------------------------------
(* Around the observer *)

ChangePolicy ==
  /\ earnOn' \in BOOLEAN /\ focusOn' \in BOOLEAN
  /\ UNCHANGED <<tap, scrolls, carry, url, dwell, locked, focusEdge, earned, told, stay,
                 quiet>>

\* The tap is created at start, if Accessibility is granted by then.
StartTap ==
  /\ ~tap /\ tap' = TRUE
  /\ UNCHANGED <<policies, scrolls, carry, url, dwell, locked, focusEdge, earned, told,
                 stay, quiet>>

\* The callback counts; it also takes a disabled tap back into use.
Scroll ==
  /\ tap /\ scrolls' = TRUE
  /\ UNCHANGED <<policies, tap, carry, url, dwell, locked, focusEdge, earned, told, stay,
                 quiet>>

\* A heartbeat consumes the edge.
TakeEdge ==
  /\ focusEdge /\ focusEdge' = FALSE
  /\ UNCHANGED <<policies, tap, scrolls, carry, url, dwell, locked, earned, told, stay,
                 quiet>>

-----------------------------------------------------------------------------
(* The loop *)

\* Every source that matches credits its share.
Credit(tab, ticks, idle) ==
  IF idle THEN 0
  ELSE MapThenSumSet(LAMBDA s : ticks * Ratio[s], {s \in Source : tab \in Earns[s]})

\* Mutant: what is reported stays in the carry.
CarryAll(parts) == parts

\* Whole seconds are reported, the rest is carried.
CarryOver(parts) == parts % Part

Accrue(share) ==
  IF earnOn
  THEN /\ carry' = CarryOver(carry + share)
       /\ earned' = earned + share
       /\ told' = told + (carry + share) \div Part
  ELSE UNCHANGED <<carry, earned, told>>

\* With the tap, only scrolling is activity; without, any recent input.
Active(idle) == IF tap THEN scrolls ELSE ~idle

Forget == url' = NoTab /\ dwell' = 0

Arrived(tab)   == url # tab
HeldOff(left)  == left > 0

\* track_focus.
TrackFocus(tab, ticks, idle) ==
  LET left   == Minus(locked, ticks)
      longer == dwell + (IF Active(idle) THEN ticks ELSE 0)
      trips  == /\ ~HeldOff(left) /\ tab \in Watched /\ ~Arrived(tab)
                /\ longer >= TabLimit
  IN /\ locked' = IF trips THEN Lockout ELSE left
     /\ focusEdge' = (focusEdge \/ trips)
     /\ quiet' = IF trips THEN 0 ELSE LowerOf(quiet + ticks, Lockout)
     /\ \/ (HeldOff(left) \/ tab \notin Watched \/ trips) /\ Forget
        \/ /\ ~HeldOff(left) /\ tab \in Watched /\ Arrived(tab)
           /\ url' = tab /\ dwell' = 0
        \/ /\ ~HeldOff(left) /\ tab \in Watched /\ ~Arrived(tab) /\ ~trips
           /\ url' = url /\ dwell' = longer

\* A sample: the frontmost tab, and whether the user has been idle.  The scroll
\* count is taken whether or not the limit is on.
Sample(tab, ticks, idle, share) ==
  /\ earnOn \/ focusOn
  /\ Accrue(share)
  /\ scrolls' = FALSE
  /\ stay' = IF tab = url /\ focusOn THEN LowerOf(stay + ticks, TabLimit) ELSE 0
  /\ \/ focusOn /\ TrackFocus(tab, ticks, idle)
     \/ /\ ~focusOn /\ Forget /\ locked' = 0
        /\ quiet' = Lockout /\ UNCHANGED focusEdge
  /\ UNCHANGED <<policies, tap>>

\* Both are off: a report of nothing, the timer reset, the scrolls left alone.
Rest ==
  /\ ~earnOn /\ ~focusOn
  /\ Forget /\ locked' = 0 /\ stay' = 0 /\ quiet' = Lockout
  /\ UNCHANGED <<policies, tap, scrolls, carry, focusEdge, earned, told>>

\* The sample is of one of the tabs or of none; nothing more is earned once the
\* bound is reached.
Observe ==
  \E tab \in Tab \union {NoTab}, ticks \in 1..LongTick, idle \in BOOLEAN,
     share \in 0..(MaxEarned - earned) :
    /\ share = IF earnOn THEN Credit(tab, ticks, idle) ELSE 0
    /\ Sample(tab, ticks, idle, share)

ObserverNext == ChangePolicy \/ StartTap \/ Scroll \/ TakeEdge \/ Observe \/ Rest

ObserverSpec == ObserverInit /\ [][ObserverNext]_observerVars

-----------------------------------------------------------------------------
(* Properties *)

\* Type invariant.
ObserverTypeOK ==
  /\ earnOn \in BOOLEAN /\ focusOn \in BOOLEAN /\ tap \in BOOLEAN /\ scrolls \in BOOLEAN
  /\ carry \in 0..(Part - 1)
  /\ url \in Watched \union {NoTab} /\ dwell \in 0..(TabLimit - 1)
  /\ locked \in 0..Lockout /\ focusEdge \in BOOLEAN
  /\ earned \in 0..MaxEarned /\ told \in 0..(MaxEarned \div Part)
  /\ stay \in 0..TabLimit /\ quiet \in 0..Lockout

\* Every second is reported as often as it was earned: once, and the rest of
\* it is still carried, whatever the samples, ratios and policies in between.
\* (earned.rs: the carry)
EverySecondIsToldOnce == told * Part + carry = earned

\* A trip takes a whole stay on one tab: the time on another tab, the time
\* before the tab was come to and the time before a lockout do not count.
\* (track_focus)
TripTakesAStay == dwell <= stay

\* Both, for time that is earned and time that is spent on a tab.
TimeIsCounted == EverySecondIsToldOnce /\ TripTakesAStay

\* The limit does not trip again while the lockout it asked for lasts.
\* (locked_until)
TripsAreApart == [][quiet' = 0 /\ quiet # 0 => quiet = Lockout]_observerVars
=============================================================================
