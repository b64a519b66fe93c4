---------------------------- MODULE ClockMonitor ----------------------------
(***************************************************************************)
(* The agent's watch over the wall clock (clock.rs) and the daemon's resync  *)
(* of it (betamacsd.rs resync_clock).                                        *)
(*                                                                          *)
(* A clock is represented by its skew, the distance from the true time in    *)
(* units of half the tolerance; mach_continuous_time runs true.  The wall    *)
(* clock is compared with a baseline at every poll and with the network's    *)
(* time at start and then once per AnchorEvery polls.  A wrong clock without *)
(* a jump is announced: the daemon resyncs it, and for a while one jump is   *)
(* taken for that correction.  A jump at any other time is tamper.           *)
(***************************************************************************)
EXTENDS Integers

CONSTANTS
  Skew,         \* the skews the wall clock may be set to
  OddSkew,      \* the skew of an NTP server that is off
  Tol,          \* skew_tolerance_sec
  AnchorEvery,  \* anchor_interval_sec, in polls
  Window,       \* 180 s, in polls: how long a correction is expected
  Debounce,     \* 600 s, in polls: between two resyncs by the daemon
  Unset

ASSUME ClockAssumption ==
  /\ Skew \subseteq Int /\ 0 \in Skew
  /\ OddSkew \in Int
  /\ Tol \in Nat /\ AnchorEvery \in Nat \ {0}
  /\ Window \in Nat \ {0} /\ Debounce \in Nat
  /\ Unset \notin Int

VARIABLES
  clockOn,    \* the policy's clock_integrity.enabled
  wall,       \* the skew of the wall clock
  auto,       \* macOS sets the clock over the network by itself
  net,        \* the network: "off", "right", or "odd" (the NTP server is off)
  base,       \* the skew of the baseline
  age,        \* polls since the last anchor
  anchor,     \* the skew of the published anchor
  window,     \* polls for which a correction is still expected
  tamper,     \* Health::clock_tamper
  bootWrong,  \* Health::clock_boot_wrong, an edge
  resync,     \* the daemon has a resync under way
  wait,       \* polls until the daemon would resync again
  origin,     \* history: the skew when the watch began or was last excused
  excuses,    \* history: jumps excused since the last announcement
  touched     \* history: the clock was set by hand

clockVars == <<clockOn, wall, auto, net, base, age, anchor, window, tamper, bootWrong,
               resync, wait, origin, excuses, touched>>

monitor == <<base, age, anchor, window, tamper, origin, excuses>>

Abs(x)       == IF x < 0 THEN -x ELSE x
Apart(x, y)  == Abs(x - y) > Tol
Less(n)      == IF n > 0 THEN n - 1 ELSE 0
More(n)      == IF n < AnchorEvery THEN n + 1 ELSE n

Unwatched ==
  /\ base' = Unset /\ age' = Unset /\ anchor' = Unset /\ tamper' = FALSE
  /\ origin' = Unset

\* The agent starts on a Mac that has booted with a right or a wrong clock.
ClockInit ==
  /\ clockOn \in BOOLEAN /\ wall \in Skew /\ auto \in BOOLEAN /\ net \in {"off", "right"}
  /\ base = Unset /\ age = Unset /\ anchor = Unset /\ window = 0
  /\ tamper = FALSE /\ bootWrong = FALSE /\ resync = FALSE /\ wait = 0
  /\ origin = Unset /\ excuses = 0 /\ touched = FALSE

-----------------------------------------------------------------------------
(* What happens around the monitor *)

ClockPolicy ==
  /\ clockOn' = ~clockOn
  /\ UNCHANGED <<wall, auto, net, monitor, bootWrong, resync, wait, touched>>

Network ==
  /\ net' \in {"off", "right", "odd"} \ {net}
  /\ UNCHANGED <<clockOn, wall, auto, monitor, bootWrong, resync, wait, touched>>

\* Setting the clock by hand takes network time off.
SetByHand ==
  /\ wall' \in Skew \ {wall}
  /\ auto' = FALSE /\ touched' = TRUE
  /\ UNCHANGED <<clockOn, net, monitor, bootWrong, resync, wait>>

\* macOS's own network time.
SetByNetwork ==
  /\ auto /\ net # "off" /\ wall # 0
  /\ wall' = 0
  /\ UNCHANGED <<clockOn, auto, net, monitor, bootWrong, resync, wait, touched>>

\* The continuous clock goes on while the Mac sleeps.
Sleep ==
  /\ age # Unset
  /\ age' = AnchorEvery /\ window' = 0 /\ wait' = 0
  /\ UNCHANGED <<clockOn, wall, auto, net, base, anchor, tamper, bootWrong, resync,
                 origin, excuses, touched>>

\* The agent is restarted: nothing of the monitor survives.
AgentRestart ==
  /\ base # Unset
  /\ Unwatched /\ window' = 0 /\ excuses' = 0 /\ bootWrong' = FALSE
  /\ UNCHANGED <<clockOn, wall, auto, net, resync, wait, touched>>

-----------------------------------------------------------------------------
(* The monitor's loop *)

\* What NTP and the pinned backend answer; either may be out of reach.
Answers ==
  CASE net = "off"   -> {<<Unset, Unset>>}
    [] net = "right" -> {<<0, 0>>, <<0, Unset>>, <<Unset, 0>>}
    [] net = "odd"   -> {<<OddSkew, 0>>}

\* Two sources that disagree are not believed.
NetworkEpoch(ntp, http) ==
  CASE ntp = Unset -> http
    [] ntp # Unset /\ http = Unset -> ntp
    [] OTHER -> IF Apart(ntp, http) THEN Unset ELSE ntp

AnchorDue == age = Unset \/ age = AnchorEvery

\* Mutant: the baseline follows a clock within the tolerance.
RebaseNearby(b, jumped, excused) == IF b # Unset /\ (excused \/ ~jumped) THEN wall ELSE b

\* An excused jump moves the baseline.
Rebase(b, jumped, excused) == IF excused THEN wall ELSE b

\* One round of the loop.  The wall clock is read once, before the network is
\* asked; the flag of a latched jump is looked at before this round's jump.
Poll ==
  /\ clockOn
  /\ \E answer \in Answers :
       LET heard   == IF AnchorDue THEN NetworkEpoch(answer[1], answer[2]) ELSE Unset
           wrong   == heard # Unset /\ Apart(heard, wall)
           ask     == wrong /\ ~tamper
           begun   == base = Unset /\ AnchorDue /\ ~(wrong /\ tamper)
           b       == IF begun THEN wall ELSE base
           open    == IF ask THEN Window ELSE window
           jumped  == b # Unset /\ Apart(wall, b)
           excused == jumped /\ open > 0
       IN /\ age' = IF heard # Unset THEN 1 ELSE IF age = Unset THEN Unset ELSE More(age)
          /\ anchor' = IF heard # Unset THEN heard ELSE anchor
          /\ bootWrong' = (bootWrong \/ ask)
          /\ base' = Rebase(b, jumped, excused)
          /\ window' = IF excused THEN 0 ELSE Less(open)
          /\ tamper' = (jumped /\ ~excused)
          /\ origin' = IF begun \/ excused THEN wall ELSE origin
          /\ excuses' = CASE excused /\ ask -> 1
                          [] excused /\ ~ask -> IF excuses < 2 THEN excuses + 1 ELSE 2
                          [] ~excused /\ ask -> 0
                          [] OTHER -> excuses
  /\ wait' = Less(wait)
  /\ UNCHANGED <<clockOn, wall, auto, net, resync, touched>>

\* The monitor finds itself switched off; the window stays as it is.
Disabled ==
  /\ ~clockOn
  /\ Unwatched
  /\ wait' = Less(wait) /\ window' = Less(window)
  /\ UNCHANGED <<clockOn, wall, auto, net, bootWrong, resync, excuses, touched>>

-----------------------------------------------------------------------------
(* The daemon *)

\* The next heartbeat consumes the edge, whether the daemon hears it or not.
TakeBootWrong ==
  /\ bootWrong
  /\ bootWrong' = FALSE
  /\ \/ resync' = TRUE /\ wait' = Debounce /\ wait = 0
     \/ UNCHANGED <<resync, wait>>
  /\ UNCHANGED <<clockOn, wall, auto, net, monitor, touched>>

\* resync_clock: network time is put on and the clock stepped, if it works.
Resync ==
  /\ resync
  /\ resync' = FALSE
  /\ auto' \in {auto, TRUE}
  /\ wall' \in {wall} \union (IF net = "off" THEN {} ELSE {0})
  /\ UNCHANGED <<clockOn, net, monitor, bootWrong, wait, touched>>

ClockNext ==
  \/ ClockPolicy \/ Network \/ SetByHand \/ SetByNetwork \/ Sleep \/ AgentRestart
  \/ Poll \/ Disabled \/ TakeBootWrong \/ Resync

ClockSpec == ClockInit /\ [][ClockNext]_clockVars

-----------------------------------------------------------------------------
(* Properties *)

\* Type invariant.
ClockTypeOK ==
  /\ clockOn \in BOOLEAN /\ auto \in BOOLEAN /\ tamper \in BOOLEAN
  /\ bootWrong \in BOOLEAN /\ resync \in BOOLEAN /\ touched \in BOOLEAN
  /\ wall \in Skew /\ net \in {"off", "right", "odd"}
  /\ base \in Skew \union {Unset} /\ origin \in Skew \union {Unset}
  /\ anchor \in {Unset, 0, OddSkew}
  /\ age \in {Unset} \union 1..AnchorEvery
  /\ window \in 0..Window /\ wait \in 0..Debounce /\ excuses \in 0..2

\* The clock the monitor accepted is within the tolerance of where the watch
\* began, however small the steps were that moved it, except for one jump per
\* announced correction. (clock.rs: a divergence past tolerance is tamper)
JumpsAreCaught ==
  [][Poll /\ ~tamper' /\ base' # Unset =>
       excuses' <= 1 /\ origin' # Unset /\ ~Apart(wall, origin')]_clockVars

\* As long as the pinned backend answers, an NTP server that is off does not
\* become the trusted time. (network_epoch)
AnchorIsTrue == anchor # Unset => ~Apart(anchor, 0)

\* A clock that is wrong for good is noticed again and again, as tamper or as
\* an announcement, while the network answers. (the periodic anchor)
WrongIsNoticed ==
  <>[](clockOn /\ net = "right" /\ Abs(wall) > Tol) => []<>(tamper \/ bootWrong)

\* A wrong clock is noticed, a jump is punished unless a correction was announced,
\* and neither can be talked out of it by the network: the three above, of one
\* behaviour. (clock.rs spawn)
ClockIsWatched == []AnchorIsTrue /\ JumpsAreCaught /\ WrongIsNoticed

\* clock.rs: "A machine that merely BOOTED with the wrong time shows no
\* running-instance jump; ... and DON'T punish."
BootWrongIsNotPunished == tamper => touched
=============================================================================
