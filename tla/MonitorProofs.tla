---------------------------- MODULE MonitorProofs ----------------------------
(***************************************************************************)
(* Theorems about the agent's threads that watch: the clock monitor, the     *)
(* challenges and the earned-time observer, for any clocks, tasks, tabs and   *)
(* limits.  A jump of the clock is excused once per announcement; a task is   *)
(* not guessed at more often than allowed; no second that is earned is lost   *)
(* or told twice, and the focus limit does not trip again while the lockout   *)
(* it asked for lasts.                                                        *)
(***************************************************************************)
EXTENDS ClockMonitor, Challenge, Observer, TLAPS

-----------------------------------------------------------------------------
(* The clock *)

\* The baseline is the skew at which the watch began or was last excused, and an
\* expected correction has not excused a jump yet.
WatchInv ==
  /\ wall \in Int
  /\ base = origin /\ (base # Unset => base \in Int)
  /\ window \in Nat /\ excuses \in 0..1
  /\ window > 0 => excuses = 0

LEMMA NearItself == \A x \in Int : ~Apart(x, x)
  BY ClockAssumption DEF Apart, Abs

\* A round that accepts the clock has it near the baseline, and uses up the one
\* excuse that an announcement gave.
LEMMA PollWatches ==
  ASSUME WatchInv, Poll
  PROVE  /\ WatchInv'
         /\ ~tamper' /\ base' # Unset =>
              excuses' <= 1 /\ origin' # Unset /\ ~Apart(wall, origin')
<1>1. PICK answer \in Answers :
       LET heard   == IF AnchorDue THEN NetworkEpoch(answer[1], answer[2]) ELSE Unset
           astray  == heard # Unset /\ Apart(heard, wall)
           ask     == astray /\ ~tamper
           begun   == base = Unset /\ AnchorDue /\ ~(astray /\ tamper)
           b       == IF begun THEN wall ELSE base
           open    == IF ask THEN Window ELSE window
           jumped  == b # Unset /\ Apart(wall, b)
           excused == jumped /\ open > 0
       IN /\ base' = Rebase(b, jumped, excused)
          /\ window' = IF excused THEN 0 ELSE Less(open)
          /\ tamper' = (jumped /\ ~excused)
          /\ origin' = IF begun \/ excused THEN wall ELSE origin
          /\ excuses' = CASE excused /\ ask -> 1
                          [] excused /\ ~ask -> IF excuses < 2 THEN excuses + 1 ELSE 2
                          [] ~excused /\ ask -> 0
                          [] OTHER -> excuses
  BY DEF Poll
<1> DEFINE heard   == IF AnchorDue THEN NetworkEpoch(answer[1], answer[2]) ELSE Unset
           astray  == heard # Unset /\ Apart(heard, wall)
           ask     == astray /\ ~tamper
           begun   == base = Unset /\ AnchorDue /\ ~(astray /\ tamper)
           b       == IF begun THEN wall ELSE base
           open    == IF ask THEN Window ELSE window
           jumped  == b # Unset /\ Apart(wall, b)
           excused == jumped /\ open > 0
<1>2. wall' = wall /\ wall \in Int /\ Window \in Nat /\ Unset \notin Int
  BY ClockAssumption DEF Poll, WatchInv
<1>3. base' = (IF excused THEN wall ELSE b) /\ tamper' = (jumped /\ ~excused)
      /\ origin' = (IF begun \/ excused THEN wall ELSE origin)
  BY <1>1 DEF Rebase
<1>4. window' = (IF excused THEN 0 ELSE Less(open))
  BY <1>1
<1>5. /\ excused /\ ask => excuses' = 1
      /\ excused /\ ~ask => excuses' = IF excuses < 2 THEN excuses + 1 ELSE 2
      /\ ~excused /\ ask => excuses' = 0
      /\ ~excused /\ ~ask => excuses' = excuses
  BY <1>1
<1> HIDE DEF begun, ask
<1>6. base' = origin' /\ (base' # Unset => base' \in Int)
  BY <1>2, <1>3 DEF WatchInv
<1>7. ~tamper' /\ base' # Unset => ~Apart(wall, origin')
  BY <1>2, <1>3, <1>6, NearItself
<1>8. /\ window' \in Nat /\ excuses' \in 0..1
      /\ window' > 0 => excuses' = 0
  BY <1>2, <1>4, <1>5 DEF WatchInv, Less
<1> QED
  BY <1>2, <1>6, <1>7, <1>8 DEF WatchInv

LEMMA WatchStays == WatchInv /\ [ClockNext]_clockVars => WatchInv'
<1> SUFFICES ASSUME WatchInv, [ClockNext]_clockVars PROVE WatchInv'
  OBVIOUS
<1>1. CASE UNCHANGED clockVars \/ ClockPolicy \/ Network \/ TakeBootWrong
  <2>1. UNCHANGED <<wall, base, origin, window, excuses>>
    BY <1>1 DEF clockVars, ClockPolicy, Network, TakeBootWrong, monitor
  <2> QED
    BY <2>1 DEF WatchInv
<1>2. CASE SetByHand \/ SetByNetwork \/ Resync
  <2>1. wall' \in Int /\ UNCHANGED <<base, origin, window, excuses>>
    BY <1>2, ClockAssumption DEF SetByHand, SetByNetwork, Resync, monitor, WatchInv
  <2> QED
    BY <2>1 DEF WatchInv
<1>3. CASE Sleep \/ AgentRestart \/ Disabled
  BY <1>3 DEF Sleep, AgentRestart, Disabled, Unwatched, WatchInv, Less
<1> QED
  BY <1>1, <1>2, <1>3, PollWatches DEF ClockNext

\* For any skews, tolerance, windows and intervals, a clock the monitor accepts is
\* within the tolerance of where the watch began, or of the one jump that an
\* announcement excused (clock.rs: a divergence past tolerance is tamper).
THEOREM JumpsAreCaughtAlways == ClockSpec => JumpsAreCaught
<1>1. ClockInit => WatchInv
  BY ClockAssumption DEF ClockInit, WatchInv
<1>2. WatchInv /\ [ClockNext]_clockVars =>
        [Poll /\ ~tamper' /\ base' # Unset =>
           excuses' <= 1 /\ origin' # Unset /\ ~Apart(wall, origin')]_clockVars
  BY PollWatches
<1> QED
  BY <1>1, <1>2, WatchStays, PTL DEF ClockSpec, JumpsAreCaught

\* What is heard is what one of the sources said.
LEMMA HeardType ==
  ASSUME NEW answer \in Answers, net \in {"off", "right", "odd"}
  PROVE  NetworkEpoch(answer[1], answer[2]) \in {Unset, 0, OddSkew}
<1>1. answer[1] \in {Unset, 0, OddSkew} /\ answer[2] \in {Unset, 0}
  BY DEF Answers
<1>2. NetworkEpoch(answer[1], answer[2]) \in {answer[1], answer[2], Unset}
  BY DEF NetworkEpoch
<1> QED
  BY <1>1, <1>2

LEMMA LessStays ==
  ASSUME NEW most \in Nat, NEW n \in 0..most
  PROVE  Less(n) \in 0..most
  BY DEF Less

\* A round of the monitor keeps everything it reckons with in its bounds.
LEMMA PollType ==
  ASSUME ClockTypeOK, Poll
  PROVE  ClockTypeOK'
<1> USE DEF ClockTypeOK
<1>1. PICK answer \in Answers :
       LET heard   == IF AnchorDue THEN NetworkEpoch(answer[1], answer[2]) ELSE Unset
           astray  == heard # Unset /\ Apart(heard, wall)
           ask     == astray /\ ~tamper
           begun   == base = Unset /\ AnchorDue /\ ~(astray /\ tamper)
           b       == IF begun THEN wall ELSE base
           open    == IF ask THEN Window ELSE window
           jumped  == b # Unset /\ Apart(wall, b)
           excused == jumped /\ open > 0
       IN /\ age' = IF heard # Unset THEN 1 ELSE IF age = Unset THEN Unset ELSE More(age)
          /\ anchor' = IF heard # Unset THEN heard ELSE anchor
          /\ bootWrong' = (bootWrong \/ ask)
          /\ base' = Rebase(b, jumped, excused)
          /\ window' = IF excused THEN 0 ELSE Less(open)
          /\ tamper' = (jumped /\ ~excused)
          /\ origin' = IF begun \/ excused THEN wall ELSE origin
          /\ excuses' = CASE excused /\ ask -> 1
                          [] excused /\ ~ask -> IF excuses < 2 THEN excuses + 1 ELSE 2
                          [] ~excused /\ ask -> 0
                          [] OTHER -> excuses
  BY DEF Poll
<1> DEFINE heard   == IF AnchorDue THEN NetworkEpoch(answer[1], answer[2]) ELSE Unset
           astray  == heard # Unset /\ Apart(heard, wall)
           ask     == astray /\ ~tamper
           begun   == base = Unset /\ AnchorDue /\ ~(astray /\ tamper)
           b       == IF begun THEN wall ELSE base
           open    == IF ask THEN Window ELSE window
           jumped  == b # Unset /\ Apart(wall, b)
           excused == jumped /\ open > 0
<1>2. /\ UNCHANGED <<clockOn, wall, auto, net, resync, touched>>
      /\ wait' \in 0..Debounce
  BY ClockAssumption, LessStays DEF Poll
<1>3. heard \in {Unset, 0, OddSkew}
  BY HeardType
<1>4. /\ jumped \in BOOLEAN /\ excused \in BOOLEAN /\ ask \in BOOLEAN
      /\ open \in 0..Window
  BY ClockAssumption DEF Apart
<1>5. /\ age' = (IF heard # Unset THEN 1 ELSE IF age = Unset THEN Unset ELSE More(age))
      /\ anchor' = (IF heard # Unset THEN heard ELSE anchor)
  BY <1>1
<1>6. /\ bootWrong' = (bootWrong \/ ask) /\ tamper' = (jumped /\ ~excused)
      /\ window' = (IF excused THEN 0 ELSE Less(open))
  BY <1>1, Zenon
<1>7. /\ base' \in {wall, base}
      /\ origin' \in {wall, origin}
  BY <1>1 DEF Rebase
<1>8. excuses' \in {0, 1, 2, excuses, excuses + 1} /\ (excuses' = excuses + 1 => excuses < 2)
  BY <1>1
<1> HIDE DEF heard, ask, jumped, excused, open
<1>9. age' \in {Unset} \union 1..AnchorEvery
  BY <1>5, ClockAssumption DEF More
<1>10. anchor' \in {Unset, 0, OddSkew}
  BY <1>3, <1>5
<1>11. bootWrong' \in BOOLEAN /\ tamper' \in BOOLEAN
  BY <1>4, <1>6
<1>12. window' \in 0..Window
  BY <1>4, <1>6, ClockAssumption DEF Less
<1>13. base' \in Skew \union {Unset} /\ origin' \in Skew \union {Unset}
  BY <1>7
<1>14. excuses' \in 0..2
  BY <1>8
<1> QED
  BY <1>2, <1>9, <1>10, <1>11, <1>12, <1>13, <1>14

\* For any skews, intervals and windows, the baseline and the published time are
\* skews that a clock or a server had, and every countdown stays within its setting.
\* (clock.rs spawn, betamacsd.rs resync_clock)
THEOREM ClockIsTyped == ClockSpec => []ClockTypeOK
<1>0. /\ 0 \in 0..Window /\ 0 \in 0..Debounce /\ Debounce \in 0..Debounce
      /\ 0 \in 0..2
  BY ClockAssumption
<1>1. ClockInit => ClockTypeOK
  BY <1>0 DEF ClockInit, ClockTypeOK
<1>2. ClockTypeOK /\ [ClockNext]_clockVars => ClockTypeOK'
  <2> SUFFICES ASSUME ClockTypeOK, [ClockNext]_clockVars PROVE ClockTypeOK'
    OBVIOUS
  <2> USE DEF ClockTypeOK
  <2>1. CASE UNCHANGED clockVars
    BY <2>1 DEF clockVars
  <2>2. CASE ClockPolicy \/ Network
    BY <2>2, ZenonT(40) DEF ClockPolicy, Network, monitor
  <2>3. CASE SetByHand \/ SetByNetwork
    BY <2>3, ClockAssumption DEF SetByHand, SetByNetwork, monitor
  <2>4. CASE Sleep
    BY <2>4, ClockAssumption DEF Sleep
  <2>5. CASE AgentRestart
    BY <2>5, <1>0 DEF AgentRestart, Unwatched
  <2>6. CASE Disabled
    <3>1. wait' \in 0..Debounce /\ window' \in 0..Window
      BY <2>6, ClockAssumption, LessStays DEF Disabled
    <3> QED
      BY <2>6, <3>1 DEF Disabled, Unwatched
  <2>7. CASE TakeBootWrong
    BY <2>7, <1>0, ZenonT(40) DEF TakeBootWrong, monitor
  <2>8. CASE Resync
    BY <2>8, ClockAssumption, ZenonT(40) DEF Resync, monitor
  <2> QED
    BY <2>1, <2>2, <2>3, <2>4, <2>5, <2>6, <2>7, <2>8, PollType DEF ClockNext
<1> QED
  BY <1>1, <1>2, PTL DEF ClockSpec

\* For any skew of the NTP server, the published time is within the tolerance of the true
\* one: two sources that disagree are not believed.  (clock.rs network_epoch)
THEOREM AnchorIsTrueAlways == ClockSpec => []AnchorIsTrue
<1> DEFINE Inv == AnchorIsTrue /\ net \in {"off", "right", "odd"}
<1>0. Unset \notin Int /\ OddSkew \in Int /\ Tol \in Nat
  BY ClockAssumption
<1>1. ClockInit => Inv
  BY DEF ClockInit, AnchorIsTrue
<1>2. Inv /\ [ClockNext]_clockVars => Inv'
  <2> SUFFICES ASSUME Inv, [ClockNext]_clockVars PROVE Inv'
    OBVIOUS
  <2>1. CASE \/ UNCHANGED clockVars \/ ClockPolicy \/ Network \/ SetByHand \/ SetByNetwork
             \/ Sleep \/ TakeBootWrong \/ Resync
    <3>1. anchor' = anchor /\ net' \in {"off", "right", "odd"}
      BY <2>1 DEF clockVars, ClockPolicy, Network, SetByHand, SetByNetwork, Sleep,
                  TakeBootWrong, Resync, monitor
    <3> QED
      BY <3>1 DEF AnchorIsTrue
  <2>2. CASE AgentRestart \/ Disabled
    BY <2>2 DEF AgentRestart, Disabled, Unwatched, AnchorIsTrue
  <2>3. CASE Poll
    <3>1. PICK answer \in Answers :
            LET heard == IF AnchorDue THEN NetworkEpoch(answer[1], answer[2]) ELSE Unset
            IN  anchor' = IF heard # Unset THEN heard ELSE anchor
      BY <2>3 DEF Poll
    <3>2. \/ answer[1] = Unset /\ answer[2] \in {Unset, 0}
          \/ answer[1] = 0 /\ answer[2] \in {Unset, 0}
          \/ answer[1] = OddSkew /\ answer[2] = 0
      BY DEF Answers
    <3>3. ASSUME NEW heard, heard = NetworkEpoch(answer[1], answer[2]), heard # Unset
          PROVE  ~Apart(heard, 0)
      BY <1>0, <3>2, <3>3 DEF NetworkEpoch, Apart, Abs
    <3>4. net' = net
      BY <2>3 DEF Poll
    <3> QED
      BY <3>1, <3>3, <3>4 DEF AnchorIsTrue
  <2> QED
    BY <2>1, <2>2, <2>3 DEF ClockNext
<1>3. Inv => AnchorIsTrue
  OBVIOUS
<1> QED
  BY <1>1, <1>2, <1>3, PTL DEF ClockSpec

-----------------------------------------------------------------------------
(* The challenges *)

\* A dialog that is open counts the guesses; one that is not has none to answer for.
DialogInv ==
  /\ tries \in Nat /\ tries <= MaxAttempts
  /\ ~Free => tries = wrong /\ wrong < MaxAttempts
  /\ unanswered => ~Free /\ overdue

\* For any tasks, banks and number of attempts, nobody guesses more often than allowed
\* at one task, and a task whose window has passed counts as overdue while it is open.
THEOREM GuessesAreBoundedAlways == ChallengeSpec => []GuessesAreBounded
<1>1. ChallengeInit => DialogInv
  BY ChallengeAssumption DEF ChallengeInit, DialogInv, Free
<1>2. DialogInv /\ [ChallengeNext]_challengeVars => DialogInv'
  <2> SUFFICES ASSUME DialogInv, [ChallengeNext]_challengeVars PROVE DialogInv'
    OBVIOUS
  <2>1. MaxAttempts \in Nat /\ MaxAttempts > 0
    BY ChallengeAssumption
  <2>2. CASE \/ UNCHANGED challengeVars \/ SetPolicy \/ Deliver \/ ComeDue
             \/ Off \/ Wait \/ Skip
    BY <2>2 DEF challengeVars, SetPolicy, Deliver, ComeDue, Off, Wait, Skip, DialogInv, Free
  <2>3. CASE Pose \/ Lapse
    BY <2>1, <2>3 DEF Pose, Lapse, DialogInv, Free
  <2>4. ASSUME NEW a \in Answer, Solve(a) \/ Miss(a) \/ Exhaust(a)
        PROVE  DialogInv'
    BY <2>1, <2>4 DEF Solve, Miss, Exhaust, DialogInv, Free
  <2> QED
    BY <2>2, <2>3, <2>4 DEF ChallengeNext
<1>3. DialogInv => GuessesAreBounded
  BY DEF DialogInv, GuessesAreBounded
<1> QED
  BY <1>1, <1>2, <1>3, PTL DEF ChallengeSpec

\* One more task is remembered, and an old one forgotten rather than too many kept.
LEMMA RememberType ==
  ASSUME recent \in Seq(Task), Len(recent) <= RecentMax, NEW t \in Task
  PROVE  Remember(t) \in Seq(Task) /\ Len(Remember(t)) <= RecentMax
<1> DEFINE longer == Append(recent, t)
<1>1. longer \in Seq(Task) /\ Len(longer) = Len(recent) + 1 /\ longer # <<>>
  OBVIOUS
<1>2. Tail(longer) \in Seq(Task) /\ Len(Tail(longer)) = Len(recent)
  BY <1>1
<1>3. Remember(t) = IF Len(longer) > RecentMax THEN Tail(longer) ELSE longer
  BY DEF Remember
<1> HIDE DEF longer
<1>4. RecentMax \in Nat /\ Len(recent) \in Nat
  BY ChallengeAssumption
<1> QED
  BY <1>1, <1>2, <1>3, <1>4

\* For any bank and number of attempts, the dialog asks a task of the policy's, never
\* counts past the attempts, and remembers no more tasks than RECENT_MAX.
\* (challenge.rs spawn, pick, run_challenge)
THEOREM ChallengeIsTyped == ChallengeSpec => []ChallengeTypeOK
<1> DEFINE Inv == ChallengeTypeOK /\ (~Free => wrong < MaxAttempts)
<1>0. MaxAttempts \in Nat /\ MaxAttempts > 0 /\ RecentMax \in Nat
  BY ChallengeAssumption
<1>4. /\ 0 \in 0..MaxAttempts /\ 0 \in Nat
      /\ <<>> \in Seq(Task) /\ Len(<<>>) <= RecentMax
  BY <1>0
<1>1. ChallengeInit => Inv
  BY <1>4 DEF ChallengeInit, ChallengeTypeOK, Free
<1>2. Inv /\ [ChallengeNext]_challengeVars => Inv'
  <2> SUFFICES ASSUME Inv, [ChallengeNext]_challengeVars PROVE Inv'
    OBVIOUS
  <2> USE DEF ChallengeTypeOK
  <2>1. CASE UNCHANGED challengeVars
    BY <2>1 DEF challengeVars, Free
  <2>2. CASE SetPolicy \/ Deliver \/ ComeDue
    BY <2>2 DEF SetPolicy, Deliver, ComeDue, Free
  <2>3. CASE Off \/ Wait \/ Skip
    BY <2>3 DEF Off, Wait, Skip, Free
  <2>4. CASE Pose
    <3>1. posed' \in Task
      BY <2>4 DEF Pose, Pool
    <3>2. 0 < MaxAttempts
      BY <1>0
    <3> QED
      BY <2>4, <3>1, <3>2, <1>4 DEF Pose, Free
  <2>5. CASE Lapse
    BY <2>5 DEF Lapse, Free
  <2>6. ASSUME NEW a \in Answer, Solve(a) PROVE Inv'
    <3>1. posed \in Task
      BY <2>6 DEF Solve, Free
    <3>2. recent' \in Seq(Task) /\ Len(recent') <= RecentMax
      BY <2>6, <3>1, RememberType DEF Solve
    <3> QED
      BY <2>6, <3>2 DEF Solve, Free
  <2>7. ASSUME NEW a \in Answer, Miss(a) \/ Exhaust(a) PROVE Inv'
    <3>1. /\ wrong' \in 0..MaxAttempts /\ tries' \in Nat
          /\ posed' # NoTask => wrong' < MaxAttempts
      BY <2>7, <1>0 DEF Miss, Exhaust, Free
    <3>2. /\ posed' \in {posed, NoTask} /\ timer' \in {timer, "running"}
          /\ overdue' \in {overdue, TRUE} /\ unanswered' \in {unanswered, FALSE}
          /\ UNCHANGED <<challengeOn, eligible, recent>>
      BY <2>7 DEF Miss, Exhaust
    <3> QED
      BY <3>1, <3>2 DEF Free
  <2> QED
    BY <2>1, <2>2, <2>3, <2>4, <2>5, <2>6, <2>7 DEF ChallengeNext
<1>3. Inv => ChallengeTypeOK
  OBVIOUS
<1> QED
  BY <1>1, <1>2, <1>3, PTL DEF ChallengeSpec

-----------------------------------------------------------------------------
(* The observer *)


\* A lockout holds the timer, and is as long as it is ago that it began.
HeldWhileLocked ==
  /\ locked > 0 => url = NoTab
  /\ locked + quiet >= Lockout

ObserverInv == ObserverTypeOK /\ TimeIsCounted /\ HeldWhileLocked

\* Whole parts and the rest make up what was divided.
LEMMA DivisionOfParts ==
  ASSUME NEW parts \in Nat
  PROVE  /\ parts \div Part \in Nat /\ parts % Part \in 0..(Part - 1)
         /\ ((parts \div Part) * Part) + (parts % Part) = parts
  BY ObserverAssumption

\* What was told are whole parts of what was earned.
LEMMA ToldIsBounded ==
  ASSUME NEW t \in Nat, NEW c \in 0..(Part - 1), NEW e \in 0..MaxEarned, t * Part + c = e
  PROVE  t \in 0..(MaxEarned \div Part)
<1>1. /\ Part \in Nat \ {0} /\ MaxEarned \in Nat
      /\ ((MaxEarned \div Part) * Part) + (MaxEarned % Part) = MaxEarned
      /\ MaxEarned \div Part \in Nat /\ MaxEarned % Part \in 0..(Part - 1)
  BY DivisionOfParts, ObserverAssumption
<1>2. t * Part <= ((MaxEarned \div Part) * Part) + (MaxEarned % Part)
  BY <1>1
<1>3. ASSUME t > MaxEarned \div Part PROVE FALSE
  <2>1. t * Part >= (MaxEarned \div Part + 1) * Part
    BY <1>1, <1>3
  <2>2. (MaxEarned \div Part + 1) * Part = (MaxEarned \div Part) * Part + Part
    BY <1>1
  <2> QED
    BY <1>1, <1>2, <2>1, <2>2
<1> QED
  BY <1>1, <1>3

LEMMA ObserverStarts == ObserverInit => ObserverInv
<1> SUFFICES ASSUME ObserverInit PROVE ObserverInv
  OBVIOUS
<1>1. 0 \in 0..(MaxEarned \div Part) /\ 0 * Part + 0 = 0
  BY ToldIsBounded, ObserverAssumption
<1>2. ObserverTypeOK
  <2>1. /\ earnOn \in BOOLEAN /\ focusOn \in BOOLEAN /\ tap \in BOOLEAN
        /\ scrolls \in BOOLEAN /\ focusEdge \in BOOLEAN
    BY Zenon DEF ObserverInit
  <2>2. /\ carry \in 0..(Part - 1) /\ dwell \in 0..(TabLimit - 1) /\ locked \in 0..Lockout
        /\ earned \in 0..MaxEarned /\ stay \in 0..TabLimit /\ quiet \in 0..Lockout
        /\ url \in Watched \union {NoTab}
    BY ObserverAssumption DEF ObserverInit
  <2>3. told \in 0..(MaxEarned \div Part)
    BY Zenon, <1>1 DEF ObserverInit
  <2> QED
    BY <2>1, <2>2, <2>3 DEF ObserverTypeOK
<1>3. EverySecondIsToldOnce
  BY <1>1 DEF ObserverInit, EverySecondIsToldOnce
<1>4. TripTakesAStay /\ HeldWhileLocked
  BY ObserverAssumption DEF ObserverInit, TripTakesAStay, HeldWhileLocked
<1> QED
  BY <1>2, <1>3, <1>4 DEF ObserverInv, TimeIsCounted

\* The share of a sample is reported or carried.
LEMMA AccrueCounts ==
  ASSUME ObserverInv, NEW share \in 0..(MaxEarned - earned), Accrue(share)
  PROVE  /\ carry' \in 0..(Part - 1) /\ earned' \in 0..MaxEarned
         /\ told' \in 0..(MaxEarned \div Part)
         /\ EverySecondIsToldOnce'
<1> USE ObserverAssumption DEF ObserverInv, ObserverTypeOK, TimeIsCounted,
                               EverySecondIsToldOnce
<1>1. CASE earnOn
  <2> DEFINE parts == carry + share
  <2>1. /\ parts \in Nat /\ carry' = parts % Part /\ earned' = earned + share
        /\ told' = told + parts \div Part
    BY <1>1 DEF Accrue, CarryOver
  <2>2. /\ parts \div Part \in Nat /\ carry' \in 0..(Part - 1)
        /\ ((parts \div Part) * Part) + carry' = parts
    BY <2>1, DivisionOfParts
  <2>3. told \in Nat /\ told' \in Nat /\ earned' \in 0..MaxEarned
    <3>1. MaxEarned \div Part \in Nat
      BY DivisionOfParts
    <3> QED
      BY <2>1, <2>2, <3>1
  <2>4. told' * Part = told * Part + (parts \div Part) * Part
    BY <2>1, <2>2, <2>3
  <2>5. told' * Part + carry' = earned'
    <3>1. told * Part + carry = earned /\ told * Part \in Nat /\ carry \in Nat
      OBVIOUS
    <3>2. (parts \div Part) * Part \in Nat
      BY <2>2
    <3>3. told' * Part + carry' = told * Part + ((parts \div Part) * Part + carry')
      BY <2>2, <2>4, <3>1, <3>2
    <3> QED
      BY <2>1, <2>2, <3>1, <3>3
  <2> QED
    BY <2>2, <2>3, <2>5, ToldIsBounded
<1>2. CASE ~earnOn
  BY <1>2 DEF Accrue
<1> QED
  BY <1>1, <1>2

\* A sample under the limit: what the timer holds afterwards.
LEMMA TrackFocusHolds ==
  ASSUME ObserverInv, NEW tab \in Tab \union {NoTab}, NEW ticks \in 1..LongTick,
         NEW idle \in BOOLEAN, TrackFocus(tab, ticks, idle),
         stay' = IF tab = url THEN LowerOf(stay + ticks, TabLimit) ELSE 0
  PROVE  /\ url' \in Watched \union {NoTab} /\ dwell' \in 0..(TabLimit - 1)
         /\ locked' \in 0..Lockout /\ focusEdge' \in BOOLEAN
         /\ stay' \in 0..TabLimit /\ quiet' \in 0..Lockout
         /\ TripTakesAStay' /\ HeldWhileLocked'
         /\ quiet' = 0 /\ quiet # 0 => quiet = Lockout
<1> USE ObserverAssumption DEF ObserverInv, ObserverTypeOK, TimeIsCounted, TripTakesAStay
<1> DEFINE left   == Minus(locked, ticks)
           longer == dwell + (IF Active(idle) THEN ticks ELSE 0)
           trips  == /\ ~HeldOff(left) /\ tab \in Watched /\ ~Arrived(tab)
                     /\ longer >= TabLimit
<1>1. /\ ticks \in Nat \ {0} /\ left \in 0..Lockout /\ left <= locked
      /\ locked <= left + ticks
      /\ longer \in Nat /\ longer <= dwell + ticks /\ longer >= dwell
      /\ stay' \in 0..TabLimit
  BY DEF Minus, LowerOf
<1>2. /\ locked' = IF trips THEN Lockout ELSE left
      /\ quiet' = IF trips THEN 0 ELSE LowerOf(quiet + ticks, Lockout)
      /\ focusEdge' \in BOOLEAN
      /\ \/ url' = NoTab /\ dwell' = 0
         \/ left = 0 /\ tab \in Watched /\ url' = tab /\ dwell' = 0
         \/ /\ left = 0 /\ tab \in Watched /\ tab = url /\ ~trips
            /\ url' = url /\ dwell' = longer
      /\ HeldOff(left) \/ trips => url' = NoTab
  BY <1>1 DEF TrackFocus, Forget, HeldOff, Arrived
<1>3. trips => locked = 0 /\ quiet = Lockout
  BY DEF HeldWhileLocked, Arrived
<1>4. quiet' \in 0..Lockout /\ locked' \in 0..Lockout /\ HeldWhileLocked'
  BY <1>1, <1>2, <1>3 DEF HeldWhileLocked, LowerOf, HeldOff
<1>5. url' = url /\ dwell' = longer /\ tab = url /\ ~trips /\ left = 0 /\ tab \in Watched
        => dwell' \in 0..(TabLimit - 1) /\ dwell' <= stay'
  BY <1>1 DEF HeldOff, Arrived, LowerOf
<1>6. url' \in Watched \union {NoTab} /\ dwell' \in 0..(TabLimit - 1) /\ TripTakesAStay'
  BY <1>1, <1>2, <1>5
<1>7. quiet' = 0 /\ quiet # 0 => quiet = Lockout
  BY <1>1, <1>2, <1>3 DEF LowerOf
<1> QED
  BY <1>1, <1>2, <1>4, <1>6, <1>7

\* A sample, whatever is switched on.
LEMMA SampleHolds ==
  ASSUME ObserverInv, NEW tab \in Tab \union {NoTab}, NEW ticks \in 1..LongTick,
         NEW idle \in BOOLEAN, NEW share \in 0..(MaxEarned - earned),
         Sample(tab, ticks, idle, share)
  PROVE  ObserverInv' /\ (quiet' = 0 /\ quiet # 0 => quiet = Lockout)
<1>1. /\ carry' \in 0..(Part - 1) /\ earned' \in 0..MaxEarned
      /\ told' \in 0..(MaxEarned \div Part) /\ EverySecondIsToldOnce'
  BY AccrueCounts DEF Sample
<1>2. /\ earnOn' \in BOOLEAN /\ focusOn' \in BOOLEAN /\ tap' \in BOOLEAN
      /\ scrolls' \in BOOLEAN
  BY DEF Sample, policies, ObserverInv, ObserverTypeOK
<1>3. CASE focusOn
  <2>1. /\ TrackFocus(tab, ticks, idle)
        /\ stay' = IF tab = url THEN LowerOf(stay + ticks, TabLimit) ELSE 0
    BY <1>3 DEF Sample
  <2> QED
    BY <1>1, <1>2, <2>1, TrackFocusHolds DEF ObserverInv, ObserverTypeOK, TimeIsCounted
<1>4. CASE ~focusOn
  <2>1. /\ url' = NoTab /\ dwell' = 0 /\ locked' = 0 /\ quiet' = Lockout
        /\ UNCHANGED focusEdge /\ stay' = 0
    BY <1>4 DEF Sample, Forget
  <2> QED
    BY <1>1, <1>2, <2>1, ObserverAssumption
       DEF ObserverInv, ObserverTypeOK, TimeIsCounted, TripTakesAStay, HeldWhileLocked
<1> QED
  BY <1>3, <1>4

LEMMA ObserverStep ==
  ASSUME ObserverInv, [ObserverNext]_observerVars
  PROVE  ObserverInv' /\ (quiet' = 0 /\ quiet # 0 => quiet = Lockout)
<1> USE ObserverAssumption
<1>1. CASE ChangePolicy \/ StartTap \/ Scroll \/ TakeEdge \/ UNCHANGED observerVars
  BY <1>1 DEF ChangePolicy, StartTap, Scroll, TakeEdge, observerVars, policies, ObserverInv,
              ObserverTypeOK, TimeIsCounted, EverySecondIsToldOnce, TripTakesAStay,
              HeldWhileLocked
<1>2. CASE Rest
  BY <1>2 DEF Rest, Forget, policies, ObserverInv, ObserverTypeOK, TimeIsCounted,
              EverySecondIsToldOnce, TripTakesAStay, HeldWhileLocked
<1>3. CASE Observe
  BY <1>3, SampleHolds DEF Observe
<1> QED
  BY <1>1, <1>2, <1>3 DEF ObserverNext

\* Every second is told once, and time on a tab counts for a stay on that tab
\* only, for any sources, ratios and limits. (earned.rs: the carry, track_focus)
THEOREM TimeIsCountedAlways == ObserverSpec => []TimeIsCounted
<1>1. ObserverInit => ObserverInv
  BY ObserverStarts
<1>2. ObserverInv /\ [ObserverNext]_observerVars => ObserverInv'
  BY ObserverStep
<1>3. ObserverInv => TimeIsCounted
  BY DEF ObserverInv
<1> QED
  BY <1>1, <1>2, <1>3, PTL DEF ObserverSpec

\* The observer's state is well typed.
THEOREM ObserverIsTyped == ObserverSpec => []ObserverTypeOK
<1>1. ObserverInit => ObserverInv
  BY ObserverStarts
<1>2. ObserverInv /\ [ObserverNext]_observerVars => ObserverInv'
  BY ObserverStep
<1>3. ObserverInv => ObserverTypeOK
  BY DEF ObserverInv
<1> QED
  BY <1>1, <1>2, <1>3, PTL DEF ObserverSpec

\* While the lockout that the limit asked for lasts, the limit does not trip
\* again, however often the daemon hears of it. (track_focus: locked_until)
THEOREM TripsAreApartAlways == ObserverSpec => TripsAreApart
<1>1. ObserverInit => ObserverInv
  BY ObserverStarts
<1>2. ObserverInv /\ [ObserverNext]_observerVars
        => ObserverInv' /\ [quiet' = 0 /\ quiet # 0 => quiet = Lockout]_observerVars
  BY ObserverStep
<1> QED
  BY <1>1, <1>2, PTL DEF ObserverSpec, TripsAreApart

=============================================================================
