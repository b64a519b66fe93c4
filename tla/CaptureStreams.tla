--------------------------- MODULE CaptureStreams ---------------------------
(***************************************************************************)
(* When the screen is recorded (pipeline.rs run, capture_sck.rs): the        *)
(* pipeline's one loop stops the capture streams when policy or an excluded  *)
(* app says so and builds them anew when that ends, when a display wakes,    *)
(* and when the watchdog finds that they have gone stale.                    *)
(*                                                                          *)
(* One round of the loop is four steps, since policy, focus and displays     *)
(* change, and heartbeats read the health flags, in between.  The displays   *)
(* are one.  Half a minute is the unit of the watchdog's time, a second the  *)
(* unit of the focus samples.  A sleep is noticed before the display wakes:  *)
(* a round is far shorter.  The self-exclusion of censor-in-captures mode is *)
(* left out.                                                                 *)
(***************************************************************************)
EXTENDS Naturals

VARIABLES
  wanted,       \* the policy: detection is enabled
  focused,      \* exclusions are in force and an excluded app is frontmost
  able,         \* SckCapturer::new succeeds
  dozing,       \* a display is asleep
  moving,       \* what the display shows keeps changing
  streams,      \* "live", "dead" (silent), "old" (frames from before a sleep),
                \* or "none"
  step,         \* where the loop is
  wasEnabled, isExcluded, wasExcluded, wereAsleep,
  sampleDue,    \* a second has passed since the frontmost app was sampled
  probeDue,     \* half a minute has passed since the watchdog looked
  hush,         \* and since the last frame
  probe,        \* a probe's hash is remembered
  exchange,     \* the policy names another model
  captureOk,    \* Health::capture_ok
  exchanged     \* history: a model was exchanged since the streams were built

captureVars == <<wanted, focused, able, dozing, moving, streams, step, wasEnabled,
                 isExcluded, wasExcluded, wereAsleep, sampleDue, probeDue, hush, probe,
                 exchange, captureOk, exchanged>>

around  == <<wanted, focused, able, dozing, moving>>
clocks  == <<sampleDue, probeDue>>
silence == <<hush, probe>>
flags   == <<wasEnabled, isExcluded, wasExcluded, wereAsleep>>

CaptureInit ==
  /\ wanted \in BOOLEAN
  /\ focused \in BOOLEAN /\ able = TRUE /\ dozing = FALSE /\ moving \in BOOLEAN
  /\ streams = "live" /\ step = "top"
  /\ wasEnabled = TRUE /\ isExcluded = FALSE /\ wasExcluded = FALSE /\ wereAsleep = FALSE
  /\ sampleDue = TRUE /\ probeDue = FALSE /\ hush = FALSE /\ probe = FALSE
  /\ exchange = FALSE /\ captureOk = TRUE /\ exchanged = FALSE

-----------------------------------------------------------------------------
(* Around the pipeline *)

ChangeWanted ==
  /\ wanted' = ~wanted
  /\ UNCHANGED <<focused, able, dozing, moving, streams, step, flags, clocks,
                 silence, exchange, captureOk, exchanged>>

\* Another app comes to the front; the screen begins or ceases to move;
\* recording is allowed or not.
Surroundings ==
  /\ \/ focused' = ~focused /\ UNCHANGED <<able, moving>>
     \/ moving' = ~moving /\ UNCHANGED <<able, focused>>
     \/ able' = ~able /\ UNCHANGED <<focused, moving>>
  /\ UNCHANGED <<wanted, dozing, streams, step, flags, clocks, silence, exchange,
                 captureOk, exchanged>>

\* Streams go stale across display sleep: they deliver what was there before.
DisplaySleeps ==
  /\ ~dozing /\ dozing' = TRUE
  /\ streams' = IF streams = "none" THEN "none" ELSE "old"
  /\ UNCHANGED <<wanted, focused, able, moving, step, flags, clocks, silence,
                 exchange, captureOk, exchanged>>

DisplayWakes ==
  /\ dozing /\ (wereAsleep \/ streams = "none")
  /\ dozing' = FALSE
  /\ UNCHANGED <<wanted, focused, able, moving, streams, step, flags, clocks,
                 silence, exchange, captureOk, exchanged>>

StreamDies ==
  /\ streams = "live" /\ streams' = "dead"
  /\ UNCHANGED <<around, step, flags, clocks, silence, exchange, captureOk, exchanged>>

NewModel ==
  /\ ~exchange /\ exchange' = TRUE
  /\ UNCHANGED <<around, streams, step, flags, clocks, silence, captureOk, exchanged>>

Second ==
  /\ ~sampleDue /\ sampleDue' = TRUE
  /\ UNCHANGED <<around, streams, step, flags, probeDue, silence, exchange, captureOk,
                 exchanged>>

HalfMinute ==
  /\ ~probeDue /\ probeDue' = TRUE /\ hush' = TRUE
  /\ UNCHANGED <<around, streams, step, flags, sampleDue, probe, exchange, captureOk,
                 exchanged>>

-----------------------------------------------------------------------------
(* The loop *)

\* SckCapturer::new, and menubar_status after it; on failure the old streams
\* stay and the failure is reported.
Rebuild ==
  /\ streams' = IF able THEN (IF dozing THEN "old" ELSE "live") ELSE streams
  /\ hush' = (hush /\ ~able) /\ probe' = (probe /\ ~able)
  /\ captureOk' = able /\ exchanged' = FALSE

Keep == UNCHANGED <<streams, silence, captureOk, exchanged>>

StopStreams == streams' = "none" /\ UNCHANGED <<silence, captureOk, exchanged>>

\* The policy is read.  Off: the streams are stopped once.  On again: they are
\* built, and again in the next round if that fails.
Top ==
  /\ step = "top"
  /\ \/ /\ ~wanted
        /\ step' = "top" /\ wasEnabled' = FALSE
        /\ IF wasEnabled THEN StopStreams ELSE Keep
     \/ /\ wanted /\ ~wasEnabled
        /\ step' = "exclude" /\ wasEnabled' = able
        /\ Rebuild
     \/ /\ wanted /\ wasEnabled
        /\ step' = "exclude" /\ Keep /\ UNCHANGED wasEnabled
  /\ UNCHANGED <<around, isExcluded, wasExcluded, wereAsleep, clocks, exchange>>

\* Mutant: the pause counts as ended although the streams could not be built.
StillPausedNever == FALSE

StillPaused == ~able

\* Is an excluded app frontmost?  System Events may not answer, which matches
\* nothing.  The streams are stopped once, and built when focus has left.
Exclude ==
  /\ step = "exclude"
  /\ isExcluded' \in IF sampleDue THEN {focused, FALSE} ELSE {isExcluded}
  /\ sampleDue' = FALSE
  /\ \/ /\ isExcluded'
        /\ step' = "top" /\ wasExcluded' = TRUE
        /\ IF ~wasExcluded THEN StopStreams ELSE Keep
     \/ /\ ~isExcluded'
        /\ step' = "wake"
        /\ IF wasExcluded
           THEN Rebuild /\ wasExcluded' = StillPaused
           ELSE Keep /\ UNCHANGED wasExcluded
  /\ UNCHANGED <<around, wasEnabled, wereAsleep, probeDue, exchange>>

\* A new model may load or not; if so the status is set, whatever the streams
\* are.  Then a display that was asleep and is no longer: build, tried once.
Wake ==
  /\ step = "wake" /\ step' = "frames"
  /\ LET asleep == dozing /\ streams # "none"
         woke   == wereAsleep /\ ~asleep
     IN /\ wereAsleep' = asleep
        /\ \/ /\ woke /\ Rebuild
              /\ exchange' \in {exchange, FALSE}
           \/ /\ ~woke /\ exchange' = exchange /\ Keep
           \/ /\ ~woke /\ exchange /\ exchange' = FALSE
              /\ captureOk' = TRUE /\ exchanged' = TRUE
              /\ UNCHANGED <<streams, silence>>
  /\ UNCHANGED <<around, wasEnabled, isExcluded, wasExcluded, clocks>>

Delivers ==
  CASE streams = "live" -> IF moving THEN {TRUE} ELSE BOOLEAN
    [] streams = "old"  -> BOOLEAN
    [] OTHER            -> {FALSE}

Remembered(probed) == probed

\* Frames drop the probe.  Then the watchdog: of a silent stream it takes a
\* probe, and if it differs from the last one the streams are built anew.
Frames ==
  /\ step = "frames" /\ step' = "top"
  /\ \E got \in Delivers :
       LET quiet   == hush /\ ~got
           looks   == probeDue /\ ~wereAsleep
           probes  == looks /\ quiet /\ streams # "none" /\ able
           before  == probe /\ ~got
       IN /\ probeDue' = (probeDue /\ ~looks)
          /\ \/ /\ probes /\ before /\ moving
                /\ Rebuild
             \/ /\ probes /\ ~(before /\ moving)
                /\ hush' = quiet /\ probe' = Remembered(TRUE)
                /\ UNCHANGED <<streams, captureOk, exchanged>>
             \/ /\ ~probes
                /\ hush' = quiet /\ probe' = before
                /\ UNCHANGED <<streams, captureOk, exchanged>>
  /\ UNCHANGED <<around, flags, sampleDue, exchange>>

Loop == Top \/ Exclude \/ Wake \/ Frames

CaptureNext ==
  \/ ChangeWanted \/ Surroundings \/ DisplaySleeps \/ DisplayWakes \/ StreamDies
  \/ NewModel \/ Second \/ HalfMinute \/ Loop

CaptureSpec == CaptureInit /\ [][CaptureNext]_captureVars

-----------------------------------------------------------------------------
(* Properties *)

\* Type invariant.
CaptureTypeOK ==
  /\ {wanted, focused, able, dozing, moving, wasEnabled, isExcluded, wasExcluded, wereAsleep,
      sampleDue, probeDue, hush, probe, exchange, captureOk, exchanged}
       \subseteq BOOLEAN
  /\ streams \in {"live", "dead", "old", "none"}
  /\ step \in {"top", "exclude", "wake", "frames"}

Recordable ==
  wanted /\ ~focused /\ able /\ ~dozing

\* When nothing stands against recording any more, the screen is recorded for
\* good, however pauses, sleeps and failed restarts followed one another.
\* (pipeline.rs: a failed rebuild is retried)
RecordingResumes == <>[]Recordable => <>[](streams # "none")

\* A stream that has gone silent under a changing screen does not stay so.
\* (the staleness watchdog)
DeadIsRebuilt == <>[](Recordable /\ moving) => []<>(streams # "dead")

\* A censor that still sees the screen from before a sleep says so, unless a
\* new model was loaded since. (Health::capture_ok)
BlindAfterSleepIsTold ==
  streams = "old" /\ ~dozing /\ ~wereAsleep => ~captureOk \/ exchanged

\* The three, of one behaviour: recording comes back after whatever interrupted it,
\* or the failure is told. (pipeline.rs run)
CaptureRecovers == RecordingResumes /\ DeadIsRebuilt /\ []BlindAfterSleepIsTold

\* pipeline.rs: "Actually STOP recording ... so the whitelisted app is never
\* captured".
ExcludedIsNotRecorded == step = "top" /\ isExcluded => streams = "none"
=============================================================================
