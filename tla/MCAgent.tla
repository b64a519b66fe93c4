------------------------------ MODULE MCAgent ------------------------------
(***************************************************************************)
(* Small instances of the parts of the agent, composed.  They run in threads *)
(* of their own and share no variable, so that a behaviour of them all is    *)
(* an interleaving of a behaviour of each, and what each of them promises    *)
(* can be checked of it alone: one part takes place, and the others stay in  *)
(* one of their initial states.                                              *)
(***************************************************************************)
EXTENDS ClockMonitor, Challenge, Observer, CaptureStreams, Scanning, CensorBoxes,
        ExposureBudget, OverlayPool

VARIABLE part   \* the part that takes place

Parts == {"clock", "challenge", "observer", "capture", "scan", "boxes", "budget", "pool"}

agentVars == <<part, clockVars, challengeVars, observerVars, captureVars, scanVars, boxVars,
               budgetVars, poolVars>>

-----------------------------------------------------------------------------
(* The instances *)

MCAccepted == [t \in Task |-> IF t = "t1" THEN {"a"} ELSE {"b"}]
MCEarns    == [s \in Source |-> IF s = "s1" THEN {"a"} ELSE {"a", "b"}]
MCRatio    == [s \in Source |-> IF s = "s1" THEN 1 ELSE 2]
MCMode     == [l \in Look |-> CASE l = "plain" -> "box"
                                [] l = "blur" -> "pixels"
                                [] l = "static" -> "static"
                                [] l = "image" -> "image"]

-----------------------------------------------------------------------------
(* A part that does not take place has one initial state. *)

Only(name, one) == part = name \/ one

AgentInit ==
  /\ part \in Parts
  /\ ClockInit /\ Only("clock", clockOn /\ wall = 0 /\ auto /\ net = "right")
  /\ ChallengeInit /\ Only("challenge", ~challengeOn /\ eligible = Task)
  /\ ObserverInit /\ Only("observer", earnOn /\ focusOn)
  /\ CaptureInit /\ Only("capture", wanted /\ ~focused /\ moving)
  /\ ScanInit /\ Only("scan", key = "k1" /\ modelSet = "640m")
  /\ BoxInit /\ Only("boxes", style = "solid")
  /\ BudgetInit /\ Only("budget", ~budgetOn /\ ~coverOn)
  /\ PoolInit /\ Only("pool", look = "plain")

AgentNext ==
  \/ /\ part = "clock" /\ ClockNext
     /\ UNCHANGED <<part, challengeVars, observerVars, captureVars, scanVars, boxVars,
                    budgetVars, poolVars>>
  \/ /\ part = "challenge" /\ ChallengeNext
     /\ UNCHANGED <<part, clockVars, observerVars, captureVars, scanVars, boxVars,
                    budgetVars, poolVars>>
  \/ /\ part = "observer" /\ ObserverNext
     /\ UNCHANGED <<part, clockVars, challengeVars, captureVars, scanVars, boxVars,
                    budgetVars, poolVars>>
  \/ /\ part = "capture" /\ CaptureNext
     /\ UNCHANGED <<part, clockVars, challengeVars, observerVars, scanVars, boxVars,
                    budgetVars, poolVars>>
  \/ /\ part = "scan" /\ ScanNext
     /\ UNCHANGED <<part, clockVars, challengeVars, observerVars, captureVars, boxVars,
                    budgetVars, poolVars>>
  \/ /\ part = "boxes" /\ BoxNext
     /\ UNCHANGED <<part, clockVars, challengeVars, observerVars, captureVars, scanVars,
                    budgetVars, poolVars>>
  \/ /\ part = "budget" /\ BudgetNext
     /\ UNCHANGED <<part, clockVars, challengeVars, observerVars, captureVars, scanVars,
                    boxVars, poolVars>>
  \/ /\ part = "pool" /\ PoolNext
     /\ UNCHANGED <<part, clockVars, challengeVars, observerVars, captureVars, scanVars,
                    boxVars, budgetVars>>

\* The threads go on: the monitor's loop and the heartbeat, the scheduler, whose
\* dialog gives up by itself while nobody need answer, and the pipeline.
AgentFairness ==
  /\ WF_clockVars(part = "clock" /\ Poll)
  /\ WF_clockVars(part = "clock" /\ TakeBootWrong)
  /\ WF_challengeVars(part = "challenge" /\ ComeDue)
  /\ WF_challengeVars(part = "challenge" /\ Off)
  /\ WF_challengeVars(part = "challenge" /\ Wait)
  /\ WF_challengeVars(part = "challenge" /\ Skip)
  /\ WF_challengeVars(part = "challenge" /\ Pose)
  /\ WF_challengeVars(part = "challenge" /\ Lapse)
  /\ WF_captureVars(part = "capture" /\ Loop)
  /\ WF_captureVars(part = "capture" /\ Second)
  /\ WF_captureVars(part = "capture" /\ HalfMinute)

AgentSpec == AgentInit /\ [][AgentNext]_agentVars /\ AgentFairness

-----------------------------------------------------------------------------
(* Properties *)

\* Type invariant.
AgentTypeOK ==
  /\ ClockTypeOK /\ ChallengeTypeOK /\ ObserverTypeOK /\ CaptureTypeOK /\ ScanTypeOK
  /\ BoxTypeOK /\ BudgetTypeOK /\ PoolTypeOK

\* The censor: what was flagged stays covered, the overlay is current and leaves no
\* trail, and tiles replay what is in them; see CensorBoxes and Scanning.
CensorHolds ==
  FlaggedIsCovered /\ OverlayIsCurrent /\ NoTrail /\ ReplaysAreTrueOrSpoiled
=============================================================================
