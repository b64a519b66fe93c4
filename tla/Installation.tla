---------------------------- MODULE Installation ----------------------------
(***************************************************************************)
(* The installed app (betamacsd.rs apply_app_envelope, the "app" branch of   *)
(* handle_client, ensure_managed_layout, check_integrity): a signed update   *)
(* is unpacked, checked and swapped in by renames, the daemon then exits so  *)
(* that launchd starts it from the new bundle, and a daemon that runs keeps  *)
(* the launchd plists as they should be.                                     *)
(*                                                                          *)
(* Every update carries an epoch.  The two users of the staging directory    *)
(* share its names, so that it may hold the files of both.  Killing the      *)
(* daemon and a step that fails are possible everywhere; MaxUpdates and      *)
(* MaxFaults bound how often things come from outside.                      *)
(***************************************************************************)
EXTENDS Integers

CONSTANTS
  Deliverer,   \* connections that deliver updates
  Release,     \* releases of the app
  Epoch,       \* the epoch each was published with
  Sound,       \* those whose signature and version are as the manifest says
  Team,        \* the signing team of each
  First,       \* the release that was installed by hand
  NoApp,       \* no bundle at a path
  TornEpoch,   \* an epoch file that was truncated and not written
  MaxUpdates, MaxFaults

ASSUME InstallationAssumption ==
  /\ Epoch \in [Release -> Nat] /\ First \in Release /\ Sound \subseteq Release
  /\ NoApp \notin Release /\ TornEpoch \notin Nat
  /\ MaxUpdates \in Nat /\ MaxFaults \in Nat

VARIABLES
  app, old,        \* betamacs.app and betamacs.app.old
  staged,          \* the releases unpacked in the staging directory
  appEpoch,        \* epoch-app
  step, update, newEpoch, hadApp,   \* each connection
  running,         \* the release the daemon runs, NoApp while it is down
  leaving,         \* an update succeeded and the daemon exits soon
  agentRuns,       \* the release the agent runs
  agentPlist, daemonPlist,          \* the plists: "own", "altered", "absent"
  updates, faults,
  cut              \* history: the daemon died within a swap

installVars == <<app, old, staged, appEpoch, step, update, newEpoch, hadApp, running, leaving,
                 agentRuns, agentPlist, daemonPlist, updates, faults, cut>>

diskVars   == <<app, old, staged, appEpoch>>
plistVars  == <<agentPlist, daemonPlist>>
outerVars  == <<running, leaving, agentRuns, updates, faults, cut>>

PlistStates == {"own", "altered", "absent"}

InstallInit ==
  /\ app = First /\ old = NoApp /\ staged = {} /\ appEpoch = Epoch[First]
  /\ step = [t \in Deliverer |-> "idle"] /\ update = [t \in Deliverer |-> First]
  /\ newEpoch = [t \in Deliverer |-> 0] /\ hadApp = [t \in Deliverer |-> FALSE]
  /\ running = First /\ leaving = FALSE /\ agentRuns = First
  /\ agentPlist \in PlistStates /\ daemonPlist \in PlistStates
  /\ updates = 0 /\ faults = 0 /\ cut = FALSE

DaemonUp == running # NoApp

AppHighWater == IF appEpoch = TornEpoch THEN 0 ELSE appEpoch

\* Between the two renames.
Swapping(t) == step[t] \in {"move in", "move back"}

-----------------------------------------------------------------------------
(* An update *)

IsAt(t, here) == DaemonUp /\ step[t] = here
StepTo(t, there) == step' = [step EXCEPT ![t] = there]
GivesUp(t) == StepTo(t, "idle") /\ UNCHANGED <<app, old, staged, appEpoch>>

\* verify: the signature holds, and the epoch is not below the high-water. A
\* verifier never lowers what it was given.
DeliverUpdate(t, r) ==
  /\ IsAt(t, "idle") /\ updates < MaxUpdates
  /\ updates' = updates + 1
  /\ \/ /\ Epoch[r] >= AppHighWater
        /\ StepTo(t, "clear")
        /\ update' = [update EXCEPT ![t] = r]
        /\ newEpoch' = [newEpoch EXCEPT ![t] = Epoch[r]]
     \/ Epoch[r] < AppHighWater /\ UNCHANGED <<step, update, newEpoch>>
  /\ UNCHANGED <<diskVars, hadApp, running, leaving, agentRuns, plistVars, faults, cut>>

ClearStaging(t) ==
  /\ IsAt(t, "clear")
  /\ staged' = {} /\ StepTo(t, "unpack")
  /\ UNCHANGED <<app, old, appEpoch>>

UnpackZip(t) ==
  /\ IsAt(t, "unpack")
  /\ \/ /\ staged' = staged \union {update[t]} /\ StepTo(t, "check")
        /\ UNCHANGED <<app, old, appEpoch>>
     \/ GivesUp(t)

\* codesign, the team if an app is installed, the version; then chown and chmod.
CheckBundle(t) ==
  /\ IsAt(t, "check")
  /\ \/ /\ staged = {update[t]} /\ update[t] \in Sound
        /\ app # NoApp => Team[app] = Team[update[t]]
        /\ StepTo(t, "drop old") /\ UNCHANGED diskVars
     \/ GivesUp(t)

DropOld(t) ==
  /\ IsAt(t, "drop old")
  /\ old' = NoApp /\ StepTo(t, "move aside")
  /\ UNCHANGED <<app, staged, appEpoch>>

\* Mutant: the app is not set aside but removed.
Discarded(there) == old

\* What is at betamacs.app.old once the app was moved there.
SetAside(there) == there

\* A rename needs its source and a free target.
MoveAside(t) ==
  /\ IsAt(t, "move aside")
  /\ hadApp' = [hadApp EXCEPT ![t] = app # NoApp]
  /\ \/ /\ app # NoApp /\ old = NoApp
        /\ app' = NoApp /\ old' = SetAside(app) /\ StepTo(t, "move in")
     \/ app = NoApp /\ StepTo(t, "move in") /\ UNCHANGED <<app, old>>
     \/ app # NoApp /\ StepTo(t, "idle") /\ UNCHANGED <<app, old>>
  /\ UNCHANGED <<staged, appEpoch>>

MoveIn(t) ==
  /\ IsAt(t, "move in")
  /\ \/ /\ staged # {} /\ app = NoApp
        /\ app' \in staged /\ staged' = {} /\ StepTo(t, "write epoch")
        /\ UNCHANGED <<old, appEpoch>>
     \/ /\ StepTo(t, IF hadApp[t] THEN "move back" ELSE "idle")
        /\ UNCHANGED diskVars

\* The roll-back.
MoveBack(t) ==
  /\ IsAt(t, "move back")
  /\ IF app = NoApp THEN app' = old /\ old' = NoApp ELSE UNCHANGED <<app, old>>
  /\ StepTo(t, "idle")
  /\ UNCHANGED <<staged, appEpoch>>

\* The old bundle and the staging directory go and the epoch file is opened;
OpenEpoch(t) ==
  /\ IsAt(t, "write epoch")
  /\ old' = NoApp /\ staged' = {} /\ appEpoch' = TornEpoch /\ StepTo(t, "fill epoch")
  /\ UNCHANGED app

\* then it is written, ...
WriteEpoch(t) ==
  /\ IsAt(t, "fill epoch")
  /\ \/ appEpoch' = newEpoch[t] /\ StepTo(t, "kickstart")
     \/ UNCHANGED appEpoch /\ StepTo(t, "idle")
  /\ UNCHANGED <<app, old, staged>>

\* ... the agent is restarted, and the client is answered.
Kickstart(t) ==
  /\ IsAt(t, "kickstart")
  /\ StepTo(t, "idle")
  /\ leaving' = TRUE /\ agentRuns' = IF app = NoApp THEN agentRuns ELSE app
  /\ UNCHANGED <<diskVars, update, newEpoch, hadApp, running, plistVars, updates, faults,
                 cut>>

UpdateStep(t) ==
  /\ \/ ClearStaging(t) \/ UnpackZip(t) \/ CheckBundle(t) \/ DropOld(t)
     \/ MoveIn(t) \/ MoveBack(t) \/ OpenEpoch(t) \/ WriteEpoch(t)
  /\ UNCHANGED <<update, newEpoch, hadApp, outerVars, plistVars>>

AsideStep(t) == MoveAside(t) /\ UNCHANGED <<update, newEpoch, outerVars, plistVars>>

ConnectionStep(t) == UpdateStep(t) \/ AsideStep(t) \/ Kickstart(t)

-----------------------------------------------------------------------------
(* The daemon comes and goes *)

DaemonDies ==
  /\ running' = NoApp /\ leaving' = FALSE
  /\ step' = [t \in Deliverer |-> "idle"]
  /\ cut' = (cut \/ \E t \in Deliverer : Swapping(t))
  /\ UNCHANGED <<diskVars, update, newEpoch, hadApp, agentRuns, plistVars, updates>>

\* The exit two seconds after an update, whatever other connections do.
LeaveAfterUpdate == DaemonUp /\ leaving /\ DaemonDies /\ UNCHANGED faults

KillDaemon == DaemonUp /\ faults < MaxFaults /\ faults' = faults + 1 /\ DaemonDies

\* KeepAlive starts what is installed; the plist of the agent is then written if
\* there is none, and the agent loaded from it.
RespawnDaemon ==
  /\ ~DaemonUp /\ app # NoApp
  /\ running' = app
  /\ \/ agentPlist = "absent" /\ agentPlist' = "own" /\ agentRuns' = app
     \/ agentPlist # "absent" /\ UNCHANGED <<agentPlist, agentRuns>>
  /\ UNCHANGED <<diskVars, step, update, newEpoch, hadApp, leaving, daemonPlist, updates,
                 faults, cut>>

Repaired(plist, create) == IF plist # "absent" \/ create THEN "own" ELSE plist

\* Every ten minutes. A missing app is only reported.
CheckIntegrity ==
  /\ DaemonUp
  /\ agentPlist' = Repaired(agentPlist, TRUE)
  /\ daemonPlist' = Repaired(daemonPlist, FALSE)
  /\ UNCHANGED <<diskVars, step, update, newEpoch, hadApp, outerVars>>

\* Somebody changes or removes a plist.
PlistDrifts ==
  /\ faults < MaxFaults /\ faults' = faults + 1
  /\ agentPlist' \in PlistStates /\ daemonPlist' \in PlistStates
  /\ UNCHANGED <<diskVars, step, update, newEpoch, hadApp, running, leaving, agentRuns,
                 updates, cut>>

InstallNext ==
  \/ \E t \in Deliverer :
       \/ \E r \in Release : DeliverUpdate(t, r)
       \/ ConnectionStep(t)
  \/ LeaveAfterUpdate \/ KillDaemon \/ RespawnDaemon \/ CheckIntegrity \/ PlistDrifts

InstallSpec == InstallInit /\ [][InstallNext]_installVars

-----------------------------------------------------------------------------
(* Properties *)

\* Type invariant.
InstallTypeOK ==
  /\ {app, old, running} \subseteq Release \union {NoApp} /\ agentRuns \in Release
  /\ staged \subseteq Release /\ appEpoch \in Nat \union {TornEpoch}
  /\ step \in [Deliverer -> {"idle", "clear", "unpack", "check", "drop old", "move aside",
                            "move in", "move back", "write epoch", "fill epoch", "kickstart"}]
  /\ update \in [Deliverer -> Release] /\ newEpoch \in [Deliverer -> Nat]
  /\ hadApp \in [Deliverer -> BOOLEAN]
  /\ leaving \in BOOLEAN /\ agentPlist \in PlistStates /\ daemonPlist \in PlistStates
  /\ updates \in 0..MaxUpdates /\ faults \in 0..MaxFaults /\ cut \in BOOLEAN

\* However an update ends there is an app, and it is one that was checked; only
\* the daemon's death within the swap leaves none. The high-water is never ahead
\* of it, so that an update that failed can be delivered again.
\* (apply_app_envelope: swap with rollback, epoch last)
UpdateIsSafe ==
  /\ app = NoApp => cut \/ \E t \in Deliverer : Swapping(t)
  /\ app \in Sound \union {First, NoApp}
  /\ app # NoApp => AppHighWater <= Epoch[app]

\* An app is installed unless a swap is under way. (betamacsd.rs: "Root-owned
\* swap with rollback")
AppIsKept == app = NoApp => \E t \in Deliverer : Swapping(t)

\* After an update the daemon comes to run what is installed, and the agent's
\* plist is repaired, unless a swap was cut short. (KeepAlive respawns us)
InstalledIsRun ==
  /\ leaving ~> (running = app \/ cut)
  /\ []<>(agentPlist = "own" \/ cut)
=============================================================================
