------------------------------ MODULE Lockdown ------------------------------
(***************************************************************************)
(* Why the network is fully blocked: the agent's heartbeats, the AgentState  *)
(* betamacsd keeps of them, and the watchdog that decides (heartbeat.rs      *)
(* spawn; handle_client's heartbeat, watch_agent and Quarantine::want_full). *)
(*                                                                          *)
(* Agent, connection threads and watchdog run on their own: a heartbeat      *)
(* consumes the edges of tripped limits before it knows whether the daemon   *)
(* is there, its handler may run between any two steps of the watchdog, and  *)
(* two handlers may finish in either order.  The daemon keeps everything in  *)
(* memory; killing the agent keeps nothing of the agent's.                   *)
(*                                                                          *)
(* Time counts watchdog periods (15 s).  Both loops keep their pace: between *)
(* two ticks a running daemon looks once, a running agent beats at least     *)
(* once (5 s) unless it backs off from a daemon it could not reach (25 s),   *)
(* and what was sent is handled; BeatsPerTick bounds the beats.  Ages and    *)
(* deadlines are relative to now and go no further than the code compares.   *)
(***************************************************************************)
EXTENDS Integers

CONSTANTS
  Health,        \* what the pipeline and the monitors may report
  Silent,        \* 30 s: when watch_agent looks for a suspended agent
  Fresh,         \* HEARTBEAT_FRESH, 60 s
  Grace,         \* QUARANTINE_GRACE, 180 s
  Secs,          \* the penalty of each limit
  BeatsPerTick,  \* bound on heartbeats between two ticks
  MaxUpsets      \* bound on what happens to the loops from outside

Limit   == {"exposure", "focus"}
Longest == IF Secs["exposure"] > Secs["focus"] THEN Secs["exposure"] ELSE Secs["focus"]
Backoff == 2

Fine == [capture |-> TRUE, enabled |-> TRUE, challenge |-> FALSE, tamper |-> FALSE]

ASSUME LockdownAssumption ==
  /\ Fine \in Health
  /\ Health \subseteq [{"capture", "enabled", "challenge", "tamper"} -> BOOLEAN]
  /\ Silent \in Nat /\ Fresh \in Nat /\ Grace \in Nat
  /\ 0 < Silent /\ Silent <= Fresh
  /\ Secs \in [Limit -> Nat \ {0}]
  /\ BeatsPerTick \in Nat
  /\ MaxUpsets \in Nat

VARIABLES
  session,   \* someone is logged in at the console
  proc,      \* the agent process: "running", "suspended" or "gone"
  health,    \* its health flags
  edge,      \* the limits tripped and not yet reported
  beaten,    \* how often it has beaten since the last tick
  rest,      \* ticks for which it backs off
  wire,      \* heartbeats sent and not yet handled
  up,        \* the daemon runs
  st,        \* AgentState
  since,     \* how long unhealthy_since is past, or Never
  phase,     \* the watchdog: "asleep", "watched" or "decided"
  verdict,   \* what want_full returned
  reason,    \* quarantine_reason
  looked,    \* the watchdog has looked since the last tick
  owed,      \* history: what is left of the longest penalty for each limit
  granted,   \* history: penalties started
  trips,     \* history: limits exceeded
  silent,    \* history: ticks without news, in an enforced session
  upsets

vars == <<session, proc, health, edge, beaten, rest, wire, up, st, since, phase,
          verdict, reason, looked, owed, granted, trips, silent, upsets>>

agent    == <<proc, health, edge, rest>>
watchdog == <<since, phase, verdict, reason, looked>>
history  == <<owed, granted, trips, silent>>

Never  == -1
Timed  == {"exposure", "focus"}
Untold == [seen |-> Never, known |-> FALSE, health |-> Fine, until |-> 0,
           source |-> "exposure"]
None   == [l \in Limit |-> FALSE]

\* The daemon has just started, before or after a login.
Init ==
  /\ session \in BOOLEAN
  /\ proc = "gone" /\ health = Fine /\ edge = None
  /\ beaten = 0 /\ rest = 0
  /\ wire = {}
  /\ up = TRUE /\ st = Untold
  /\ since = Never /\ phase = "asleep" /\ verdict = "none" /\ reason = "none"
  /\ looked = TRUE
  /\ owed = [l \in Limit |-> 0] /\ granted = 0 /\ trips = 0 /\ silent = 0
  /\ upsets = 0

Least(a, b) == IF a < b THEN a ELSE b
Most(a, b)  == IF a < b THEN b ELSE a

-----------------------------------------------------------------------------
(* The user and the agent *)

Upset == upsets < MaxUpsets /\ upsets' = upsets + 1

LogInOut ==
  /\ Upset
  /\ session' = ~session
  /\ silent' = 0
  /\ UNCHANGED <<agent, beaten, wire, up, st, watchdog, owed, granted, trips>>

\* launchd starts the agent, or it is killed; nothing of it survives.
Launch ==
  /\ proc = "gone"
  /\ proc' = "running"
  /\ UNCHANGED <<session, health, edge, rest, beaten, wire, up, st, watchdog, history, upsets>>

Die ==
  /\ proc # "gone" /\ Upset
  /\ proc' = "gone" /\ health' = Fine /\ edge' = None /\ beaten' = 0 /\ rest' = 0
  /\ wire' = {[m EXCEPT !.known = FALSE] : m \in wire}
  /\ st' = [st EXCEPT !.known = FALSE]
  /\ UNCHANGED <<session, up, watchdog, history>>

Suspend ==
  /\ proc = "running" /\ Upset
  /\ proc' = "suspended"
  /\ UNCHANGED <<session, health, edge, rest, beaten, wire, up, st, watchdog, history>>

\* The pipeline, the challenge and the clock monitor set their flags.
Report ==
  /\ proc = "running" /\ Upset
  /\ health' \in Health
  /\ UNCHANGED <<session, proc, edge, rest, beaten, wire, up, st, watchdog, history>>

\* A limit is exceeded: its edge is set.
Trip(l) ==
  /\ proc = "running" /\ Upset
  /\ trips' = trips + 1
  /\ edge' = [edge EXCEPT ![l] = TRUE]
  /\ UNCHANGED <<session, proc, health, rest, beaten, wire, up, st, watchdog, owed,
                 granted, silent>>

\* Mutant: the edges are read and not consumed.
BeatKeepsEdge ==
  /\ proc = "running" /\ beaten < BeatsPerTick
  /\ IF up
     THEN /\ wire' = wire \union {[health |-> health, edge |-> edge, known |-> TRUE]}
          /\ rest' = 0
     ELSE rest' = Backoff /\ UNCHANGED wire
  /\ beaten' = beaten + 1
  /\ UNCHANGED <<session, proc, health, edge, up, st, watchdog, history, upsets>>

\* The edges are consumed, then the daemon is reached or not.
Beat ==
  /\ proc = "running" /\ beaten < BeatsPerTick
  /\ edge' = None
  /\ IF up
     THEN /\ wire' = wire \union {[health |-> health, edge |-> edge, known |-> TRUE]}
          /\ rest' = 0
     ELSE rest' = Backoff /\ UNCHANGED wire
  /\ beaten' = beaten + 1
  /\ UNCHANGED <<session, proc, health, up, st, watchdog, history, upsets>>

-----------------------------------------------------------------------------
(* The daemon *)

\* Mutant: the last limit to report sets the deadline.
PenalizeLast(s, m, l) ==
  IF m.edge[l] THEN [s EXCEPT !.until = Secs[l], !.source = l] ELSE s

\* A tripped limit starts or extends the lockout; the longer deadline stands.
Penalize(s, m, l) ==
  IF m.edge[l] /\ Secs[l] >= s.until
  THEN [s EXCEPT !.until = Secs[l], !.source = l] ELSE s

\* Mutant: a tampered clock stays tampered.
NoteLatched(s, m) ==
  [s EXCEPT !.seen = 0, !.known = m.known,
            !.health = [m.health EXCEPT !.tamper = @ \/ s.health.tamper]]

Note(s, m) == [s EXCEPT !.seen = 0, !.known = m.known, !.health = m.health]

\* A connection thread handles a heartbeat.
Handle(m) ==
  /\ up
  /\ wire' = wire \ {m}
  /\ st' = Penalize(Penalize(Note(st, m), m, "exposure"), m, "focus")
  /\ owed' = [l \in Limit |-> IF m.edge[l] THEN Most(owed[l], Secs[l]) ELSE owed[l]]
  /\ granted' = granted + (IF m.edge["exposure"] THEN 1 ELSE 0)
                        + (IF m.edge["focus"] THEN 1 ELSE 0)
  /\ silent' = 0
  /\ UNCHANGED <<session, agent, beaten, up, watchdog, trips, upsets>>

\* Mutant: an agent is only resumed when the watchdog misses it.
ResumesMissed == st.known /\ st.seen >= Silent /\ since # Never

Resumes == st.known /\ st.seen >= Silent

\* watch_agent: a silent agent that is suspended is resumed, if the process is
\* the one that was last heard of.
Watch ==
  /\ up /\ phase = "asleep" /\ ~looked
  /\ proc' = IF proc = "suspended" /\ Resumes THEN "running" ELSE proc
  /\ phase' = "watched"
  /\ UNCHANGED <<session, health, edge, rest, beaten, wire, up, st, since, verdict,
                 reason, looked, history, upsets>>

\* Mutant: an agent that has gone silent is left to launchd.
UnhealthyUnlessSilent ==
  CASE st.health.tamper                           -> "clock-tamper"
    [] st.health.challenge /\ ~st.health.tamper   -> "challenge"
    [] ~st.health.tamper /\ ~st.health.challenge /\ session /\ st.health.enabled
       /\ ~st.health.capture                      -> "capture-unhealthy"
    [] OTHER                                      -> "none"

\* unhealthy_reason, highest first.
Unhealthy ==
  CASE st.health.tamper -> "clock-tamper"
    [] st.health.challenge /\ ~st.health.tamper -> "challenge"
    [] OTHER ->
         CASE ~session \/ ~st.health.enabled -> "none"
           [] session /\ st.health.enabled /\ ~st.health.capture -> "capture-unhealthy"
           [] OTHER -> CASE st.seen = Never -> "session/health"
                         [] st.seen >= Fresh -> "heartbeat-stale"
                         [] OTHER -> "none"

\* Mutant: the grace window comes before the penalty.
WantFullAfterGrace ==
  CASE Unhealthy # "none" /\ since < Grace -> "none"
    [] Unhealthy # "none" /\ since >= Grace -> Unhealthy
    [] OTHER -> IF st.until > 0 THEN st.source ELSE "none"

\* want_full's answer: a penalty at once, the rest after the grace window.
WantFull ==
  CASE st.until > 0 -> st.source
    [] st.until = 0 /\ Most(since, 0) >= Grace -> Unhealthy
    [] OTHER -> "none"

\* want_full: unhealthy_since is set, kept or cleared on the way.
Decide ==
  /\ phase = "watched"
  /\ verdict' = WantFull
  /\ since' = IF st.until > 0 \/ Unhealthy = "none" THEN Never ELSE Most(since, 0)
  /\ phase' = "decided"
  /\ UNCHANGED <<session, agent, beaten, wire, up, st, reason, looked, history, upsets>>

\* The reason is published and enforced.
Publish ==
  /\ phase = "decided"
  /\ reason' = verdict
  /\ verdict' = "none"
  /\ phase' = "asleep"
  /\ looked' = TRUE
  /\ UNCHANGED <<session, agent, beaten, wire, up, st, since, history, upsets>>

Crash ==
  /\ up /\ Upset
  /\ up' = FALSE /\ wire' = {} /\ st' = Untold
  /\ since' = Never /\ phase' = "asleep" /\ verdict' = "none" /\ reason' = "none"
  /\ looked' = TRUE
  /\ owed' = [l \in Limit |-> 0] /\ silent' = 0
  /\ UNCHANGED <<session, agent, beaten, granted, trips>>

Start ==
  /\ ~up
  /\ up' = TRUE
  /\ UNCHANGED <<session, agent, beaten, wire, st, watchdog, history, upsets>>

-----------------------------------------------------------------------------
(* Time *)

Older(age, limit) == IF age = Never THEN Never ELSE Least(age + 1, limit)

\* Mutant: the time left is not saturated.
SoonerUnsaturated(left) == left - 1
Sooner(left)            == Most(left - 1, 0)

Tick ==
  /\ looked /\ phase = "asleep"
  /\ proc = "running" => beaten > 0 \/ rest > 0
  /\ wire = {}
  /\ looked' = ~up
  /\ beaten' = 0
  /\ rest' = Sooner(rest)
  /\ st' = [st EXCEPT !.seen = Older(@, Fresh), !.until = Sooner(@)]
  /\ since' = Older(since, Grace)
  /\ owed' = [l \in Limit |-> Sooner(owed[l])]
  /\ silent' = IF session /\ up /\ st.until = 0 /\ st.health.enabled
               THEN Least(silent + 1, Fresh + Grace) ELSE 0
  /\ UNCHANGED <<session, proc, health, edge, wire, up, phase, verdict, reason, granted,
                 trips, upsets>>

-----------------------------------------------------------------------------
Daemon == Watch \/ Decide \/ Publish \/ Start \/ \E m \in wire : Handle(m)

Next ==
  \/ LogInOut \/ Launch \/ Die \/ Suspend \/ Report \/ Beat
  \/ \E l \in Limit : Trip(l)
  \/ Daemon \/ Crash \/ Tick

Spec == Init /\ [][Next]_vars

\* The loops of agent and daemon go on, launchd restarts both, time passes.
FairSpec == Spec /\ WF_vars(Daemon) /\ WF_vars(Beat) /\ WF_vars(Launch) /\ WF_vars(Tick)

-----------------------------------------------------------------------------
(* Properties *)

Reasons == Timed \union {"none", "clock-tamper", "challenge", "capture-unhealthy",
                         "heartbeat-stale", "session/health"}

\* Type invariant.
TypeOK ==
  /\ session \in BOOLEAN /\ up \in BOOLEAN /\ looked \in BOOLEAN
  /\ proc \in {"running", "suspended", "gone"}
  /\ health \in Health
  /\ edge \in [Limit -> BOOLEAN]
  /\ beaten \in 0..BeatsPerTick /\ rest \in 0..Backoff
  /\ wire \subseteq [health: Health, edge: [Limit -> BOOLEAN], known: BOOLEAN]
  /\ st \in [seen: Never..Fresh, known: BOOLEAN, health: Health, until: 0..Longest,
             source: Limit]
  /\ since \in Never..Grace
  /\ phase \in {"asleep", "watched", "decided"}
  /\ verdict \in Reasons /\ reason \in Reasons
  /\ ~up => wire = {} /\ st = Untold

Rested == up /\ phase = "asleep" /\ looked

\* Whatever order the trips of the two limits are reported in, the deadline is
\* the longest one owed and the reason names a limit that set it.
\* (docs/lockdown-reasons.md: the reason is accurate)
PenaltyIsLongest ==
  /\ st.until = Most(owed["exposure"], owed["focus"])
  /\ st.until > 0 => owed[st.source] = st.until

\* A penalty that was reported before the last tick blocks the network now, for
\* one of the limits that were exceeded, whatever became of the agent since.
\* (want_full: immediate, no grace, supersedes everything)
PenaltyIsEnforced ==
  Rested => \A l \in Limit : owed[l] \in 1..(Secs[l] - 1) => reason \in Timed

\* A limit tripped once is punished at most once. (heartbeat's swap)
OneLockoutPerTrip == granted <= trips

\* Silence in an enforced session blocks the network once it has lasted for the
\* freshness and the grace windows, whatever happened before or since.
SilenceBlocks == Rested /\ silent = Fresh + Grace => reason # "none"

\* A suspended agent that the daemon has heard of is resumed, unless it is
\* killed or the daemon dies first. (watch_agent)
KnownIsResumed == proc = "suspended" /\ st.known ~> proc # "suspended" \/ ~st.known

\* Once the agent runs and is well for good, the network is released for good.
\* (docs/managed-mode.md: released automatically when health returns)
Recovers == <>[](proc = "running" /\ health = Fine) => <>[](reason = "none")

\* betamacsd.rs: "silence with a live process means it was stopped and gets a
\* SIGCONT".
SuspendedIsResumed == proc = "suspended" ~> proc # "suspended"
=============================================================================
