----------------------------- MODULE Quarantine -----------------------------
(***************************************************************************)
(* How betamacsd makes the network match what the watchdog wants: the pf    *)
(* anchor, the local DNS filter, and the redirect of the system resolver to *)
(* it (Quarantine::apply, SystemDns::engage and restore).                   *)
(*                                                                          *)
(* The watchdog decides and publishes the reason (Watch), then apply walks  *)
(* through its phases: switch the filter, redirect the resolver one network *)
(* service at a time, find the upstreams, change the anchor, and on the way *)
(* out put the resolver back.  Each step is an action, so that the daemon   *)
(* can die, or the Mac reboot, between any two of them.  The anchor and the *)
(* resolver settings outlive the daemon; what it believes to be engaged     *)
(* does not.                                                                *)
(*                                                                          *)
(* Abstractions.  Host lists are the members of Lists; a ruleset is its     *)
(* kind, the hosts it allows and the upstreams it lets port 53 through to;  *)
(* the upstreams found are those of the network the Mac is on.  What the    *)
(* watchdog's three inputs are is left open: every tick picks them anew.    *)
(***************************************************************************)
EXTENDS Integers, FiniteSets

CONSTANTS
  Service,        \* network services (Wi-Fi, Ethernet...)
  Network,        \* the networks the Mac may join
  Lists,          \* host lists a policy may carry
  MaxCrashes,     \* bound on restarts of the daemon or the Mac
  RestoreMayFail  \* networksetup may fail while the settings are put back

ASSUME BoundAssumption ==
  /\ IsFiniteSet(Service)
  /\ MaxCrashes \in Nat
  /\ RestoreMayFail \in BOOLEAN

VARIABLES
  network,    \* the network the Mac is on
  reason,     \* quarantine_reason: "none", "full" (any of them) or "earning"
  desired,    \* what apply was called with
  engaged,    \* Quarantine.engaged
  anchor,     \* the ruleset in the kernel
  loadedUps,  \* Quarantine.loaded_upstreams
  pfFailed,   \* history: the last pfctl load or flush failed
  listening,  \* the filter has bound its port
  mode,       \* Inner.mode
  ups,        \* Inner.upstreams
  dns,        \* each service's resolver: "own" or "loopback"
  saved,      \* dns-saved.json
  phase,      \* where the watchdog thread is
  todo,       \* services still to be set by engage or restore
  crashes

vars == <<network, reason, desired, engaged, anchor, loadedUps, pfFailed, listening,
          mode, ups, dns, saved, phase, todo, crashes>>

pf       == <<anchor, loadedUps, pfFailed>>
filter   == <<listening, mode, ups>>
resolver == <<dns, saved, todo>>
world    == <<network, crashes>>

-----------------------------------------------------------------------------
(* compose: what to enforce *)

NoHosts    == "no hosts"
NoNetwork  == "no network"
NoFile     == [there |-> FALSE, of |-> [s \in {} |-> "own"]]
TornFile   == [there |-> TRUE,  of |-> [s \in {} |-> "own"]]

Setting(kind, hosts) == [kind |-> kind, hosts |-> hosts]
Plain(kind) == Setting(kind, NoHosts)

Off  == Plain("off")
Open == [pf |-> Plain("open"), dns |-> Off]

\* The site filter as tick's caller sees it: no policy, audit only, a policy
\* with a blocklist, or one with nothing to block.
FilterPolicy == {"none", "audit", "block", "allow only"}

Compose(full, earning, policy, hosts) ==
  CASE full ->
         [pf |-> Plain("full"), dns |-> Off]
    [] ~full /\ earning /\ policy = "none" ->
         [pf |-> Setting("static", hosts), dns |-> Off]
    [] ~full /\ earning /\ policy = "audit" ->
         [pf |-> Setting("static", hosts), dns |-> Plain("audit")]
    [] ~full /\ earning /\ policy \in {"block", "allow only"} ->
         [pf |-> Setting("table", hosts), dns |-> Setting("allow", hosts)]
    [] ~full /\ ~earning /\ policy = "audit" ->
         [pf |-> Plain("open"), dns |-> Plain("audit")]
    [] ~full /\ ~earning /\ policy = "block" ->
         [pf |-> Plain("lock"), dns |-> Setting("block", hosts)]
    [] OTHER -> Open

\* Mutants: a filter that cannot listen leaves the child open, or stays engaged.
FallbackOpen(d) == Open
FallbackHalf(d) == [d EXCEPT !.pf = IF d.pf.kind = "table"
                                    THEN Setting("static", d.pf.hosts) ELSE @]

\* The filter could not bind its port: gate by address instead.
Fallback(d) ==
  [pf  |-> CASE d.pf.kind = "table" -> Setting("static", d.pf.hosts)
             [] d.pf.kind = "lock"  -> Plain("open")
             [] OTHER               -> d.pf,
   dns |-> Off]

UsesUpstreams(p) == p.kind \in {"table", "lock"}

-----------------------------------------------------------------------------
(* Initial state: a Mac that was never redirected, the daemon just started *)

Init ==
  /\ network \in Network
  /\ reason = "none"
  /\ desired = Open
  /\ engaged = Open
  /\ anchor = [pf |-> Plain("open"), ups |-> NoNetwork]
  /\ loadedUps = NoNetwork
  /\ pfFailed = FALSE
  /\ listening = FALSE
  /\ mode = Off
  /\ ups = NoNetwork
  /\ dns = [s \in Service |-> "own"]
  /\ saved = NoFile
  /\ phase = "idle"
  /\ todo = {}
  /\ crashes = 0

-----------------------------------------------------------------------------
(* The world: another network, a daemon that dies, a Mac that reboots *)

Roam ==
  /\ network' \in Network \ {network}
  /\ UNCHANGED <<reason, desired, engaged, pf, filter, resolver, phase, crashes>>

\* Quarantine::new: a file left by a previous instance is restored from first.
StartIdle  == "idle"                                           \* mutant
StartPhase == IF saved.there THEN "recover" ELSE "idle"

\* The settings Quarantine::new puts back: none without a file, none from a
\* file that does not parse.
StartOver ==
  /\ crashes < MaxCrashes
  /\ crashes' = crashes + 1
  /\ reason' = "none"
  /\ desired' = Open
  /\ engaged' = Open
  /\ loadedUps' = NoNetwork
  /\ listening' = FALSE
  /\ mode' = Off
  /\ ups' = NoNetwork
  /\ phase' = StartPhase
  /\ todo' = DOMAIN saved.of
  /\ UNCHANGED <<network, dns, saved, pfFailed>>

\* launchd starts the daemon again (a crash, a kill, the exit that follows an
\* app update): the kernel still holds the anchor.
Crash  == StartOver /\ UNCHANGED anchor

\* The Mac reboots: the anchor is gone, the resolver settings are not.
Reboot == StartOver /\ anchor' = [pf |-> Plain("open"), ups |-> NoNetwork]

-----------------------------------------------------------------------------
(* One watchdog tick *)

\* Decide, compose and publish.
Watch ==
  /\ phase = "idle"
  /\ \E full, earning \in BOOLEAN, policy \in FilterPolicy, hosts \in Lists :
       /\ ~(full /\ earning)     \* tick returns None under a full block
       /\ desired' = Compose(full, earning, policy, hosts)
       /\ reason' = CASE full -> "full" [] earning -> "earning" [] OTHER -> "none"
  /\ phase' = "filter"
  /\ UNCHANGED <<engaged, pf, filter, resolver, world>>

\* Mutant: set_mode's result is not looked at.
AfterBindAnyway(bound) == IF engaged.dns = Off THEN "engage" ELSE "upstreams"
AfterBind(bound) ==
  IF ~bound THEN "anchor" ELSE IF engaged.dns = Off THEN "engage" ELSE "upstreams"

\* DNS first, so that the filter answers before pf pins port 53.  The mode is
\* written even if the port cannot be bound.
SwitchFilter ==
  /\ phase = "filter"
  /\ \/ /\ desired.dns = Off
        /\ phase' = "anchor"
        /\ UNCHANGED <<desired, listening, mode>>
     \/ /\ desired.dns # Off /\ desired.dns = engaged.dns
        /\ phase' = "upstreams"
        /\ UNCHANGED <<desired, listening, mode>>
     \/ /\ desired.dns # Off /\ desired.dns # engaged.dns
        /\ mode' = desired.dns
        /\ listening' \in {TRUE, listening}
        /\ desired' = IF listening' THEN desired ELSE Fallback(desired)
        /\ phase' = AfterBind(listening')
  /\ UNCHANGED <<reason, engaged, pf, ups, resolver, world>>

\* engage(): nothing to do if already redirected, or if networksetup lists no
\* service; otherwise the file is opened, then holds the settings.
OpenSaved ==
  /\ phase = "engage"
  /\ \/ /\ phase' = "upstreams"            \* already engaged, or nothing listed
        /\ UNCHANGED saved
     \/ /\ ~saved.there
        /\ saved' = TornFile
        /\ phase' = "save"
  /\ UNCHANGED <<reason, desired, engaged, pf, filter, dns, todo, world>>

WriteSaved ==
  /\ phase = "save"
  /\ saved' = [there |-> TRUE, of |-> dns]
  /\ todo' = Service
  /\ phase' = "redirect"
  /\ UNCHANGED <<reason, desired, engaged, pf, filter, dns, world>>

\* networksetup may fail for a service, which then keeps its own resolver.
Redirect ==
  /\ phase = "redirect"
  /\ \/ \E s \in todo, ok \in BOOLEAN :
          /\ dns' = IF ok THEN [dns EXCEPT ![s] = "loopback"] ELSE dns
          /\ todo' = todo \ {s}
          /\ UNCHANGED phase
     \/ /\ todo = {}
        /\ phase' = "upstreams"
        /\ UNCHANGED <<dns, todo>>
  /\ UNCHANGED <<reason, desired, engaged, pf, filter, saved, world>>

SetUpstreams ==
  /\ phase = "upstreams"
  /\ ups' = network
  /\ phase' = "anchor"
  /\ UNCHANGED <<reason, desired, engaged, pf, listening, mode, resolver, world>>

\* Mutants: moved upstreams, or other hosts, do not reload the ruleset.
PfChangedNoUpstreams == desired.pf # engaged.pf
PfChangedKind ==
  \/ desired.pf.kind # engaged.pf.kind
  \/ UsesUpstreams(desired.pf) /\ ups # loadedUps
PfChanged ==
  \/ desired.pf # engaged.pf
  \/ UsesUpstreams(desired.pf) /\ ups # loadedUps

\* release_pf forgets the upstreams even if the flush fails; load_pf keeps
\* everything when the load fails.
ChangeAnchor ==
  /\ phase = "anchor"
  /\ \/ /\ ~PfChanged
        /\ UNCHANGED pf
     \/ /\ PfChanged /\ desired.pf.kind = "open"
        /\ loadedUps' = NoNetwork
        /\ pfFailed' \in BOOLEAN
        /\ anchor' = IF pfFailed' THEN anchor
                     ELSE [pf |-> desired.pf, ups |-> NoNetwork]
     \/ /\ PfChanged /\ desired.pf.kind # "open"
        /\ pfFailed' \in BOOLEAN
        /\ anchor' = IF pfFailed' THEN anchor ELSE [pf |-> desired.pf, ups |-> ups]
        /\ loadedUps' = IF pfFailed' THEN loadedUps ELSE ups
  /\ phase' = IF desired.dns = Off /\ engaged.dns # Off THEN "restore" ELSE "commit"
  /\ todo' = IF phase' = "restore" THEN DOMAIN saved.of ELSE todo
  /\ UNCHANGED <<reason, desired, engaged, filter, dns, saved, world>>

\* restore(), on the way out of apply or when the daemon starts.
PutBack ==
  /\ phase \in {"restore", "recover"}
  /\ \E s \in todo, ok \in BOOLEAN :
       /\ ok \/ RestoreMayFail
       /\ dns' = IF ok THEN [dns EXCEPT ![s] = saved.of[s]] ELSE dns
       /\ todo' = todo \ {s}
  /\ UNCHANGED <<reason, desired, engaged, pf, filter, saved, phase, world>>

\* Mutant: the file is removed before every service has its resolver back.
ForgetSavedEarly ==
  /\ phase \in {"restore", "recover"}
  /\ saved' = NoFile
  /\ mode' = IF phase = "restore" THEN Off ELSE mode
  /\ phase' = IF phase = "restore" THEN "commit" ELSE "idle"
  /\ UNCHANGED <<reason, desired, engaged, pf, listening, ups, dns, todo, world>>

ForgetSaved ==
  /\ phase \in {"restore", "recover"}
  /\ todo = {}
  /\ saved' = NoFile
  /\ mode' = IF phase = "restore" THEN Off ELSE mode
  /\ phase' = IF phase = "restore" THEN "commit" ELSE "idle"
  /\ UNCHANGED <<reason, desired, engaged, pf, listening, ups, dns, todo, world>>

\* engaged is what was wanted, whether or not pfctl did it.
Commit ==
  /\ phase = "commit"
  /\ engaged' = desired
  /\ phase' = "idle"
  /\ UNCHANGED <<reason, desired, pf, filter, resolver, world>>

Tick == \/ Watch \/ SwitchFilter \/ OpenSaved \/ WriteSaved \/ Redirect
        \/ SetUpstreams \/ ChangeAnchor \/ PutBack \/ ForgetSaved \/ Commit

Next == Tick \/ Roam \/ Crash \/ Reboot

Spec == Init /\ [][Next]_vars

\* The watchdog thread keeps running.
FairSpec == Spec /\ WF_vars(Tick)

-----------------------------------------------------------------------------
(* Properties *)

PfKinds  == {"open", "full", "static", "table", "lock"}
DnsKinds == {"off", "audit", "block", "allow"}
PfSetting  == [kind: PfKinds, hosts: Lists \union {NoHosts}]
DnsSetting == [kind: DnsKinds, hosts: Lists \union {NoHosts}]
Upstreams  == Network \union {NoNetwork}

\* Pairs that make sense together: a table is fed by the filter in allow mode
\* with the same hosts, a DNS lock needs the filter in block mode.
Coherent(d) ==
  /\ d.pf.kind = "table" <=> d.dns.kind = "allow"
  /\ d.pf.kind = "lock"  <=> d.dns.kind = "block"
  /\ d.pf.kind = "table" => d.pf.hosts = d.dns.hosts

\* Type invariant; what is desired or engaged is a coherent pair.
TypeOK ==
  /\ network \in Network
  /\ reason \in {"none", "full", "earning"}
  /\ desired \in [pf: PfSetting, dns: DnsSetting] /\ Coherent(desired)
  /\ engaged \in [pf: PfSetting, dns: DnsSetting] /\ Coherent(engaged)
  /\ anchor \in [pf: PfSetting, ups: Upstreams]
  /\ loadedUps \in Upstreams /\ ups \in Upstreams
  /\ pfFailed \in BOOLEAN /\ listening \in BOOLEAN
  /\ mode \in DnsSetting
  /\ dns \in [Service -> {"own", "loopback"}]
  /\ saved.there \in BOOLEAN
  /\ saved.of \in [Service -> {"own"}] \/ DOMAIN saved.of = {}
  /\ phase \in {"idle", "filter", "engage", "save", "redirect", "upstreams", "anchor",
                "restore", "recover", "commit"}
  /\ todo \subseteq Service
  /\ crashes \in 0..MaxCrashes

Blocking(a) == a.pf.kind \in {"full", "static", "table"}

\* While the daemon runs and has finished starting, a service whose resolver
\* is the loopback address finds the filter there, in a mode of its own: the
\* filter listens before the redirect and is switched off after the restore.
\* (apply, engage, restore, Quarantine::new)
NoDeadResolver ==
  phase # "recover" =>
    \A s \in Service : dns[s] = "loopback" => listening /\ mode # Off

\* At every instant, a crash included, the original resolver of a redirected
\* service is in the saved file, and no loopback address ever is.
\* (engage writes the file before it redirects, restore removes it last)
OriginalsKept ==
  \A s \in Service :
    dns[s] = "loopback" => /\ saved.there
                           /\ s \in DOMAIN saved.of /\ saved.of[s] = "own"

\* Between ticks, a published reason is enforced by the anchor, and the earning
\* table is fed by a filter in allow mode with the hosts pf was loaded for,
\* whatever the filter's start, roaming and crashes did, unless pfctl failed.
\* (apply, want_full's callers)
ReasonIsEnforced ==
  phase = "idle" /\ ~pfFailed =>
    /\ reason = "full" => anchor.pf.kind = "full"
    /\ reason = "earning" =>
         \/ anchor.pf.kind = "static"
         \/ /\ anchor.pf.kind = "table"
            /\ listening /\ mode = Setting("allow", anchor.pf.hosts)

\* Between ticks, a ruleset that lets port 53 through to certain upstreams only
\* names those the filter forwards to, or every lookup would be dropped.
\* (set_upstreams, load_pf, the reload after a network switch)
PinnedToForwarder ==
  phase = "idle" /\ ~pfFailed /\ UsesUpstreams(engaged.pf) => anchor.ups = ups

\* The anchor goes from blocking to open only when no reason is published: no
\* tick between two kinds of block, no fallback and no recovery lets go.
\* (compose, the fallback in apply)
NoGap ==
  [][Blocking(anchor) /\ ~Blocking(anchor') => reason' = "none"]_vars

\* A Mac left pointing at a filter that died gets its own resolvers back.
\* (SystemDns::is_engaged in Quarantine::new)
ResolverComesBack ==
  (\E s \in Service : dns[s] = "loopback" /\ ~listening)
    ~> (\A s \in Service : dns[s] = "own" \/ listening)

\* docs/managed-mode.md: the quarantine is "Released automatically when health
\* returns"; docs/lockdown-reasons.md: reason "none" is "open".
NoReasonMeansOpen ==
  phase = "idle" /\ ~pfFailed /\ reason = "none" => ~Blocking(anchor)

=============================================================================
