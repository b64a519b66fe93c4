-------------------------- MODULE QuarantineProofs --------------------------
(***************************************************************************)
(* Theorems about Quarantine, for any number of network services, networks  *)
(* and host lists and any bound on restarts.  The resolver redirect is never *)
(* left without a filter or without its saved originals, wherever the daemon *)
(* dies, provided networksetup succeeds when the settings are put back; and  *)
(* between ticks what is published is enforced, provided pfctl succeeds.     *)
(***************************************************************************)
EXTENDS Quarantine, TLAPS

Phases == {"idle", "filter", "engage", "save", "redirect", "upstreams", "anchor",
           "restore", "recover", "commit"}

\* The types the argument needs.
ResolverTypes ==
  /\ dns \in [Service -> {"own", "loopback"}]
  /\ todo \subseteq Service
  /\ phase \in Phases
  /\ listening \in BOOLEAN

\* The file is absent, torn, or holds the originals of every service.
SavedForm ==
  \/ saved = NoFile
  \/ saved = TornFile
  \/ saved.there /\ saved.of \in [Service -> {"own"}]

\* What each phase of engage and restore relies on.
EngagePhases ==
  /\ phase \in {"engage", "save", "redirect"} => listening /\ mode # Off
  /\ phase = "save" => saved = TornFile
  /\ phase = "redirect" => saved.there /\ saved.of \in [Service -> {"own"}]
  /\ phase \in {"restore", "recover"} =>
       /\ todo \subseteq DOMAIN saved.of
       /\ \A s \in Service : dns[s] = "loopback" => s \in todo

ResolverInv ==
  ResolverTypes /\ SavedForm /\ EngagePhases /\ OriginalsKept /\ NoDeadResolver

\* What is put back is what was saved, and only services are in the file.
LEMMA SavedDomain ==
  ASSUME SavedForm
  PROVE  /\ DOMAIN saved.of \subseteq Service
         /\ \A s \in DOMAIN saved.of : saved.of[s] = "own"
  BY DEF SavedForm, NoFile, TornFile

LEMMA ResolverInit == Init => ResolverInv
  BY DEF Init, ResolverInv, ResolverTypes, SavedForm, EngagePhases, OriginalsKept,
         NoDeadResolver, Phases

\* A restart keeps the file and starts by restoring from it.
LEMMA ResolverRestart ==
  ASSUME ResolverInv, StartOver
  PROVE  ResolverInv'
<1>1. ResolverTypes'
  BY SavedDomain DEF ResolverInv, ResolverTypes, StartOver, StartPhase, Phases
<1>2. OriginalsKept' /\ SavedForm'
  BY DEF ResolverInv, StartOver, OriginalsKept, SavedForm
<1>3. EngagePhases' /\ NoDeadResolver'
  BY DEF ResolverInv, StartOver, StartPhase, OriginalsKept, EngagePhases,
         NoDeadResolver, ResolverTypes
<1> QED
  BY <1>1, <1>2, <1>3 DEF ResolverInv

\* engage(): the file is complete before the first service is redirected.
LEMMA ResolverEngage ==
  ASSUME ResolverInv, SwitchFilter \/ OpenSaved \/ WriteSaved \/ Redirect
  PROVE  ResolverInv'
<1> USE DEF ResolverInv
<1>1. CASE SwitchFilter
  <2>1. /\ phase = "filter" /\ phase' \in {"anchor", "upstreams", "engage"}
        /\ phase' = "engage" => listening' /\ mode' # Off
        /\ listening' \in BOOLEAN /\ (listening => listening')
        /\ mode' = mode \/ mode' # Off
        /\ UNCHANGED <<dns, saved, todo>>
    BY <1>1 DEF SwitchFilter, AfterBind, ResolverTypes, resolver
  <2> QED
    BY <2>1 DEF ResolverTypes, SavedForm, EngagePhases, OriginalsKept, NoDeadResolver,
                Phases
<1>2. CASE OpenSaved
  <2>1. /\ phase = "engage" /\ phase' \in {"upstreams", "save"}
        /\ UNCHANGED <<dns, todo, listening, mode>>
        /\ \/ saved' = saved /\ phase' = "upstreams"
           \/ ~saved.there /\ saved' = TornFile
    BY <1>2 DEF OpenSaved, filter
  <2>2. OriginalsKept'
    BY <2>1 DEF OriginalsKept, ResolverTypes
  <2> QED
    BY <2>1, <2>2 DEF ResolverTypes, SavedForm, EngagePhases, NoDeadResolver, Phases
<1>3. CASE WriteSaved
  <2>1. /\ phase = "save" /\ phase' = "redirect" /\ todo' = Service
        /\ UNCHANGED <<dns, listening, mode>>
        /\ saved' = [there |-> TRUE, of |-> dns]
    BY <1>3 DEF WriteSaved, filter
  <2>2. dns \in [Service -> {"own"}]
    BY <2>1 DEF EngagePhases, TornFile, OriginalsKept, ResolverTypes
  <2> QED
    BY <2>1, <2>2 DEF ResolverTypes, SavedForm, EngagePhases, OriginalsKept,
                      NoDeadResolver, Phases
<1>4. CASE Redirect
  <2>1. /\ phase = "redirect" /\ phase' \in {"redirect", "upstreams"}
        /\ todo' \subseteq todo
        /\ UNCHANGED <<saved, listening, mode>>
        /\ dns' = dns \/ \E s \in todo : dns' = [dns EXCEPT ![s] = "loopback"]
    BY <1>4 DEF Redirect, filter
  <2>2. dns' \in [Service -> {"own", "loopback"}]
    BY <2>1 DEF ResolverTypes
  <2> QED
    BY <2>1, <2>2 DEF ResolverTypes, SavedForm, EngagePhases, OriginalsKept,
                      NoDeadResolver, Phases
<1> QED
  BY <1>1, <1>2, <1>3, <1>4

\* restore(): a service leaves todo with its own resolver, and the file and
\* the filter go when none is left.
LEMMA ResolverRestore ==
  ASSUME ~RestoreMayFail, ResolverInv, ChangeAnchor \/ PutBack \/ ForgetSaved
  PROVE  ResolverInv'
<1> USE DEF ResolverInv
<1>1. CASE ChangeAnchor
  <2>1. /\ phase = "anchor" /\ phase' \in {"restore", "commit"}
        /\ todo' = IF phase' = "restore" THEN DOMAIN saved.of ELSE todo
        /\ UNCHANGED <<dns, saved, listening, mode>>
    BY <1>1 DEF ChangeAnchor, filter
  <2>2. ResolverTypes'
    BY <2>1, SavedDomain DEF ResolverTypes, Phases
  <2> QED
    BY <2>1, <2>2 DEF SavedForm, EngagePhases, OriginalsKept, NoDeadResolver
<1>2. CASE PutBack
  <2>1. PICK s \in todo :
          /\ dns' = [dns EXCEPT ![s] = saved.of[s]]
          /\ todo' = todo \ {s}
    BY <1>2 DEF PutBack
  <2>2. /\ phase \in {"restore", "recover"}
        /\ UNCHANGED <<saved, phase, listening, mode>>
    BY <1>2 DEF PutBack, filter
  <2>3. saved.of[s] = "own" /\ s \in Service
    BY <2>2, SavedDomain DEF EngagePhases, ResolverTypes
  <2>4. /\ dns' \in [Service -> {"own", "loopback"}]
        /\ dns'[s] = "own"
        /\ \A x \in Service : x # s => dns'[x] = dns[x]
    BY <2>1, <2>3 DEF ResolverTypes
  <2> QED
    BY <2>1, <2>2, <2>4 DEF ResolverTypes, SavedForm, EngagePhases, OriginalsKept,
                            NoDeadResolver
<1>3. CASE ForgetSaved
  <2>1. /\ phase \in {"restore", "recover"} /\ todo = {}
        /\ phase' \in {"commit", "idle"}
        /\ saved' = NoFile
        /\ UNCHANGED <<dns, todo, listening>>
    BY <1>3 DEF ForgetSaved
  <2>2. \A s \in Service : dns[s] # "loopback"
    BY <2>1 DEF EngagePhases
  <2> QED
    BY <2>1, <2>2 DEF ResolverTypes, SavedForm, EngagePhases, OriginalsKept,
                      NoDeadResolver, Phases
<1> QED
  BY <1>1, <1>2, <1>3

LEMMA ResolverStep ==
  ASSUME ~RestoreMayFail, ResolverInv, [Next]_vars
  PROVE  ResolverInv'
<1>1. CASE UNCHANGED vars
  BY <1>1 DEF vars, ResolverInv, ResolverTypes, SavedForm, EngagePhases, OriginalsKept,
              NoDeadResolver
<1>2. CASE Watch \/ SetUpstreams \/ Commit
  <2>1. /\ phase' \in {"filter", "anchor", "idle"}
        /\ phase \in {"idle", "upstreams", "commit"}
        /\ UNCHANGED <<dns, saved, todo, listening, mode>>
    BY <1>2 DEF Watch, SetUpstreams, Commit, filter, resolver
  <2> QED
    BY <2>1 DEF ResolverInv, ResolverTypes, SavedForm, EngagePhases, OriginalsKept,
                NoDeadResolver, Phases
<1>3. CASE Roam
  BY <1>3 DEF Roam, filter, resolver, ResolverInv, ResolverTypes, SavedForm,
              EngagePhases, OriginalsKept, NoDeadResolver
<1>4. CASE Crash \/ Reboot
  BY <1>4, ResolverRestart DEF Crash, Reboot
<1> QED
  BY <1>1, <1>2, <1>3, <1>4, ResolverEngage, ResolverRestore DEF Next, Tick

\* As long as networksetup puts the settings back when asked, a redirected
\* service always finds the filter listening, except while a daemon that has
\* just started is putting the settings back.
THEOREM NoDeadResolverAlways ==
  ASSUME ~RestoreMayFail
  PROVE  Spec => []NoDeadResolver
<1>1. ResolverInv /\ [Next]_vars => ResolverInv'
  BY ResolverStep
<1>2. ResolverInv => NoDeadResolver
  BY DEF ResolverInv
<1> QED
  BY <1>1, <1>2, ResolverInit, PTL DEF Spec

\* Under the same condition, wherever the daemon dies, the original resolver
\* of every redirected service is in the saved file.
THEOREM OriginalsKeptAlways ==
  ASSUME ~RestoreMayFail
  PROVE  Spec => []OriginalsKept
<1>1. ResolverInv /\ [Next]_vars => ResolverInv'
  BY ResolverStep
<1>2. ResolverInv => OriginalsKept
  BY DEF ResolverInv
<1> QED
  BY <1>1, <1>2, ResolverInit, PTL DEF Spec

-----------------------------------------------------------------------------
(* What is enforced between ticks *)

\* A setting that enforces the reason.
Enforces(d) ==
  /\ reason = "full" => d.pf.kind = "full"
  /\ reason = "earning" =>
       \/ d.pf.kind = "static"
       \/ d.pf.kind = "table" /\ d.dns = Setting("allow", d.pf.hosts)

\* Which setting the filter serves, and which the anchor was changed for.
Switched == phase \notin {"idle", "recover", "filter"}
Changed  == phase \in {"restore", "commit"}
Served   == IF Switched THEN desired ELSE engaged
Loaded   == IF Changed THEN desired ELSE engaged

\* A setting with the filter on has it listening in that mode.
FilterServes == Served.dns # Off => listening /\ mode = Served.dns

\* The ruleset in the kernel is the one that was loaded last, for the upstreams
\* it was loaded with; the daemon may have found others since.
AnchorMatches ==
  ~pfFailed =>
    /\ Loaded.pf.kind # "open" => anchor.pf = Loaded.pf
    /\ UsesUpstreams(Loaded.pf) =>
         /\ anchor.ups = loadedUps
         /\ phase # "anchor" => ups = loadedUps

EnforceInv ==
  /\ reason \in {"none", "full", "earning"}
  /\ Enforces(desired)
  /\ phase \in {"idle", "recover"} => engaged = desired
  /\ phase = "restore" => desired.dns = Off
  /\ FilterServes /\ AnchorMatches

LEMMA EnforceInit == Init => EnforceInv
  BY DEF Init, EnforceInv, Enforces, FilterServes, AnchorMatches, Served, Loaded, Switched,
         Changed, Open, Plain, Setting, UsesUpstreams

\* The daemon that starts believes nothing to be engaged and publishes no reason.
LEMMA EnforceRestart ==
  ASSUME EnforceInv, Crash \/ Reboot
  PROVE  EnforceInv'
<1>1. /\ reason' = "none" /\ desired' = Open /\ engaged' = Open
      /\ phase' \in {"idle", "recover"}
  BY DEF Crash, Reboot, StartOver, StartPhase
<1> QED
  BY <1>1 DEF EnforceInv, Enforces, FilterServes, AnchorMatches, Served, Loaded, Switched,
              Changed, Open, Plain, Setting, UsesUpstreams

\* What is composed enforces the reason that is published with it.
LEMMA EnforceWatch ==
  ASSUME EnforceInv, Watch
  PROVE  EnforceInv'
<1>1. PICK full \in BOOLEAN, earning \in BOOLEAN, policy \in FilterPolicy, hosts \in Lists :
        /\ ~(full /\ earning)
        /\ desired' = Compose(full, earning, policy, hosts)
        /\ reason' = CASE full -> "full" [] earning -> "earning" [] OTHER -> "none"
  BY DEF Watch
<1>2. Enforces(desired)'
  <2>1. CASE full
    BY <1>1, <2>1 DEF Enforces, Compose, Plain, Setting
  <2>2. CASE ~full /\ earning
    <3>1. policy \in {"none", "audit", "block", "allow only"}
      BY DEF FilterPolicy
    <3>2. reason' = "earning"
      BY <1>1, <2>2
    <3>3. CASE policy = "none" \/ policy = "audit"
      BY <1>1, <2>2, <3>2, <3>3 DEF Enforces, Compose, Plain, Setting
    <3>4. CASE policy = "block" \/ policy = "allow only"
      <4>1. desired' = [pf |-> Setting("table", hosts), dns |-> Setting("allow", hosts)]
        BY <1>1, <2>2, <3>4 DEF Compose
      <4> QED
        BY <3>2, <4>1 DEF Enforces, Setting
    <3> QED
      BY <3>1, <3>3, <3>4
  <2>3. CASE ~full /\ ~earning
    BY <1>1, <2>3 DEF Enforces
  <2> QED
    BY <2>1, <2>2, <2>3
<1>3. /\ phase = "idle" /\ phase' = "filter"
      /\ UNCHANGED <<engaged, anchor, loadedUps, pfFailed, listening, mode, ups>>
  BY DEF Watch, pf, filter
<1>4. reason' \in {"none", "full", "earning"}
  BY <1>1
<1> QED
  BY <1>2, <1>3, <1>4 DEF EnforceInv, FilterServes, AnchorMatches, Served, Loaded,
                          Switched, Changed, UsesUpstreams

\* The fallback of a filter that cannot listen still enforces the reason.
LEMMA EnforceSwitch ==
  ASSUME EnforceInv, SwitchFilter
  PROVE  EnforceInv'
<1>1. /\ phase = "filter" /\ phase' \in {"anchor", "upstreams", "engage"}
      /\ UNCHANGED <<reason, engaged, anchor, loadedUps, pfFailed, ups>>
  BY DEF SwitchFilter, AfterBind, pf
<1>2. \/ /\ desired.dns = Off \/ desired.dns = engaged.dns
         /\ UNCHANGED <<desired, listening, mode>>
      \/ listening' /\ mode' = desired.dns /\ desired' = desired
      \/ desired' = Fallback(desired)
  BY DEF SwitchFilter
<1>3. Enforces(desired)'
  BY <1>1, <1>2 DEF EnforceInv, Enforces, Fallback, Setting
<1>4. FilterServes'
  BY <1>1, <1>2 DEF EnforceInv, FilterServes, Served, Switched, Fallback
<1>5. AnchorMatches'
  BY <1>1 DEF EnforceInv, AnchorMatches, Loaded, Changed, UsesUpstreams
<1> QED
  BY <1>1, <1>3, <1>4, <1>5 DEF EnforceInv

\* pfctl did what was asked, or the failure is on record.
LEMMA EnforceAnchor ==
  ASSUME EnforceInv, ChangeAnchor
  PROVE  EnforceInv'
<1>1. /\ phase = "anchor" /\ phase' \in {"restore", "commit"}
      /\ phase' = "restore" => desired.dns = Off
      /\ UNCHANGED <<reason, desired, engaged, listening, mode, ups>>
  BY DEF ChangeAnchor, filter
<1>2. AnchorMatches'
  <2>1. CASE ~PfChanged
    BY <1>1, <2>1 DEF ChangeAnchor, pf, PfChanged, EnforceInv, AnchorMatches, Loaded,
                      Changed, UsesUpstreams
  <2>2. CASE PfChanged
    <3>1. ~pfFailed' =>
            \/ desired.pf.kind = "open"
            \/ anchor' = [pf |-> desired.pf, ups |-> ups] /\ loadedUps' = ups
      BY <2>2 DEF ChangeAnchor
    <3> QED
      BY <1>1, <3>1 DEF AnchorMatches, Loaded, Changed, UsesUpstreams
  <2> QED
    BY <2>1, <2>2
<1> QED
  BY <1>1, <1>2 DEF EnforceInv, Enforces, FilterServes, Served, Switched

LEMMA EnforceStep == EnforceInv /\ [Next]_vars => EnforceInv'
<1> SUFFICES ASSUME EnforceInv, [Next]_vars PROVE EnforceInv'
  OBVIOUS
<1> USE DEF EnforceInv, Enforces, FilterServes, AnchorMatches, Served, Loaded, Switched,
            Changed, UsesUpstreams
<1>1. CASE UNCHANGED vars \/ Roam
  BY <1>1 DEF vars, Roam, pf, filter
<1>2. CASE OpenSaved \/ WriteSaved \/ Redirect
  <2>1. /\ phase \in {"engage", "save", "redirect"}
        /\ phase' \in {"save", "redirect", "upstreams"}
        /\ UNCHANGED <<reason, desired, engaged, anchor, loadedUps, pfFailed, listening,
                       mode, ups>>
    BY <1>2 DEF OpenSaved, WriteSaved, Redirect, pf, filter
  <2> QED
    BY <2>1
<1>3. CASE SetUpstreams
  BY <1>3 DEF SetUpstreams, pf
<1>4. CASE PutBack
  BY <1>4 DEF PutBack, pf, filter
<1>5. CASE ForgetSaved
  BY <1>5 DEF ForgetSaved, pf
<1>6. CASE Commit
  BY <1>6 DEF Commit, pf, filter
<1> QED
  BY <1>1, <1>2, <1>3, <1>4, <1>5, <1>6, EnforceRestart, EnforceWatch, EnforceSwitch,
     EnforceAnchor DEF Next, Tick

\* Between ticks a published reason is enforced, unless pfctl failed: by the anchor
\* alone, or by a table and the filter that feeds it with the same hosts.
THEOREM ReasonIsEnforcedAlways == Spec => []ReasonIsEnforced
<1>1. EnforceInv => ReasonIsEnforced
  BY DEF EnforceInv, Enforces, FilterServes, AnchorMatches, Served, Loaded, Switched,
         Changed, ReasonIsEnforced, Setting, Off, Plain
<1> QED
  BY <1>1, EnforceInit, EnforceStep, PTL DEF Spec

\* Between ticks a ruleset that pins port 53 pins it to the upstreams the filter
\* forwards to, whatever networks the Mac has been on, unless pfctl failed.
THEOREM PinnedToForwarderAlways == Spec => []PinnedToForwarder
<1>1. EnforceInv => PinnedToForwarder
  BY DEF EnforceInv, AnchorMatches, Loaded, Changed, PinnedToForwarder, UsesUpstreams
<1> QED
  BY <1>1, EnforceInit, EnforceStep, PTL DEF Spec

\* The anchor stops blocking only when no reason is published, failures of pfctl and
\* restarts included: a reboot clears it, and any ruleset loaded enforces the reason.
THEOREM NoGapAlways == Spec => NoGap
<1>1. EnforceInv /\ [Next]_vars =>
        [Blocking(anchor) /\ ~Blocking(anchor') => reason' = "none"]_vars
  <2> SUFFICES ASSUME EnforceInv, [Next]_vars, Blocking(anchor), ~Blocking(anchor')
               PROVE  reason' = "none"
    OBVIOUS
  <2>1. anchor' # anchor
    BY DEF Blocking
  <2>2. CASE Reboot
    BY <2>2 DEF Reboot, StartOver
  <2>3. CASE ChangeAnchor
    <3>1. reason' = reason /\ anchor'.pf = desired.pf
      BY <2>1, <2>3 DEF ChangeAnchor, pf
    <3> QED
      BY <3>1 DEF EnforceInv, Enforces, Blocking
  <2> QED
    BY <2>1, <2>2, <2>3
    DEF Next, Tick, vars, pf, Roam, Crash, Watch, SwitchFilter, OpenSaved, WriteSaved,
        Redirect, SetUpstreams, PutBack, ForgetSaved, Commit
<1> QED
  BY <1>1, EnforceInit, EnforceStep, PTL DEF Spec, NoGap

-----------------------------------------------------------------------------
(* Types: what is wanted or engaged is a pair that makes sense together *)

Pair(d) == d \in [pf: PfSetting, dns: DnsSetting] /\ Coherent(d)

\* The rest of TypeOK, beside the resolver.
TickTypes ==
  /\ network \in Network
  /\ reason \in {"none", "full", "earning"}
  /\ Pair(desired) /\ Pair(engaged)
  /\ anchor \in [pf: PfSetting, ups: Upstreams]
  /\ loadedUps \in Upstreams /\ ups \in Upstreams
  /\ pfFailed \in BOOLEAN /\ mode \in DnsSetting
  /\ crashes \in 0..MaxCrashes

LEMMA SettingType ==
  /\ \A kind \in PfKinds, hosts \in Lists \union {NoHosts} : Setting(kind, hosts) \in PfSetting
  /\ \A kind \in DnsKinds, hosts \in Lists \union {NoHosts} : Setting(kind, hosts) \in DnsSetting
  BY DEF Setting, PfSetting, DnsSetting

LEMMA PlainPair == \A kind \in {"open", "full"} : Pair([pf |-> Plain(kind), dns |-> Off])
<1> TAKE kind \in {"open", "full"}
<1>1. Plain(kind) \in PfSetting /\ Off \in DnsSetting
  BY SettingType DEF Plain, Off, PfKinds, DnsKinds
<1> QED
  BY <1>1 DEF Pair, Coherent, Plain, Off, Setting

\* Whatever is composed is such a pair, and so is what a filter that cannot
\* listen leaves of one.
LEMMA ComposedPair ==
  ASSUME NEW full \in BOOLEAN, NEW earning \in BOOLEAN, NEW policy \in FilterPolicy,
         NEW hosts \in Lists
  PROVE  Pair(Compose(full, earning, policy, hosts))
<1> DEFINE d == Compose(full, earning, policy, hosts)
<1>1. policy \in {"none", "audit", "block", "allow only"}
  BY DEF FilterPolicy
<1>2. CASE full
  BY <1>2, PlainPair DEF Compose
<1>3. CASE ~full /\ earning /\ policy \in {"none", "audit"}
  <2>1. d = [pf |-> Setting("static", hosts), dns |-> Off]
        \/ d = [pf |-> Setting("static", hosts), dns |-> Plain("audit")]
    BY <1>3 DEF Compose
  <2>2. Setting("static", hosts) \in PfSetting /\ {Off, Plain("audit")} \subseteq DnsSetting
    BY SettingType DEF Plain, Off, PfKinds, DnsKinds
  <2> QED
    BY <2>1, <2>2 DEF Pair, Coherent, Plain, Off, Setting
<1>4. CASE ~full /\ earning /\ policy \in {"block", "allow only"}
  <2>1. d = [pf |-> Setting("table", hosts), dns |-> Setting("allow", hosts)]
    BY <1>4 DEF Compose
  <2>2. Setting("table", hosts) \in PfSetting /\ Setting("allow", hosts) \in DnsSetting
    BY SettingType DEF PfKinds, DnsKinds
  <2> QED
    BY <2>1, <2>2 DEF Pair, Coherent, Setting
<1>5. CASE ~full /\ ~earning /\ policy = "audit"
  <2>1. d = [pf |-> Plain("open"), dns |-> Plain("audit")]
    BY <1>5 DEF Compose
  <2>2. Plain("open") \in PfSetting /\ Plain("audit") \in DnsSetting
    BY SettingType DEF Plain, PfKinds, DnsKinds
  <2> QED
    BY <2>1, <2>2 DEF Pair, Coherent, Plain, Setting
<1>6. CASE ~full /\ ~earning /\ policy = "block"
  <2>1. d = [pf |-> Plain("lock"), dns |-> Setting("block", hosts)]
    BY <1>6 DEF Compose
  <2>2. Plain("lock") \in PfSetting /\ Setting("block", hosts) \in DnsSetting
    BY SettingType DEF Plain, PfKinds, DnsKinds
  <2> QED
    BY <2>1, <2>2 DEF Pair, Coherent, Plain, Setting
<1>7. CASE ~full /\ ~earning /\ policy \in {"none", "allow only"}
  <2>1. d = Open
    BY <1>7 DEF Compose
  <2> QED
    BY <2>1, PlainPair DEF Open
<1> HIDE DEF d
<1> QED
  BY <1>1, <1>2, <1>3, <1>4, <1>5, <1>6, <1>7 DEF d

LEMMA FallbackPair ==
  ASSUME NEW d, Pair(d)
  PROVE  Pair(Fallback(d))
<1>1. d.pf \in PfSetting /\ d.pf.hosts \in Lists \union {NoHosts} /\ d.pf.kind \in PfKinds
  BY DEF Pair, PfSetting
<1>2. /\ Setting("static", d.pf.hosts) \in PfSetting /\ Plain("open") \in PfSetting
      /\ Off \in DnsSetting
  BY <1>1, SettingType DEF Plain, Off, PfKinds, DnsKinds
<1>3. CASE d.pf.kind = "table"
  BY <1>2, <1>3 DEF Fallback, Pair, Coherent, Off, Plain, Setting
<1>4. CASE d.pf.kind = "lock"
  BY <1>2, <1>4 DEF Fallback, Pair, Coherent, Off, Plain, Setting
<1>5. CASE d.pf.kind # "table" /\ d.pf.kind # "lock"
  BY <1>1, <1>2, <1>5 DEF Fallback, Pair, Coherent, Off, Plain, Setting
<1> QED
  BY <1>3, <1>4, <1>5

LEMMA TickTypesAtFirst == Init => TickTypes
<1> SUFFICES ASSUME Init PROVE TickTypes
  OBVIOUS
<1>1. Pair(Open) /\ Off \in DnsSetting /\ Plain("open") \in PfSetting
  BY PlainPair, SettingType DEF Open, Off, Plain, PfKinds, DnsKinds
<1>2. crashes \in 0..MaxCrashes
  BY BoundAssumption DEF Init
<1> QED
  BY <1>1, <1>2 DEF Init, TickTypes, Upstreams

LEMMA TickTypesStay ==
  ASSUME TickTypes, [Next]_vars
  PROVE  TickTypes'
<1> USE DEF TickTypes
<1>1. CASE UNCHANGED vars \/ Roam
  BY <1>1 DEF vars, Roam, pf, filter
<1>2. CASE Watch
  <2>1. PICK full \in BOOLEAN, earning \in BOOLEAN, policy \in FilterPolicy, hosts \in Lists :
          /\ desired' = Compose(full, earning, policy, hosts)
          /\ reason' = CASE full -> "full" [] earning -> "earning" [] OTHER -> "none"
    BY <1>2 DEF Watch
  <2>2. Pair(desired') /\ reason' \in {"none", "full", "earning"}
    BY <2>1, ComposedPair
  <2> QED
    BY <1>2, <2>2 DEF Watch, pf, filter, world, Pair, Coherent
<1>3. CASE SwitchFilter
  <2>1. /\ desired' = desired \/ desired' = Fallback(desired)
        /\ mode' = mode \/ mode' = desired.dns
    BY <1>3 DEF SwitchFilter
  <2>2. Pair(desired') /\ mode' \in DnsSetting
    BY <2>1, FallbackPair DEF Pair
  <2> QED
    BY <1>3, <2>2 DEF SwitchFilter, pf, world, Pair, Coherent
<1>4. CASE OpenSaved \/ WriteSaved \/ Redirect \/ PutBack
  BY <1>4 DEF OpenSaved, WriteSaved, Redirect, PutBack, pf, filter, world
<1>5. CASE SetUpstreams
  BY <1>5 DEF SetUpstreams, pf, world, Upstreams
<1>6. CASE ChangeAnchor
  <2>1. /\ loadedUps' \in {NoNetwork, loadedUps, ups} /\ pfFailed' \in BOOLEAN
        /\ \/ anchor' = anchor
           \/ anchor' = [pf |-> desired.pf, ups |-> NoNetwork]
           \/ anchor' = [pf |-> desired.pf, ups |-> ups]
    BY <1>6 DEF ChangeAnchor, pf
  <2>2. /\ anchor' \in [pf: PfSetting, ups: Upstreams] /\ loadedUps' \in Upstreams
    BY <2>1 DEF Pair, Upstreams
  <2> QED
    BY <1>6, <2>1, <2>2 DEF ChangeAnchor, filter, world, Pair, Coherent
<1>7. CASE ForgetSaved
  <2>1. Off \in DnsSetting
    BY SettingType DEF Off, Plain, DnsKinds
  <2>2. mode' \in DnsSetting
    BY <1>7, <2>1 DEF ForgetSaved
  <2> QED
    BY <1>7, <2>2 DEF ForgetSaved, pf, world
<1>8. CASE Commit
  BY <1>8 DEF Commit, pf, filter, world
<1>9. CASE Crash \/ Reboot
  <2>1. /\ Pair(Open) /\ Off \in DnsSetting /\ Plain("open") \in PfSetting
        /\ NoNetwork \in Upstreams
    BY PlainPair, SettingType DEF Open, Off, Plain, PfKinds, DnsKinds, Upstreams
  <2>2. crashes' \in 0..MaxCrashes
    BY <1>9, BoundAssumption DEF Crash, Reboot, StartOver
  <2>3. /\ desired' = Open /\ engaged' = Open /\ mode' = Off /\ reason' = "none"
        /\ ups' = NoNetwork /\ loadedUps' = NoNetwork /\ UNCHANGED <<network, pfFailed>>
    BY <1>9 DEF Crash, Reboot, StartOver
  <2>4. anchor' = anchor \/ anchor' = [pf |-> Plain("open"), ups |-> NoNetwork]
    BY <1>9 DEF Crash, Reboot
  <2> HIDE DEF TickTypes
  <2>5. anchor' \in [pf: PfSetting, ups: Upstreams]
    BY <2>1, <2>4 DEF TickTypes
  <2> QED
    BY <2>1, <2>2, <2>3, <2>5 DEF TickTypes
<1> QED
  BY <1>1, <1>2, <1>3, <1>4, <1>5, <1>6, <1>7, <1>8, <1>9 DEF Next, Tick

\* Under the same condition every variable keeps its type: above all, what apply wants
\* and what it believes to be engaged are pairs that make sense together, after a
\* fallback and a restart too, and no loopback address is ever saved as an original.
THEOREM QuarantineIsTyped ==
  ASSUME ~RestoreMayFail
  PROVE  Spec => []TypeOK
<1>1. ResolverInv /\ TickTypes => TypeOK
  <2> SUFFICES ASSUME ResolverInv, TickTypes PROVE TypeOK
    OBVIOUS
  <2>1. saved.there \in BOOLEAN /\ (saved.of \in [Service -> {"own"}] \/ DOMAIN saved.of = {})
    <3>1. CASE saved = NoFile \/ saved = TornFile
      <4>1. saved.there = FALSE \/ saved.there = TRUE
        BY <3>1 DEF NoFile, TornFile
      <4>2. saved.of = [s \in {} |-> "own"]
        BY <3>1 DEF NoFile, TornFile
      <4>3. DOMAIN saved.of = {}
        BY <4>2
      <4> QED
        BY <4>1, <4>3
    <3>2. CASE saved.there /\ saved.of \in [Service -> {"own"}]
      <4>1. saved.there \in BOOLEAN
        BY <3>2, Zenon
      <4> QED
        BY <3>2, <4>1
    <3> QED
      BY <3>1, <3>2 DEF ResolverInv, SavedForm
  <2> QED
    BY <2>1 DEF TypeOK, TickTypes, ResolverInv, ResolverTypes, Phases, Pair
<1>2. ResolverInv /\ [Next]_vars => ResolverInv'
  BY ResolverStep
<1>3. TickTypes /\ [Next]_vars => TickTypes'
  BY TickTypesStay
<1> QED
  BY <1>1, <1>2, <1>3, ResolverInit, TickTypesAtFirst, PTL DEF Spec
=============================================================================
