-------------------------- MODULE EnvelopeCustody --------------------------
(***************************************************************************)
(* How betamacsd takes custody of a signed artifact (apply_envelope,         *)
(* apply_tasks_envelope, apply_grants_envelope) and how the agent follows    *)
(* the configuration (load_managed, spawn_managed_watch).                    *)
(*                                                                          *)
(* Every client connection has a thread of its own and the handlers take no  *)
(* lock, so each file operation is an action: read the epoch high-water and  *)
(* verify, compare generations, write the temporary file, rename it over the *)
(* artifact, then write the other files one after the other.  fs::write      *)
(* truncates and then writes: in between, and after a crash there, the file  *)
(* is torn.  A temporary file keeps its identity when it is renamed, so a    *)
(* handler that still has it open goes on writing into the artifact.         *)
(*                                                                          *)
(* Abstractions.  An envelope is its epoch (0 when the manifest has none),   *)
(* its authoredAt and whether it carries a chore PIN; signatures are valid   *)
(* and the author key is pinned (pure checks made before anything is         *)
(* touched).  The two steps on chore-pin.tmp are one.  An mtime is the flag  *)
(* changed: envelope.json was touched since the watcher last looked.         *)
(***************************************************************************)
EXTENDS Naturals

CONSTANTS
  Handler,        \* concurrent client threads
  Envelopes,      \* the envelopes that may arrive, in any order, repeatedly
  MaxDeliveries,  \* bound on deliveries
  MaxCrashes,     \* bound on crashes of the daemon
  MaxStarts       \* bound on starts of the agent

Kinds == {"config", "tasks", "grants"}

Content  == [epoch: Nat, authored: Nat, pin: BOOLEAN, whole: BOOLEAN]
Envelope == {e \in Content : e.whole}

Absent == [epoch |-> 0, authored |-> 0, pin |-> FALSE, whole |-> TRUE]
Torn   == [epoch |-> 0, authored |-> 0, pin |-> FALSE, whole |-> FALSE]

ASSUME EnvelopeAssumption ==
  /\ Envelopes \subseteq Envelope \ {Absent}
  /\ MaxDeliveries \in Nat /\ MaxCrashes \in Nat /\ MaxStarts \in Nat

VARIABLES
  kind,      \* which artifact this instance is about
  tmp,       \* package.json.tmp, tasks.json.tmp or grants.json.tmp
  artifact,  \* package.json, tasks.json or grants.json
  pinFile,   \* chore-pin: the envelope whose PIN it holds
  file,      \* envelope.json, epoch and authored, by name
  h,         \* the handlers
  acked,     \* history: newest generation acknowledged to a client
  tore,      \* history: a crash left a high-water torn
  agent,     \* the agent: what it applied, and its watcher
  changed,   \* envelope.json was touched since the watcher took its mtime
  missed,    \* history: it was touched between load_managed and the watcher
  deliveries, crashes, starts

vars == <<kind, tmp, artifact, pinFile, file, h, acked, tore, agent, changed, missed,
          deliveries, crashes, starts>>

disk    == <<tmp, artifact, pinFile, file>>
watcher == <<agent, changed, missed, starts>>

Waiting == [pc |-> "waiting", env |-> Absent, open |-> "nothing", cut |-> FALSE]
Stopped == [pc |-> "stopped", applied |-> Absent, loaded |-> Absent]

-----------------------------------------------------------------------------
Init ==
  /\ kind \in Kinds
  /\ tmp = Absent /\ artifact = Absent /\ pinFile = Absent
  /\ file = [f \in {"envelope", "epoch", "authored"} |-> Absent]
  /\ h = [t \in Handler |-> Waiting]
  /\ acked = 0
  /\ tore = FALSE
  /\ agent = Stopped
  /\ changed = FALSE
  /\ missed = FALSE
  /\ deliveries = 0 /\ crashes = 0 /\ starts = 0

At(t, pc) == h[t].pc = pc

Goto(t, pc) == h' = [h EXCEPT ![t].pc = pc]

\* Mutant: only the place in the handler is reset.
FinishOnly(t) == Goto(t, "waiting")

Finish(t) == h' = [h EXCEPT ![t] = Waiting]

\* The order of the steps: the artifact first, the high-waters last.
After(pc) ==
  CASE pc = "generation" -> IF kind = "tasks" THEN "pin" ELSE "open"
    [] pc = "pin"        -> "open"
    [] pc = "rename"     -> IF kind = "config" THEN "envelope" ELSE "epoch"
    [] pc = "envelope"   -> "epoch"
    [] pc = "epoch"      -> "authored"
    [] pc = "authored"   -> "waiting"

-----------------------------------------------------------------------------
(* The handlers *)

\* Mutant: the manifest's epoch is taken as it is.
VerifiedAsIs(e) == e

\* What verify returns: an epoch that never lowers the high-water.
Verified(e) ==
  [e EXCEPT !.epoch = IF @ < file["epoch"].epoch THEN file["epoch"].epoch ELSE @]

\* A line arrives; verify refuses an epoch below the high-water.
Receive(t) ==
  /\ At(t, "waiting")
  /\ deliveries < MaxDeliveries
  /\ deliveries' = deliveries + 1
  /\ \E e \in Envelopes :
       h' = IF e.epoch # 0 /\ e.epoch < file["epoch"].epoch THEN h
            ELSE [h EXCEPT ![t].pc = "generation", ![t].env = Verified(e)]
  /\ UNCHANGED <<kind, disk, acked, tore, watcher, crashes>>

\* Mutant: the generation is not compared.
GenerationUnchecked(t) ==
  /\ At(t, "generation")
  /\ Goto(t, After("generation"))
  /\ UNCHANGED <<kind, disk, acked, tore, watcher, deliveries, crashes>>

\* check_generation refuses an authoredAt before the accepted one.
Generation(t) ==
  /\ At(t, "generation")
  /\ IF h[t].env.authored < file["authored"].authored
     THEN Finish(t)
     ELSE Goto(t, After("generation"))
  /\ UNCHANGED <<kind, disk, acked, tore, watcher, deliveries, crashes>>

\* install_bank: chore-pin is replaced, or removed, before the bank.
SetPin(t) ==
  /\ At(t, "pin")
  /\ pinFile' = IF h[t].env.pin THEN h[t].env ELSE Absent
  /\ Goto(t, After("pin"))
  /\ UNCHANGED <<kind, tmp, artifact, file, acked, tore, watcher, deliveries, crashes>>

OpenTmp(t) ==
  /\ At(t, "open")
  /\ tmp' = Torn
  /\ h' = [h EXCEPT ![t].pc = "fill", ![t].open = "tmp"]
  /\ UNCHANGED <<kind, artifact, pinFile, file, acked, tore, watcher, deliveries, crashes>>

\* The bytes go where the open file is by now: still the temporary file, the
\* artifact if another handler renamed it, or nowhere if that was replaced.
FillTmp(t) ==
  /\ At(t, "fill")
  /\ tmp' = IF h[t].open = "tmp" THEN h[t].env ELSE tmp
  /\ artifact' = IF h[t].open = "artifact" THEN h[t].env ELSE artifact
  /\ h' = [h EXCEPT ![t].pc = "rename", ![t].open = "nothing"]
  /\ UNCHANGED <<kind, pinFile, file, acked, tore, watcher, deliveries, crashes>>

\* What a handler has open after the temporary file became the artifact.
Moved(open) == CASE open = "tmp" -> "artifact" [] OTHER -> "nothing"

\* rename fails if another handler's rename took the file.
Rename(t) ==
  /\ At(t, "rename")
  /\ IF tmp = Absent
     THEN Finish(t) /\ UNCHANGED <<tmp, artifact>>
     ELSE /\ artifact' = tmp
          /\ tmp' = Absent
          /\ h' = [u \in Handler |->
                     IF u = t THEN [h[u] EXCEPT !.pc = After("rename")]
                     ELSE [h[u] EXCEPT !.open = Moved(@)]]
  /\ UNCHANGED <<kind, pinFile, file, acked, tore, watcher, deliveries, crashes>>

\* fs::write of envelope.json, epoch and authored.
Truncate(t, f) ==
  /\ At(t, f) /\ ~h[t].cut
  /\ file' = [file EXCEPT ![f] = Torn]
  /\ h' = [h EXCEPT ![t].cut = TRUE]
  /\ changed' = (changed \/ f = "envelope")
  /\ missed' = (missed \/ (f = "envelope" /\ agent.pc = "loaded"))
  /\ UNCHANGED <<kind, tmp, artifact, pinFile, acked, tore, agent, starts, deliveries,
                 crashes>>

\* The reply follows the last file.
Fill(t, f) ==
  /\ At(t, f) /\ h[t].cut
  /\ file' = [file EXCEPT ![f] = h[t].env]
  /\ IF After(f) = "waiting"
     THEN /\ Finish(t)
          /\ acked' = IF h[t].env.authored > acked THEN h[t].env.authored ELSE acked
     ELSE /\ h' = [h EXCEPT ![t].pc = After(f), ![t].cut = FALSE]
          /\ UNCHANGED acked
  /\ changed' = (changed \/ f = "envelope")
  /\ missed' = (missed \/ (f = "envelope" /\ agent.pc = "loaded"))
  /\ UNCHANGED <<kind, tmp, artifact, pinFile, tore, agent, starts, deliveries, crashes>>

HandlerStep(t) ==
  \/ Generation(t) \/ SetPin(t) \/ OpenTmp(t) \/ FillTmp(t) \/ Rename(t)
  \/ \E f \in {"envelope", "epoch", "authored"} : Truncate(t, f) \/ Fill(t, f)

\* The daemon dies with its handlers; the files stay as they are.
Crash ==
  /\ crashes < MaxCrashes
  /\ crashes' = crashes + 1
  /\ h' = [t \in Handler |-> Waiting]
  /\ tore' = (tore \/ ~file["epoch"].whole \/ ~file["authored"].whole)
  /\ UNCHANGED <<kind, disk, acked, watcher, deliveries>>

-----------------------------------------------------------------------------
(* The agent, for a configuration *)

\* run: load the persisted envelope, or fall back to the built-in defaults;
\* the watcher takes the mtime only later.
AgentStart ==
  /\ kind = "config"
  /\ starts < MaxStarts
  /\ starts' = starts + 1
  /\ agent' = [pc |-> "loaded",
               applied |-> IF file["envelope"].whole THEN file["envelope"] ELSE Absent,
               loaded |-> Absent]
  /\ missed' = FALSE
  /\ UNCHANGED <<kind, disk, h, acked, tore, changed, deliveries, crashes>>

AgentWatch ==
  /\ agent.pc = "loaded"
  /\ agent' = [agent EXCEPT !.pc = "watching"]
  /\ changed' = FALSE
  /\ UNCHANGED <<kind, disk, h, acked, tore, missed, starts, deliveries, crashes>>

\* The new mtime is remembered before the envelope is read.
AgentPoll ==
  /\ agent.pc = "watching" /\ changed
  /\ agent' = [agent EXCEPT !.pc = "reading"]
  /\ changed' = FALSE
  /\ missed' = FALSE
  /\ UNCHANGED <<kind, disk, h, acked, tore, starts, deliveries, crashes>>

\* load_managed; a torn envelope is rejected and what was applied stays.
AgentRead ==
  /\ agent.pc = "reading"
  /\ agent' = IF file["envelope"].whole
              THEN [agent EXCEPT !.pc = "applying", !.loaded = file["envelope"]]
              ELSE [agent EXCEPT !.pc = "watching"]
  /\ UNCHANGED <<kind, disk, h, acked, tore, changed, missed, starts, deliveries, crashes>>

\* Mutant: the mtime is remembered only once the envelope has been applied.
AgentApplyThenStat ==
  /\ agent.pc = "applying"
  /\ agent' = [agent EXCEPT !.pc = "watching", !.applied = agent.loaded]
  /\ changed' = FALSE
  /\ UNCHANGED <<kind, disk, h, acked, tore, missed, starts, deliveries, crashes>>

AgentApply ==
  /\ agent.pc = "applying"
  /\ agent' = [agent EXCEPT !.pc = "watching", !.applied = agent.loaded]
  /\ UNCHANGED <<kind, disk, h, acked, tore, changed, missed, starts, deliveries, crashes>>

AgentStep == AgentWatch \/ AgentPoll \/ AgentRead \/ AgentApply

Next ==
  \/ \E t \in Handler : Receive(t) \/ HandlerStep(t)
  \/ Crash \/ AgentStart \/ AgentStep

Spec == Init /\ [][Next]_vars

-----------------------------------------------------------------------------
(* Properties *)

\* Type invariant.
TypeOK ==
  /\ kind \in Kinds
  /\ {tmp, artifact, pinFile} \subseteq Content
  /\ file \in [{"envelope", "epoch", "authored"} -> Content]
  /\ \A t \in Handler :
       /\ h[t].pc \in {"waiting", "generation", "pin", "open", "fill", "rename",
                       "envelope", "epoch", "authored"}
       /\ h[t].env \in Envelope
       /\ h[t].open \in {"nothing", "tmp", "artifact"}
       /\ h[t].open # "nothing" => At(t, "fill")
       /\ h[t].cut \in BOOLEAN
       /\ h[t].cut => h[t].pc \in DOMAIN file
  /\ acked \in Nat /\ tore \in BOOLEAN /\ changed \in BOOLEAN /\ missed \in BOOLEAN
  /\ agent.pc \in {"stopped", "loaded", "watching", "reading", "applying"}
  /\ {agent.applied, agent.loaded} \subseteq Envelope

\* The artifact is never partly written, and a crash never leaves the epoch or
\* the generation high-water ahead of it. (apply_envelope's comment)
NeverAhead ==
  /\ artifact.whole
  /\ file["epoch"].epoch <= artifact.epoch
  /\ file["authored"].authored <= artifact.authored

\* A generation acknowledged to a client is never replaced by an older one,
\* whatever is delivered again or out of order and wherever the daemon dies,
\* unless it died while a high-water was half written.
\* (verify's epoch check, check_generation, the order of the writes)
AckedStays == ~tore => artifact.authored >= acked

\* The PIN in force is never that of a bank older than the newest one
\* acknowledged. (install_bank: an old PIN never outlives the bank that set it)
OldPinIsGone == ~tore /\ pinFile # Absent => pinFile.authored >= acked

\* Between deliveries and without crashes, everything on disk is of one
\* envelope. (the order of the writes)
Idle == \A t \in Handler : At(t, "waiting")

OneEnvelope ==
  Idle /\ crashes = 0 =>
    /\ file["epoch"] = artifact /\ file["authored"] = artifact
    /\ kind = "config" => file["envelope"] = artifact
    /\ kind = "tasks" => pinFile = IF artifact.pin THEN artifact ELSE Absent

\* What is accepted stays, none older comes in its place, and what is on disk
\* belongs together: the four above.
CustodyIsSound == NeverAhead /\ AckedStays /\ OldPinIsGone /\ OneEnvelope

\* What the daemon promises: see Custody.
Abstract == INSTANCE Custody WITH
  held    <- [epoch |-> artifact.epoch, authored |-> artifact.authored],
  promise <- [epoch |-> file["epoch"].epoch, authored |-> file["authored"].authored]

ImplementsCustody == Abstract!Spec

\* A running agent that is behind envelope.json catches up, if the file was
\* not rewritten between its start and its watcher's. (spawn_managed_watch)
Behind == /\ agent.pc # "stopped"
          /\ file["envelope"].whole /\ agent.applied # file["envelope"]

AgentFollows == Behind /\ ~missed ~> ~Behind

\* betamacsd.rs: "reject an author-signed artifact whose authoredAt is older
\* than the last accepted one".
AcceptedStays == artifact.whole => artifact.authored >= acked

=============================================================================
