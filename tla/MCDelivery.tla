----------------------------- MODULE MCDelivery -----------------------------
(***************************************************************************)
(* Small instances of what brings something new to a Mac, composed: custody  *)
(* of signed envelopes, their verification, updates of the app, and settings *)
(* over the local API.  Each is a part that keeps to files of its own; one   *)
(* part takes place, and the others stay in one of their initial states.     *)
(*                                                                          *)
(* Custody: one connection at a time, three generations, of which the oldest *)
(* was also uploaded again later under the newest epoch, and one envelope    *)
(* without an epoch.  Verification: a chain over an intermediate CA that     *)
(* expires first, a leaf that expires the day after, and certificates that   *)
(* must not count.  Settings: every way to layer two configurations.         *)
(***************************************************************************)
EXTENDS EnvelopeCustody, Verification, Installation, SettingsPackage

CONSTANTS t1

VARIABLE part   \* the part that takes place

Parts == {"custody", "verify", "install", "settings"}

deliveryVars == <<part, vars, verifyVars, installVars, settingsVars>>

-----------------------------------------------------------------------------
(* The instances *)

OneHandler == {t1}

Env(epoch, authored, pin) ==
  [epoch |-> epoch, authored |-> authored, pin |-> pin, whole |-> TRUE]

MCEnvelopes == {Env(1, 1, TRUE), Env(2, 2, FALSE), Env(3, 3, TRUE), Env(3, 1, TRUE),
                Env(0, 2, TRUE)}

Says(subject, issuer, signer, ca, codeSigning, until) ==
  [subject |-> subject, issuer |-> issuer, signer |-> signer, ca |-> ca,
   codeSigning |-> codeSigning, from |-> 0, until |-> until]

MCCert == [c \in Certificate |->
  CASE c = "root"   -> Says("R", "R", "root", TRUE, FALSE, 9)
    [] c = "mid"    -> Says("M", "R", "root", TRUE, FALSE, 2)
    [] c = "leaf"   -> Says("L", "M", "mid", FALSE, TRUE, 9)
    [] c = "short"  -> Says("L", "R", "root", FALSE, TRUE, 1)
    [] c = "issued" -> Says("X", "L", "short", FALSE, TRUE, 9)
    [] c = "plain"  -> Says("P", "R", "root", FALSE, FALSE, 9)
    [] c = "fake"   -> Says("L", "M", "fake", FALSE, TRUE, 9)]

MCRoots == <<"root">>

SignedDoc(leaf, chain, epoch) ==
  [leaf |-> leaf, chain |-> chain, epoch |-> epoch, signed |-> TRUE, bound |-> TRUE,
   ours |-> TRUE, authored |-> TRUE]

MCDoc == [e \in Document |->
  CASE e = "e1"         -> SignedDoc("short", <<>>, 1)
    [] e = "e2"         -> SignedDoc("leaf", <<"mid">>, 2)
    [] e = "e3"         -> SignedDoc("leaf", <<"mid">>, 3)
    [] e = "undated"    -> SignedDoc("leaf", <<"mid">>, NoEpoch)
    [] e = "issued"     -> SignedDoc("issued", <<"short">>, 4)
    [] e = "plain"      -> SignedDoc("plain", <<>>, 4)
    [] e = "fake"       -> SignedDoc("fake", <<"mid">>, 4)
    [] e = "unauthored" -> [SignedDoc("leaf", <<"mid">>, 4) EXCEPT !.authored = FALSE]
    [] e = "alien"      -> [SignedDoc("leaf", <<"mid">>, 4) EXCEPT !.ours = FALSE]
    [] e = "torn"       -> [SignedDoc("leaf", <<"mid">>, 4) EXCEPT !.bound = FALSE]]

MCEpoch == [r \in Release |-> CASE r = "v1" -> 1 [] r = "v2" -> 2 [] OTHER -> 3]
MCTeam  == [r \in Release |-> "team"]

NoPatch == [plain |-> [f \in Field |-> Unset], triggers |-> [c \in Class |-> Unset],
            sets |-> Unset]

PlainTo(v) == [NoPatch EXCEPT !.plain = [f \in Field |-> v]]

MCPatches == {NoPatch,
              [PlainTo(1) EXCEPT !.triggers["x"] = TRUE],
              [PlainTo(2) EXCEPT !.triggers["y"] = TRUE, !.sets = <<"s">>],
              [NoPatch EXCEPT !.triggers["x"] = FALSE, !.sets = <<"t">>]}

Layered(a, b, layers, overrides) ==
  [configs |-> <<[name |-> "a", patch |-> a], [name |-> "b", patch |-> b]>>,
   layers |-> layers, overrides |-> overrides,
   texts |-> <<[name |-> "s", lines |-> <<"l1">>]>>]

MCPackages ==
  {Layered(a, b, layers, overrides) :
     a \in MCPatches, b \in MCPatches,
     layers \in {<<>>, <<"a">>, <<"a", "b">>, <<"b", "a">>, <<"c">>},
     overrides \in {NoPatch, [PlainTo(2) EXCEPT !.sets = <<"s">>]}}

MCDefault == [f \in Field |-> 0]
MCStarter == [configs |-> <<[name |-> "a", patch |-> NoPatch]>>, layers |-> <<>>,
              overrides |-> NoPatch, texts |-> <<>>]

-----------------------------------------------------------------------------
(* A part that does not take place has one initial state. *)

Only(name, one) == part = name \/ one

DeliveryInit ==
  /\ part \in Parts
  /\ Init /\ Only("custody", kind = "config")
  /\ VerifyInit
  /\ InstallInit /\ Only("install", agentPlist = "own" /\ daemonPlist = "own")
  /\ SettingsInit /\ Only("settings", stored = Starter)

DeliveryNext ==
  \/ /\ part = "custody" /\ Next
     /\ UNCHANGED <<part, verifyVars, installVars, settingsVars>>
  \/ /\ part = "verify" /\ VerifyNext
     /\ UNCHANGED <<part, vars, installVars, settingsVars>>
  \/ /\ part = "install" /\ InstallNext
     /\ UNCHANGED <<part, vars, verifyVars, settingsVars>>
  \/ /\ part = "settings" /\ SettingsNext
     /\ UNCHANGED <<part, vars, verifyVars, installVars>>

\* A running agent keeps polling, a handler that has begun goes on unless the
\* daemon dies, a daemon that is to exit does, launchd starts it, and the
\* integrity check is due again and again.
DeliveryFairness ==
  /\ WF_vars(part = "custody" /\ AgentStep)
  /\ \A t \in Handler : WF_vars(part = "custody" /\ HandlerStep(t))
  /\ \A t \in Deliverer : WF_installVars(part = "install" /\ ConnectionStep(t))
  /\ WF_installVars(part = "install" /\ LeaveAfterUpdate)
  /\ WF_installVars(part = "install" /\ RespawnDaemon)
  /\ WF_installVars(part = "install" /\ CheckIntegrity)

DeliverySpec == DeliveryInit /\ [][DeliveryNext]_deliveryVars /\ DeliveryFairness

-----------------------------------------------------------------------------
(* Properties *)

\* Type invariant.
DeliveryTypeOK == TypeOK /\ VerifyTypeOK /\ InstallTypeOK /\ SettingsTypeOK

\* What was delivered takes effect: a running agent follows envelope.json, and the
\* daemon and the agent come to run the app that was installed.
\* (spawn_managed_watch; KeepAlive and check_integrity)
DeliveryTakesEffect == AgentFollows /\ InstalledIsRun

\* The policy in force is one that was signed for this app by keys that were good
\* when it was taken; and without management it is, field by field, what the last
\* package says. (Verifier; Package::resolve)
PolicyInForce == PolicyIsGenuine /\ SettingsInForce
=============================================================================
