--------------------------- MODULE SettingsPackage ---------------------------
(***************************************************************************)
(* The settings of an agent that is not managed (settings.rs Package,        *)
(* server.rs put_package, main.rs run): a package of named configurations,   *)
(* of which some are layers and are applied in order, then the overrides; it *)
(* is edited over the local API, kept in a file that is written in place,    *)
(* and read when the agent starts.                                           *)
(*                                                                          *)
(* Every module has the same kind of fields: plain ones that a patch sets    *)
(* and, in detection, the triggers, which a patch adds to.  The lines drawn  *)
(* on a box are those of the text sets that the censor module names.  The    *)
(* API is served by one thread, so that edits do not interleave.             *)
(***************************************************************************)
EXTENDS Integers, Sequences, SequencesExt, Retaining

CONSTANTS
  Field, Value, Default,    \* plain fields, their values and defaults
  Class,                    \* classes that may trigger; none does by default
  TextSet, Line,            \* names of text sets, and lines
  Name,                     \* names of configurations
  Packages,                 \* the packages that are sent
  Starter,                  \* the package a fresh install begins with
  Unset,                    \* a field that a patch does not touch
  Missing, TornFile         \* a file that is not there, or was not written

VARIABLES
  package, effective,       \* in memory; Missing while the agent is down
  stored,                   \* config/package.json
  editing,                  \* the package a PUT is saving, or Missing
  lastPut,                  \* history: the last package a PUT accepted
  wasTorn                   \* history: a save was cut short

settingsVars == <<package, effective, stored, editing, lastPut, wasTorn>>

Patch == [plain: [Field -> Value \union {Unset}], triggers: [Class -> BOOLEAN \union {Unset}],
          sets: Seq(TextSet) \union {Unset}]

Package == [configs: Seq([name: Name, patch: Patch]), layers: Seq(Name), overrides: Patch,
            texts: Seq([name: TextSet, lines: Seq(Line)])]

ASSUME SettingsAssumption ==
  /\ Default \in [Field -> Value] /\ Unset \notin Value
  /\ Packages \union {Starter} \subseteq Package
  /\ {Missing, TornFile} \intersect (Packages \union {Starter}) = {}

SettingsInit ==
  /\ package = Missing /\ effective = Missing /\ editing = Missing
  /\ stored \in {Missing, Starter} /\ lastPut = Missing /\ wasTorn = FALSE

-----------------------------------------------------------------------------
(* Resolution *)

Or(x, y) == IF x = Unset THEN y ELSE x

\* The first of that name.
Named(list, name) ==
  list[CHOOSE i \in DOMAIN list : /\ list[i].name = name
                                  /\ \A j \in 1..(i - 1) : list[j].name # name]

Defined(list, name) == \E i \in DOMAIN list : list[i].name = name

\* apply
Patched(eff, p) ==
  [plain    |-> [f \in Field |-> Or(p.plain[f], eff.plain[f])],
   triggers |-> [c \in Class |-> Or(p.triggers[c], eff.triggers[c])],
   sets     |-> Or(p.sets, eff.sets)]

Defaults == [plain |-> Default, triggers |-> [c \in Class |-> FALSE], sets |-> <<>>]

\* The layers that are defined, in order.
LayerPatches(p) ==
  LET defined == Retain(p.layers, {name \in Range(p.layers) : Defined(p.configs, name)})
  IN [i \in DOMAIN defined |-> Named(p.configs, defined[i]).patch]

Patches(p) == Append(LayerPatches(p), p.overrides)

\* The lines of the sets that are defined, in order.
Lines(p, sets) ==
  FlattenSeq([i \in DOMAIN sets |->
    IF Defined(p.texts, sets[i]) THEN Named(p.texts, sets[i]).lines ELSE <<>>])

Resolve(p) ==
  LET merged == FoldLeft(Patched, Defaults, Patches(p))
  IN [plain |-> merged.plain, triggers |-> merged.triggers, lines |-> Lines(p, merged.sets)]

-----------------------------------------------------------------------------
(* The agent *)

AgentRuns == package # Missing

\* It saves the starter package if there is none; a file it cannot read stops it.
StartSettings ==
  /\ ~AgentRuns /\ stored # TornFile
  /\ package' = (IF stored = Missing THEN Starter ELSE stored)
  /\ effective' = Resolve(package') /\ stored' = package'
  /\ UNCHANGED <<editing, lastPut, wasTorn>>

\* Layers and text sets that are not defined are refused.
Acceptable(p) ==
  /\ \A i \in DOMAIN p.layers : Defined(p.configs, p.layers[i])
  /\ \A patch \in {p.overrides} \union {p.configs[i].patch : i \in DOMAIN p.configs} :
       patch.sets # Unset => \A i \in DOMAIN patch.sets : Defined(p.texts, patch.sets[i])

\* PUT: the file is opened, and with that truncated;
PutPackage(p) ==
  /\ AgentRuns /\ editing = Missing
  /\ Acceptable(p)
  /\ editing' = p /\ stored' = TornFile
  /\ UNCHANGED <<package, effective, lastPut, wasTorn>>

\* it is written, and only then the package is put into force;
Saved ==
  /\ editing # Missing /\ stored' = editing
  /\ package' = editing /\ effective' = Resolve(editing) /\ lastPut' = editing
  /\ editing' = Missing
  /\ UNCHANGED wasTorn

\* or it cannot be written, and the client is told.
SaveFails ==
  /\ editing # Missing /\ editing' = Missing /\ wasTorn' = TRUE
  /\ UNCHANGED <<package, effective, stored, lastPut>>

\* The agent dies.
StopSettings ==
  /\ AgentRuns
  /\ package' = Missing /\ effective' = Missing /\ editing' = Missing
  /\ wasTorn' = (wasTorn \/ editing # Missing)
  /\ UNCHANGED <<stored, lastPut>>

SettingsNext ==
  \/ StartSettings \/ Saved \/ SaveFails \/ StopSettings
  \/ \E p \in Packages : PutPackage(p)

SettingsSpec == SettingsInit /\ [][SettingsNext]_settingsVars

-----------------------------------------------------------------------------
(* Properties *)

\* Type invariant.
SettingsTypeOK ==
  /\ {package, editing, lastPut} \subseteq Packages \union {Starter, Missing}
  /\ stored \in Packages \union {Starter, Missing, TornFile}
  /\ wasTorn \in BOOLEAN

\* The last word on a field, of the overrides and the layers from the last to
\* the first; reference definition.
LastWord(p, Said(_), default) ==
  LET layers == {i \in DOMAIN p.layers :
                   /\ Defined(p.configs, p.layers[i])
                   /\ Said(Named(p.configs, p.layers[i]).patch) # Unset}
  IN CASE Said(p.overrides) # Unset -> Said(p.overrides)
       [] Said(p.overrides) = Unset /\ layers = {} -> default
       [] OTHER -> Said(Named(p.configs,
                     p.layers[CHOOSE i \in layers : \A j \in layers : j <= i]).patch)

\* The settings in force are, field by field, the last word of the package that
\* is shown to the user, and that is the one accepted last, before and after any
\* restart, unless a save was cut short or refused meanwhile. (Package::resolve;
\* put_package: validate, persist, resolve, apply)
SettingsInForce ==
  AgentRuns =>
    /\ \A f \in Field :
         effective.plain[f] = LastWord(package, LAMBDA p : p.plain[f], Default[f])
    /\ \A c \in Class :
         effective.triggers[c] = LastWord(package, LAMBDA p : p.triggers[c], FALSE)
    /\ effective.lines = Lines(package, LastWord(package, LAMBDA p : p.sets, <<>>))
    /\ lastPut # Missing /\ ~wasTorn => package = lastPut
=============================================================================
