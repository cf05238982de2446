----------------------------- MODULE Onboarding -----------------------------
(* `nanobot onboard`: config.json is created, refreshed, reset to defaults, *)
(* or edited in the wizard, whose sections are drafts that only "[Done]"    *)
(* takes over; then the defaults of channels the file lacks are added.      *)
EXTENDS Integers, Sequences, FiniteSets, SequencesExt

CONSTANTS MaxEdits, MaxCrashes      \* bounds

VARIABLES
    config_file,    \* config.json: can it be loaded, and its values
    before,         \* config.json when the command started
    phase,          \* where the command is
    wizard,         \* --wizard
    original,       \* what the wizard started from
    config,         \* what it has taken over
    drafts,         \* open sections, innermost last
    confirmed,      \* fields whose last edit was taken over by every [Done]
    edits, crashes, \* counters of the bounds
    ending          \* how the command ended: what the user chose

onboarding == <<config_file, before, phase, wizard, original, config, drafts, confirmed,
                edits, crashes, ending>>

-----------------------------------------------------------------------------
(* The values of a configuration *)

\* Fields by section; the section "web" is nested in "tools".
Sections == [agent |-> {"model", "context"}, provider |-> {"key", "base"},
             channel |-> {"token"}, tools |-> {"restrict"}, web |-> {"search"}]
Nested == [tools |-> {"web"}]
Fields == UNION {Sections[s] : s \in DOMAIN Sections}
Inner(s) == IF s \in DOMAIN Nested THEN Nested[s] ELSE {}
FieldsIn(s) == Sections[s] \cup UNION {Sections[i] : i \in Inner(s)}

\* Config(): every field at its default; a channel has no entry at all.
Defaults == [f \in Fields |-> IF f = "token" THEN "absent" ELSE "default"]

\* config.json as a user may have left it.  "moved": it has the user's
\* restrictToWorkspace at its old place, tools.exec.  A file that is "invalid"
\* is one json or pydantic rejects, a "removed" one has a setting that
\* load_config refuses.
Files ==
    {[kind |-> k, values |-> v, moved |-> m] :
        k \in {"ok", "invalid", "removed"}, m \in BOOLEAN,
        v \in {[f \in Fields |-> IF f \in S THEN "user" ELSE Defaults[f]] :
                  S \in SUBSET {"context", "base", "token", "restrict"}}}
NoFile == [kind |-> "none", values |-> Defaults, moved |-> FALSE]
Torn == [kind |-> "invalid", values |-> Defaults, moved |-> FALSE]

\* _migrate_config takes the value at the old place if there is no new one.
Migrated(f) ==
    IF f.moved /\ f.values["restrict"] = "default"
    THEN [f.values EXCEPT !["restrict"] = "user"] ELSE f.values

\* What cannot be read or is not valid counts as no file: the defaults.
Loaded(f) == IF f.kind = "ok" THEN Migrated(f) ELSE Defaults
Saved(values) == [kind |-> "ok", values |-> values, moved |-> FALSE]

\* Mutant of MergeMissingDefaults: fields at their default are not written.
Mut_ExcludeDefaults(values) == [f \in {g \in Fields : values[g] # "default"} |-> values[f]]

\* _merge_missing_defaults: a channel without an entry gets its default one.
MergeMissingDefaults(values) ==
    [f \in Fields |-> IF f = "token" /\ values[f] \in {"absent", "empty"} THEN "default" ELSE values[f]]

-----------------------------------------------------------------------------
(* The command *)

OnboardingInit ==
    /\ config_file \in Files \cup {NoFile} /\ before = config_file
    /\ phase = "start" /\ wizard \in BOOLEAN
    /\ original = Defaults /\ config = Defaults /\ drafts = <<>> /\ confirmed = {}
    /\ edits = 0 /\ crashes = 0 /\ ending = "none"

Ends(how) == phase' = "done" /\ ending' = how

\* load_config refuses a removed setting; the command fails then.
Loads(next) ==
    IF config_file.kind = "removed" THEN Ends("refused") /\ UNCHANGED <<original, config>>
    ELSE /\ config' = Loaded(config_file) /\ original' = config'
         /\ phase' = next /\ UNCHANGED ending

Starts ==
    /\ phase = "start"
    /\ IF wizard THEN Loads("menu")
       ELSE /\ phase' = IF config_file.kind = "none" THEN "save" ELSE "confirm"
            /\ UNCHANGED <<original, config, ending>>
    /\ UNCHANGED <<config_file, before, wizard, drafts, confirmed, edits, crashes>>

\* Overwrite?  y resets to defaults, N refreshes.
Overwrites ==
    /\ phase = "confirm" /\ phase' = "save" /\ ending' = "overwritten"
    /\ UNCHANGED <<config_file, before, wizard, original, config, drafts, confirmed, edits, crashes>>
Refreshes ==
    /\ phase = "confirm" /\ Loads("save")
    /\ UNCHANGED <<config_file, before, wizard, drafts, confirmed, edits, crashes>>

\* save_config opens the file for writing, which empties it, and writes it.
Empties ==
    /\ phase = "save" /\ config_file' = Torn /\ phase' = "write"
    /\ UNCHANGED <<before, wizard, original, config, drafts, confirmed, edits, crashes, ending>>
Writes ==
    /\ phase = "write" /\ config_file' = Saved(config) /\ phase' = "plugins"
    /\ UNCHANGED <<before, wizard, original, config, drafts, confirmed, edits, crashes, ending>>

\* _onboard_plugins reads the file again and writes it, in the same way.
PluginsEmpty ==
    /\ phase = "plugins"
    /\ config' = MergeMissingDefaults(config_file.values) /\ config_file' = Torn /\ phase' = "rewrite"
    /\ UNCHANGED <<before, wizard, original, drafts, confirmed, edits, crashes, ending>>
PluginsWrite ==
    /\ phase = "rewrite" /\ config_file' = Saved(config)
    /\ Ends(IF ending = "none" THEN "saved" ELSE ending)
    /\ UNCHANGED <<before, wizard, original, config, drafts, confirmed, edits, crashes>>

\* The process dies, and the drafts with it.
Crash ==
    /\ phase \notin {"start", "done"} /\ crashes < MaxCrashes /\ crashes' = crashes + 1
    /\ Ends("crashed") /\ drafts' = <<>>
    /\ UNCHANGED <<config_file, before, wizard, original, config, confirmed, edits>>

-----------------------------------------------------------------------------
(* The wizard *)

AtMenu == phase = "menu" /\ drafts = <<>>
Top == Last(drafts)

\* A provider without an api_base gets its default, a channel an empty entry:
\* in the configuration itself, before the draft is made.
Prepared(s) ==
    CASE s = "provider" /\ config["base"] = "default" -> [config EXCEPT !["base"] = "preset"]
      [] s = "channel" /\ config["token"] = "absent"  -> [config EXCEPT !["token"] = "empty"]
      [] OTHER -> config

\* An empty entry is edited as a channel's defaults.
Model(s, values) ==
    IF s = "channel" /\ values["token"] = "empty" THEN [values EXCEPT !["token"] = "default"] ELSE values

Opens(s) ==
    /\ AtMenu /\ config' = Prepared(s)
    /\ drafts' = <<[section |-> s, values |-> Model(s, config'), entered |-> {}]>>
    /\ UNCHANGED <<config_file, before, phase, wizard, original, confirmed, edits, crashes, ending>>

OpensNested(s) ==
    /\ drafts # <<>> /\ s \in Inner(Top.section)
    /\ drafts' = Append(drafts, [section |-> s, values |-> Top.values, entered |-> {}])
    /\ UNCHANGED <<config_file, before, phase, wizard, original, config, confirmed, edits, crashes, ending>>

Edits(values, f) ==
    /\ edits < MaxEdits /\ edits' = edits + 1
    /\ drafts' = Front(drafts) \o <<[Top EXCEPT !.values = values, !.entered = @ \cup {f}]>>
    /\ UNCHANGED <<config_file, before, phase, wizard, original, confirmed, crashes, ending>>
Offers(f) == drafts # <<>> /\ f \in Sections[Top.section]

\* Mutant of Enters: the field is set in the configuration, too.
Mut_WritesThrough(f) ==
    Offers(f) /\ Edits([Top.values EXCEPT ![f] = "new"], f) /\ config' = [config EXCEPT ![f] = "new"]

\* A value is entered.  Keeping the old one, leaving it empty, or an invalid
\* number changes nothing.
Enters(f) ==
    Offers(f) /\ Edits([Top.values EXCEPT ![f] = "new"], f) /\ UNCHANGED config

\* Mutant of EntersModel: the context window is that of the model.
Mut_AlwaysFills ==
    /\ Offers("model")
    /\ Edits([Top.values EXCEPT !["model"] = "new", !["context"] = "recommended"], "model")
    /\ UNCHANGED config

\* A new model may fill in its context window, if that is still the default.
EntersModel ==
    /\ Offers("model")
    /\ \E c \in {Top.values["context"]} \cup (IF Top.values["context"] = "default" THEN {"recommended"} ELSE {}) :
         Edits([Top.values EXCEPT !["model"] = "new", !["context"] = c], "model")
    /\ UNCHANGED config

\* The context window is typed or taken from the recommendation.
EntersContextWindow ==
    Offers("context") /\ Edits([Top.values EXCEPT !["context"] = "new"], "context") /\ UNCHANGED config

\* [Done] hands the draft's fields to what it was made from.
Done ==
    /\ drafts # <<>>
    /\ LET take(values) == [f \in Fields |-> IF f \in FieldsIn(Top.section) THEN Top.values[f] ELSE values[f]]
           outer == Front(drafts) IN
       IF outer = <<>>
       THEN /\ config' = take(config) /\ drafts' = <<>> /\ confirmed' = confirmed \cup Top.entered
       ELSE /\ drafts' = Front(outer) \o
                  <<[Last(outer) EXCEPT !.values = take(@), !.entered = @ \cup Top.entered]>>
            /\ UNCHANGED <<config, confirmed>>
    /\ UNCHANGED <<config_file, before, phase, wizard, original, edits, crashes, ending>>

\* Escape, Left or Ctrl+C: the draft is dropped.
Back ==
    /\ drafts # <<>> /\ drafts' = Front(drafts)
    /\ UNCHANGED <<config_file, before, phase, wizard, original, config, confirmed, edits, crashes, ending>>

SavesAndExits ==
    /\ AtMenu /\ phase' = "save"
    /\ UNCHANGED <<config_file, before, wizard, original, config, drafts, confirmed, edits, crashes, ending>>
ExitsWithoutSaving ==
    /\ AtMenu /\ Ends("discarded")
    /\ UNCHANGED <<config_file, before, wizard, original, config, drafts, confirmed, edits, crashes>>

\* Mutant of HasUnsavedChanges: only the top level is compared.
Mut_TopLevelOnly == config["model"] # original["model"]

HasUnsavedChanges == config # original

\* Ctrl+C in the menu leaves at once if there is nothing to lose; else the
\* user is asked, and may save, discard or resume.
Cancels ==
    /\ AtMenu
    /\ IF HasUnsavedChanges THEN phase' = "ask" /\ UNCHANGED ending ELSE Ends("left")
    /\ UNCHANGED <<config_file, before, wizard, original, config, drafts, confirmed, edits, crashes>>
Answers(choice) ==
    /\ phase = "ask"
    /\ CASE choice = "save"    -> phase' = "save" /\ UNCHANGED ending
         [] choice = "discard" -> Ends("discarded")
         [] OTHER              -> phase' = "menu" /\ UNCHANGED ending
    /\ UNCHANGED <<config_file, before, wizard, original, config, drafts, confirmed, edits, crashes>>

WizardNext ==
    \/ \E s \in {"agent", "provider", "channel", "tools"} : Opens(s)
    \/ \E s \in {"web"} : OpensNested(s)
    \/ \E f \in Fields \ {"model", "context"} : Enters(f)
    \/ EntersModel \/ EntersContextWindow
    \/ Done \/ Back \/ SavesAndExits \/ ExitsWithoutSaving \/ Cancels
    \/ \E choice \in {"save", "discard", "resume"} : Answers(choice)

OnboardingNext ==
    \/ Starts \/ Overwrites \/ Refreshes \/ Empties \/ Writes \/ PluginsEmpty \/ PluginsWrite
    \/ Crash \/ WizardNext

OnboardingSpec == OnboardingInit /\ [][OnboardingNext]_onboarding

-----------------------------------------------------------------------------
(* Properties *)

OnboardingTypeOK ==
    /\ config_file.kind \in {"ok", "invalid", "removed", "none"} /\ DOMAIN config = Fields
    /\ Len(drafts) <= 2 /\ confirmed \subseteq Fields
    /\ ending \in {"none", "refused", "overwritten", "saved", "crashed", "discarded", "left"}

\* What the user entered reaches the configuration only through [Done] of the
\* section and of every section around it: nothing of a draft that was left
\* with Escape is ever saved.
OnlyDoneCommits ==
    /\ \A f \in Fields : config[f] = "new" => f \in confirmed
    /\ \A f \in Fields : config_file.values[f] = "new" => f \in confirmed

\* A wizard that is left without saving leaves config.json as it found it,
\* and what was taken over by [Done] is only dropped when the user says so.
NothingDroppedUnasked ==
    phase = "done" =>
        /\ ending \in {"discarded", "left", "refused"} => config_file = before
        /\ ending = "left" => confirmed = {}
        /\ ending = "saved" => \A f \in confirmed : config_file.values[f] = "new"

\* Unless the user asked for defaults, a value of the old file that was not
\* edited is in the new one - if the old file could be loaded at all.
LoadedValuesKept ==
    phase = "done" /\ ending = "saved" /\ before.kind # "invalid" =>
        \A f \in Fields : Migrated(before)[f] = "user" => config_file.values[f] = "user" \/ f \in confirmed

\* The configuration is the user's: types, what [Done] took over, and what was there before.
ConfigIsTheUsers == OnboardingTypeOK /\ OnlyDoneCommits /\ NothingDroppedUnasked /\ LoadedValuesKept
=============================================================================
