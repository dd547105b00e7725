----------------------------- MODULE InitWizard -----------------------------
(***************************************************************************)
(* runInit, the setup wizard (src/src/cli/init.ts), run any number of      *)
(* times, and then loadConfig on the file it has left.                     *)
(*                                                                         *)
(* Each step goes up to the next prompt, save or write.  The operator may  *)
(* give an answer that makes the wizard throw, or kill it, at any of them. *)
(* API keys are named by the run they were typed in, master keys by the    *)
(* run that generated them; 0 is a master key of the operator's own.  The  *)
(* wizard writes logLevel and channels as they are by default, so that     *)
(* they are left out.  The vault, like the config file, is emptied before  *)
(* it is filled, and has every key that was saved: a save that is cut off  *)
(* loses them all.  That is in CredentialStore too, for any calls.         *)
(***************************************************************************)
EXTENDS ConfigLoader, FiniteSets

CONSTANTS
    WizardProviders,   \* WIZARD_PROVIDERS
    ProviderNames,     \* PROVIDER_NAMES, what a config file may list
    Ollama,            \* the provider without an API key
    NoKey,             \* ARGENT_MASTER_KEY is not set; the vault has no file,
                       \* or an empty one
    Torn,              \* the vault has a part of an envelope
    MaxRuns            \* bound of the model: runs of the wizard

Modes == {"standalone", "satellite"}
Satellite == {"secret", "host"}

(* What the wizard knows of the schema: it writes a link, and without one  *)
(* DEFAULT_CONFIG is not in satellite mode.                                *)
WizardSchema ==
    /\ {"mode", "providers"} \subseteq Single
    /\ Satellite \in Pairs
    /\ Defaults["mode"] = "standalone"
    /\ Unset \notin Modes \cup {"linked"}
    /\ Ollama \in WizardProviders \cap ProviderNames
    /\ MaxRuns \in Nat
    /\ {NoKey, Torn} \cap (0 .. MaxRuns) = {} /\ NoKey # Torn

ASSUME WizardAssumption == WizardSchema

VARIABLES
    stage,      \* where runInit is
    run,        \* which run of it this is
    mode,       \* the mode chosen
    selected,   \* the providers chosen
    toAsk,      \* those whose API key is still to be asked for
    secrets,    \* those whose key was typed and is to be saved
    declined,   \* history: those whose probe failed and whose key was dropped
    master,     \* effectiveEnv.ARGENT_MASTER_KEY
    toSave,     \* what is left of the loop over secrets
    vault,      \* the credentials file: its master key and the API keys in it
    draft,      \* what store.set is writing to it
    cut,        \* history: the last run in which store.set was cut off, or 0
    profiles,   \* the API keys in the gateway's auth-profiles.json
    shown       \* history: the master keys the operator has

inputs == <<run, mode, selected, toAsk, secrets, declined, master, toSave>>
stores == <<vault, draft, cut, profiles, shown>>
loader == <<parsed, merged, config, outcome>>
wizardVars == <<loaderVars, stage, inputs, stores>>

Resting == {"off", "noop", "done", "thrown", "killed"}
Cloud == WizardProviders \ {Ollama}
NoApiKeys == [p \in Cloud |-> 0]
NoVault == [lock |-> NoKey, keys |-> NoApiKeys]
TornVault == [lock |-> Torn, keys |-> NoApiKeys]

(* Either the wizard is used, or the sources are whatever they are.        *)
WizardInit ==
    /\ stage = "off"
    /\ mode = "standalone" /\ selected = {}
    /\ toAsk = {} /\ secrets = {} /\ declined = {} /\ toSave = {}
    /\ master = NoKey
    /\ vault = NoVault /\ draft = NoVault /\ cut = 0
    /\ profiles = NoApiKeys
    /\ shown = {0}
    /\ run = 0
    /\ \/ LoaderInit
       \/ /\ sources = <<Missing, Missing, Missing>>
          /\ parsed = 0 /\ merged = 0 /\ config = Defaults
          /\ outcome = "waiting"
-----------------------------------------------------------------------------
(* The operator starts the wizard, with a master key in the environment or *)
(* without, and may keep a config file that is there.                      *)
Begin ==
    /\ outcome = "waiting" /\ stage \in Resting /\ run < MaxRuns
    /\ run' = run + 1
    /\ master' \in shown \cup {NoKey}
    /\ stage' \in {"mode"} \cup IF sources[1] # Missing THEN {"noop"} ELSE {}
    /\ secrets' = {} /\ declined' = {}
    /\ UNCHANGED <<sources, loader, mode, selected, toAsk, toSave, stores>>

(* choose and multiChoose; an invalid or an empty selection throws.        *)
ChooseProviders(m, chosen) ==
    /\ stage = "mode"
    /\ mode' = m
    /\ selected' = chosen
    /\ toAsk' = chosen \cap Cloud
    /\ stage' = IF chosen = {} THEN "thrown" ELSE "keys"
    /\ UNCHANGED <<sources, loader, run, secrets, declined, master, toSave, stores>>

(* The key of a provider is asked for; when the probe fails the operator   *)
(* may drop it.                                                            *)
AskKey(p, keep) ==
    /\ stage = "keys"
    /\ p \in toAsk
    /\ toAsk' = toAsk \ {p}
    /\ secrets' = IF keep THEN secrets \cup {p} ELSE secrets
    /\ declined' = IF keep THEN declined ELSE declined \cup {p}
    /\ UNCHANGED <<sources, loader, stage, run, mode, selected, master, toSave, stores>>

(* Variant: the store is opened with the environment as it was.            *)
MasterKey_OldEnvironment(generate) ==
    /\ stage = "keys" /\ toAsk = {}
    /\ shown' = IF master = NoKey /\ generate THEN shown \cup {run} ELSE shown
    /\ toSave' = IF master = NoKey THEN {} ELSE secrets
    /\ stage' = IF master = NoKey /\ ~generate /\ secrets # {} THEN "thrown" ELSE "save"
    /\ UNCHANGED <<sources, loader, run, mode, selected, toAsk, secrets, declined, master,
                   vault, draft, cut, profiles>>

(* Without a master key one is generated and shown, or nothing is saved.   *)
MasterKey(generate) ==
    /\ stage = "keys" /\ toAsk = {}
    /\ IF master = NoKey /\ generate
       THEN master' = run /\ shown' = shown \cup {run}
       ELSE UNCHANGED <<master, shown>>
    /\ toSave' = secrets
    /\ stage' = IF master' = NoKey /\ secrets # {} THEN "thrown" ELSE "save"
    /\ UNCHANGED <<sources, loader, run, mode, selected, toAsk, secrets, declined,
                   vault, draft, cut, profiles>>

(* Variant: a vault that cannot be read is taken for an empty one.         *)
SaveKey_StartsOver(p) ==
    /\ stage = "save"
    /\ p \in toSave
    /\ draft' = [lock |-> master,
                 keys |-> [(IF vault.lock = master THEN vault.keys ELSE NoApiKeys) EXCEPT ![p] = run]]
    /\ vault' = NoVault
    /\ toSave' = toSave \ {p}
    /\ stage' = "saving"
    /\ UNCHANGED <<sources, loader, run, mode, selected, toAsk, secrets, declined,
                   master, cut, profiles, shown>>

(* store.set decrypts the file first, which another master key cannot, and *)
(* writeFile opens it, which empties it.                                   *)
SaveKey(p) ==
    /\ stage = "save"
    /\ p \in toSave
    /\ IF vault.lock \in {NoKey, master}
       THEN /\ draft' = [lock |-> master, keys |-> [vault.keys EXCEPT ![p] = run]]
            /\ vault' = NoVault
            /\ toSave' = toSave \ {p}
            /\ stage' = "saving"
       ELSE stage' = "thrown" /\ UNCHANGED <<draft, vault, toSave>>
    /\ UNCHANGED <<sources, loader, run, mode, selected, toAsk, secrets, declined,
                   master, cut, profiles, shown>>

FillVault ==
    /\ stage = "saving"
    /\ stage' = "save"
    /\ vault' = draft /\ draft' = NoVault
    /\ UNCHANGED <<sources, loader, inputs, cut, profiles, shown>>

(* syncGatewayAuthProfiles: this run's keys replace what the gateway had,  *)
(* unless it is not installed; a write that fails, which is let pass, may  *)
(* have emptied its file.                                                  *)
SyncGateway ==
    /\ stage = "save" /\ toSave = {}
    /\ profiles' \in {profiles} \cup
           IF secrets = {} THEN {}
           ELSE {NoApiKeys, [p \in Cloud |-> IF p \in secrets THEN run ELSE 0]}
    /\ stage' = IF mode = "satellite" THEN "satellite" ELSE "write"
    /\ UNCHANGED <<sources, loader, inputs, vault, draft, cut, shown>>

(* URL and secret are given, and the ping succeeds or is overruled.        *)
LinkSatellite ==
    /\ stage = "satellite"
    /\ stage' = "write"
    /\ UNCHANGED <<sources, loader, inputs, stores>>

(* An invalid selection, an empty answer, a failed ping.                   *)
RefuseAnswer ==
    /\ \/ stage \in {"mode", "satellite"}
       \/ stage = "keys" /\ toAsk # {}
    /\ stage' = "thrown"
    /\ UNCHANGED <<sources, loader, inputs, stores>>
-----------------------------------------------------------------------------
(* Variant: every provider is listed, known to the loader or not.          *)
Listed_All(chosen) == chosen

(* buildConfig: what the schema knows of the selection, or else ollama.    *)
Listed(chosen) ==
    IF chosen \cap ProviderNames = {} THEN {Ollama} ELSE chosen \cap ProviderNames

(* The file as parseFileContent sees it.                                   *)
Written ==
    [set |-> [f \in Fields |->
        CASE f = "mode" -> mode
          [] f = "providers" -> Listed(selected)
          [] f \in Satellite /\ mode = "satellite" -> "linked"
          [] OTHER -> Unset],
     mentions |-> IF mode = "satellite" THEN {Satellite} ELSE {},
     malformed |-> ~(Listed(selected) \subseteq ProviderNames)]

(* writeFile opens the file, which empties it, and fills it.               *)
OpenConfig ==
    /\ stage = "write"
    /\ stage' = "writing"
    /\ sources' = [sources EXCEPT ![1] = Malformed]
    /\ UNCHANGED <<loader, inputs, stores>>

FillConfig ==
    /\ stage = "writing"
    /\ stage' = "done"
    /\ sources' = [sources EXCEPT ![1] = Written]
    /\ UNCHANGED <<loader, inputs, stores>>

(* The operator, a power failure or an error of writeFile ends it; within  *)
(* store.set that leaves an empty file or a part of one.                   *)
Kill ==
    /\ stage \notin Resting
    /\ stage' = "killed"
    /\ \/ stage = "saving" /\ vault' \in {NoVault, TornVault} /\ cut' = run
       \/ stage # "saving" /\ UNCHANGED <<vault, cut>>
    /\ draft' = NoVault
    /\ UNCHANGED <<sources, loader, inputs, profiles, shown>>

(* A program that calls loadConfig, when the wizard is not running.        *)
StartLoad ==
    /\ outcome = "waiting" /\ stage \in Resting
    /\ outcome' = "loading"
    /\ UNCHANGED <<sources, parsed, merged, config, stage, inputs, stores>>

WizardNext ==
    \/ Begin \/ FillVault \/ SyncGateway \/ LinkSatellite \/ RefuseAnswer
    \/ OpenConfig \/ FillConfig \/ Kill \/ StartLoad
    \/ \E m \in Modes, chosen \in SUBSET WizardProviders : ChooseProviders(m, chosen)
    \/ \E p \in Cloud : SaveKey(p) \/ \E keep \in BOOLEAN : AskKey(p, keep)
    \/ \E yes \in BOOLEAN : MasterKey(yes)
    \/ (Parse \/ Merge) /\ UNCHANGED <<stage, inputs, stores>>

WizardSpec == WizardInit /\ [][WizardNext]_wizardVars
-----------------------------------------------------------------------------
(* Whatever the wizard has left of several runs, finished or not, loads,   *)
(* unless its last write was cut off; and a configuration in satellite     *)
(* mode has its link.                                                      *)
WrittenConfigLoads ==
    run > 0 =>
        /\ outcome = "thrown" => sources[1] = Malformed /\ stage # "done"
        /\ outcome = "loaded" =>
              (config["mode"] = "satellite" <=> \A f \in Satellite : config[f] # Unset)

(* What was saved is in the vault, or on its way there.                    *)
Stored == IF stage = "saving" THEN draft ELSE vault

(* When the wizard is done, each provider chosen has its new key in the    *)
(* vault, unless the operator has dropped it, and a vault that is whole is *)
(* under a master key the operator has.  The gateway has no key that is    *)
(* not stored, or was by a run before one whose save was cut off.          *)
SelectedHaveKeys ==
    /\ stage = "done" =>
          \A p \in selected \cap Cloud : p \in declined \/ vault.keys[p] = run
    /\ Stored.lock \in shown \cup {NoKey, Torn}
    /\ \A p \in Cloud : profiles[p] <= Stored.keys[p] \/ profiles[p] < cut

(* A saved key is replaced by a newer one at most, also when a later run   *)
(* comes with another master key, or generates one; only a save that is    *)
(* cut off loses keys, all of them.                                        *)
KeysAreKept ==
    [][cut' = cut =>
          \A p \in Cloud : Stored.keys[p] # 0 =>
             Stored'.keys[p] >= Stored.keys[p] /\ Stored'.lock = Stored.lock]_wizardVars
=============================================================================
