---------------------------- MODULE ConfigLoader ----------------------------
(***************************************************************************)
(* loadConfig (src/src/config/loader.ts): the config file, the environment *)
(* and the command line are parsed, in this order, and merged over the     *)
(* defaults, in the same order.  Any source may be malformed.              *)
(*                                                                         *)
(* A source is a patch: what it says of each field.  A field that must     *)
(* come with others (port and host of httpChannel, secret and host of      *)
(* satellite) belongs to a pair.  Values are those of validated fields:    *)
(* what trim, lower case and the checks of each type make of the text is   *)
(* one of SourceValues, or the source is malformed, as one is with unknown *)
(* keys or flags, a flag without a value, or a file that is no JSON object.*)
(***************************************************************************)
EXTENDS Naturals, Sequences

CONSTANTS
    Single,     \* the fields on their own: mode, logLevel, ..., memoryPath
    Pairs,      \* the pairs: httpChannel and satellite, as sets of fields
    Unset,
    SourceValues, \* SourceValues[i][f]: what source i says of field f, if anything
    Defaults    \* DEFAULT_CONFIG: a value, or Unset, for each field

Fields == Single \cup UNION Pairs

(* A field is of one pair at most, and only a field without one may have a *)
(* default.                                                                *)
Schema ==
    /\ Single \cap UNION Pairs = {}
    /\ \A pair, other \in Pairs : pair # other => pair \cap other = {}
    /\ DOMAIN SourceValues = 1 .. 3 /\ \A i \in 1 .. 3 : DOMAIN SourceValues[i] = Fields
    /\ \A i \in 1 .. 3, f \in Fields : SourceValues[i][f] # Unset
    /\ DOMAIN Defaults = Fields
    /\ \A pair \in Pairs : \A f \in pair : Defaults[f] = Unset

ASSUME ConfigAssumption == Schema

VARIABLES
    sources,    \* the patches of file, environment and command line
    parsed,     \* how many of them have been parsed
    merged,     \* how many of them have been merged
    config,     \* cfg
    outcome     \* "loading", "loaded", or "thrown"

loaderVars == <<sources, parsed, merged, config, outcome>>

(* A malformed source, and one that is not there: readFile gives undefined. *)
Malformed == [set |-> [f \in Fields |-> Unset], mentions |-> {}, malformed |-> TRUE]
Missing   == [set |-> [f \in Fields |-> Unset], mentions |-> {}, malformed |-> FALSE]

(* A patch sets fields and mentions pairs.  Only a file mentions a pair    *)
(* without setting any of its fields.                                      *)
Mentioned(said) == {pair \in Pairs : \E f \in pair : said[f] # Unset}

Saying(i) ==
    {[f \in Fields |-> IF f \in given THEN SourceValues[i][f] ELSE Unset] : given \in SUBSET Fields}

FlatPatches(i) ==
    {[set |-> said, mentions |-> Mentioned(said), malformed |-> FALSE] : said \in Saying(i)}
        \cup {Malformed}

FilePatches ==
    {Malformed} \cup
    {[set |-> said, mentions |-> Mentioned(said) \cup empty, malformed |-> FALSE] :
        said \in Saying(1), empty \in SUBSET Pairs}

LoaderInit ==
    /\ sources \in FilePatches \X FlatPatches(2) \X FlatPatches(3)
    /\ parsed = 0 /\ merged = 0
    /\ config = Defaults
    /\ outcome = "loading"
-----------------------------------------------------------------------------
(* parseFileContent, parseEnv, parseArgv: each throws a ConfigError or     *)
(* gives its patch.                                                        *)
Parse ==
    /\ outcome = "loading" /\ parsed < 3
    /\ parsed' = parsed + 1
    /\ outcome' = IF sources[parsed'].malformed THEN "thrown" ELSE "loading"
    /\ UNCHANGED <<sources, merged, config>>

(* Variant: what a patch leaves out is taken from it all the same.         *)
Over_Unset(base, patch) == [f \in Fields |-> IF f \in Single THEN patch.set[f] ELSE base[f]]

(* patch.f ?? base.f                                                       *)
Over(base, patch) ==
    [f \in Fields |-> IF patch.set[f] # Unset THEN patch.set[f] ELSE base[f]]

(* mergeHttp, mergeSatellite: a pair that a patch mentions must be whole   *)
(* once merged.                                                            *)
Whole(pair, base, patch) == \A f \in pair : Over(base, patch)[f] # Unset

Merge ==
    LET patch == sources[merged + 1] IN
    /\ outcome = "loading" /\ parsed = 3 /\ merged < 3
    /\ merged' = merged + 1
    /\ IF \A pair \in patch.mentions : Whole(pair, config, patch)
       THEN /\ config' = Over(config, patch)
            /\ outcome' = IF merged' = 3 THEN "loaded" ELSE "loading"
       ELSE outcome' = "thrown" /\ UNCHANGED config
    /\ UNCHANGED <<sources, parsed>>

LoaderNext == Parse \/ Merge

LoaderSpec == LoaderInit /\ [][LoaderNext]_loaderVars
-----------------------------------------------------------------------------
(* What the documents say of a field: the highest source that sets it      *)
(* decides, and else the default.                                          *)
Setters(f) == {i \in 1 .. 3 : sources[i].set[f] # Unset}

Topmost(f) ==
    IF Setters(f) = {} THEN Defaults[f]
    ELSE sources[CHOOSE i \in Setters(f) : \A j \in Setters(f) : j <= i].set[f]

(* What is loaded follows the sources: command line over environment over  *)
(* file over defaults, field by field, also within a pair; and a pair is   *)
(* whole or absent.  A configuration is rejected only when a source is     *)
(* malformed, or when a source mentions a pair of which it, the sources    *)
(* below it and the defaults do not set all fields - even if a source      *)
(* above it does.                                                          *)
LoadFollowsSources ==
    /\ outcome = "loaded" =>
          /\ \A f \in Fields : config[f] = Topmost(f)
          /\ \A pair \in Pairs : \A f, g \in pair : config[f] = Unset <=> config[g] = Unset
    /\ outcome = "thrown" =>
          \/ \E i \in 1 .. 3 : sources[i].malformed
          \/ \E i \in 1 .. 3 : \E pair \in sources[i].mentions : \E f \in pair :
               \A j \in Setters(f) : j > i
=============================================================================
