----------------------------- MODULE CommandLine -----------------------------
(***************************************************************************)
(* The command line around the commands: the configuration and its layers  *)
(* (config.rs of the library and of the CLI), what a command needs of it    *)
(* and how it ends (lib.rs), setup and table-file.  A value is              *)
(* None, "blank" when it is white space, or a text.                        *)
(***************************************************************************)
EXTENDS Integers, Names

Invalid(why) == [error |-> why]
IsInvalid(x) == "error" \in DOMAIN x

-----------------------------------------------------------------------------
(* Layers, from the least specific: profile, DATABRICKS_*, flags.  A flag   *)
(* has its PQB_* variable's value when it is not given.                    *)

NoLayer == [endpoint |-> None, token |-> None, dialect |-> None]

(* Mutant: the less specific layer wins where both are set.                *)
CombineLower(lower, higher) ==
    [key \in DOMAIN lower |-> IF lower[key] # None THEN lower[key] ELSE higher[key]]

Combine(lower, higher) ==
    [key \in DOMAIN lower |-> IF higher[key] # None THEN higher[key] ELSE lower[key]]
Resolved(layer) == [layer EXCEPT !.dialect = IF @ = None THEN "unity" ELSE @]

NonEmpty(value) == IF value = "blank" THEN None ELSE value
EnvLayer(env) == [endpoint |-> NonEmpty(env.host), token |-> NonEmpty(env.token), dialect |-> None]
FlagLayer(flags) ==
    [endpoint |-> NonEmpty(flags.endpoint), token |-> NonEmpty(flags.token), dialect |-> flags.dialect]

(* BTreeMap::entry: the layer of that name, for the first time or anew.    *)
Entered(profiles, name, layer) ==
    [n \in DOMAIN profiles \cup {name} |-> IF n = name THEN layer ELSE profiles[n]]

(* A line of the run-control file: "skip", a [profile], or key = value,    *)
(* unquoted; an empty value is passed over, and a key before any profile.  *)
ParseLine(read, line) ==
    LET layer == IF read.profile \in DOMAIN read.profiles THEN read.profiles[read.profile] ELSE NoLayer
        Put(new) == [read EXCEPT !.profiles = Entered(@, read.profile, new)]
    IN  IF IsInvalid(read) \/ line.is = "skip" THEN read
        ELSE IF line.is = "profile" THEN [read EXCEPT !.profile = line.name]
        ELSE IF line.value = None \/ read.profile = None THEN read
        ELSE IF line.key \notin DOMAIN NoLayer THEN Put(layer)
        ELSE IF line.key = "dialect" /\ line.value \notin {"unity", "iceberg"} THEN Invalid("table_format")
        ELSE Put([layer EXCEPT ![line.key] = line.value])
ParseProfiles(lines) ==
    FoldLeft(ParseLine, [profiles |-> <<>>, profile |-> None], lines)

(* The file is None when it cannot be read, and empty when it is missing.  *)
Selected(profiles, selected) ==
    LET names == DOMAIN profiles
    IN  IF names = {} THEN NoLayer
        ELSE IF selected # None
             THEN IF selected \in names THEN profiles[selected] ELSE Invalid("no_profile")
        ELSE IF "DEFAULT" \in names THEN profiles["DEFAULT"]
        ELSE IF Cardinality(names) = 1 THEN profiles[CHOOSE name \in names : TRUE]
        ELSE Invalid("several_profiles")
ProfileOf(read, selected) == IF IsInvalid(read) THEN read ELSE Selected(read.profiles, selected)
ProfileLayer(file, selected) ==
    IF file = None THEN Invalid("cannot_read") ELSE ProfileOf(ParseProfiles(file), selected)

Config(required, profile, flags, env) ==
    LET config == Resolved(Combine(Combine(profile, EnvLayer(env)), FlagLayer(flags)))
    IN  IF IsInvalid(profile) THEN profile
        ELSE IF required /\ config.endpoint = None THEN Invalid("needs_an_endpoint") ELSE config
ConfigOf(required, flags, env, file) == Config(required, ProfileLayer(file, flags.profile), flags, env)

-----------------------------------------------------------------------------
(* setup: the variables to export, for a shell to evaluate.                *)

Setup(config, region) ==
    IF config.endpoint = None THEN Invalid("setup_needs_an_endpoint")
    ELSE IF config.token = None THEN Invalid("setup_needs_a_token")
    ELSE [endpoint |-> config.endpoint, token |-> config.token, dialect |-> config.dialect,
          region |-> NonEmpty(region), metadata |-> "disabled"]

-----------------------------------------------------------------------------
(* Commands: which read a catalog, and how a run ends, with a code and an  *)
(* error message or none.  A run that only lost records has said so        *)
(* already; setup asks for an endpoint and a token of its own.  outcome is *)
(* how a command other than setup ends, once it runs, and "no_client" when *)
(* the HTTP client cannot be built.                                        *)

RequiresEndpoint(command) ==
    command[1] \in {"get", "credentials"}
    \/ (command[1] = "list" /\ command[2] \in {"catalogs", "schemas", "tables"})
ConfigFor(command, flags, env, file) == ConfigOf(RequiresEndpoint(command), flags, env, file)
ExitOf(result) ==
    [code |-> IF result = "ok" THEN 0 ELSE 1, message |-> result \notin {"ok", "partial"}]
RunCommand(command, config, outcome) ==
    ExitOf(IF IsInvalid(config) \/ outcome = "no_client" THEN "error"
           ELSE IF command # <<"setup">> THEN outcome
           ELSE IF IsInvalid(Setup(config, None)) THEN "error" ELSE "ok")

-----------------------------------------------------------------------------
(* table-file: a path as the file of a local table.                        *)
TableFileOf(path) ==
    LET named == SelectSeq(Pieces(path, "/"), LAMBDA piece : piece # <<>>)
        file == IF named = <<>> THEN path ELSE named[Len(named)]
    IN  [name |-> TableFileName(LocalTable(path), file), file |-> file, blob |-> BlobName(path)]
=============================================================================
