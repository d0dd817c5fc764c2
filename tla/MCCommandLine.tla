--------------------------- MODULE MCCommandLine ---------------------------
(***************************************************************************)
(* The configurations that run-control files, environments and flags come  *)
(* to, and how commands run under them.                                    *)
(***************************************************************************)
EXTENDS CommandLine

CONSTANTS Files,       \* the run-control files a configuration is read from
          RunFiles,    \* those a run is started with
          LaterFiles,  \* those a command may find after setup
          Envs, Flags

(* A file is None, when it cannot be read, or its lines.  A dialect that a *)
(* flag has is one of the two: clap refuses another.                       *)
Configurations ==
    /\ None \notin {"unity", "iceberg"}
    /\ \A file \in Files \cup RunFiles \cup LaterFiles :
          file = None \/ (Len(file) \in Nat /\ DOMAIN file = 1..Len(file))
    /\ \A flags \in Flags : flags.dialect \in {None, "unity", "iceberg"}

-----------------------------------------------------------------------------
(* A setting is the most specific layer's that has it, layer by layer; the *)
(* environment's, DATABRICKS_*, has no dialect, and unity is the default.  *)
Given(value) == value \notin {None, "blank"}
Layers(config, required, profile, env, flags) ==
    IF IsInvalid(profile) THEN IsInvalid(config) /\ IsInvalid(required)
    ELSE /\ config.endpoint = IF Given(flags.endpoint) THEN flags.endpoint
                              ELSE IF Given(env.host) THEN env.host ELSE profile.endpoint
         /\ config.token = IF Given(flags.token) THEN flags.token
                           ELSE IF Given(env.token) THEN env.token ELSE profile.token
         /\ config.dialect = IF flags.dialect # None THEN flags.dialect
                             ELSE IF profile.dialect # None THEN profile.dialect ELSE "unity"
         /\ IsInvalid(required) <=> config.endpoint = None
LayeredOf(file, env, flags) ==
    Layers(ConfigOf(FALSE, flags, env, file), ConfigOf(TRUE, flags, env, file),
           ProfileLayer(file, flags.profile), env, flags)

(* What setup exports is the configuration of every later command that is  *)
(* given nothing else, whatever the profile and DATABRICKS_* then are, as  *)
(* long as the file can be read and selects a profile.  A blank setting of *)
(* the profile's is exported blank, and then is none.                      *)
Exported(exported) == [profile |-> None, endpoint |-> exported.endpoint,
                       token |-> exported.token, dialect |-> exported.dialect]
Pinned(config, exported) ==
    \/ IsInvalid(exported) \/ "blank" \in {config.endpoint, config.token}
    \/ \A file \in LaterFiles, env \in Envs :
          \/ IsInvalid(ProfileLayer(file, None))
          \/ ConfigOf(TRUE, Exported(exported), env, file) = config
Sets(config) == IsInvalid(config) \/ Pinned(config, Setup(config, None))
SetupOf(file, env, flags) == Sets(ConfigOf(TRUE, flags, env, file))

Commands == {<<"get", "table">>, <<"list", "tables">>, <<"list", "files">>, <<"credentials", "get">>,
             <<"bytemass">>, <<"setup">>}

(* A run is green when its command had what it needs and ended well, and a *)
(* run that fails has said why: with one message, or with the lines of the *)
(* records it lost.  A catalog's reader and setup need an endpoint, setup  *)
(* a token too, and each other command neither.                            *)
ReadsCatalog == {<<"get", "table">>, <<"list", "tables">>, <<"credentials", "get">>}
Outcomes == {"ok", "partial", "error", "no_client"}
Runs(command, outcome, run, config) ==
    LET isSetup == command = <<"setup">>
        needsEndpoint == isSetup \/ command \in ReadsCatalog
        runs == /\ ~IsInvalid(config) /\ outcome # "no_client"
                /\ needsEndpoint => config.endpoint # None
                /\ isSetup => config.token # None
    IN  /\ run.code = 0 <=> runs /\ (isSetup \/ outcome = "ok")
        /\ run.message <=> run.code # 0 /\ (runs => outcome # "partial")
RunOf(command, file, env, flags, outcome) ==
    Runs(command, outcome, RunCommand(command, ConfigFor(command, flags, env, file), outcome),
         ConfigOf(FALSE, flags, env, file))

(* A path's record is that file of that table, and its blob reads the path. *)
PathOf(path) ==
    LET record == TableFileOf(path)
    IN  /\ ParseTableFile(record.name) = <<LocalTable(path), record.file>>
        /\ BlobUri(record.blob) = IF IsPrefix(<<"file", ":", "/", "/">>, path)
                                  THEN SubSeq(path, 5, Len(path)) ELSE path
=============================================================================
