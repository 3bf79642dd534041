------------------------------ MODULE Settings ------------------------------
(***************************************************************************)
(* How gotunnel server finds its settings: cmd/gotunnel/main.go,           *)
(* internal/config and the part of logging.New that can refuse them.  Kept *)
(* are the settings that some source overrides, the log format, and        *)
(* listen_http, the address the server listens on.  The flags are a        *)
(* function from those that are given to values; a file is one from the    *)
(* settings it mentions, or Unreadable.                                    *)
(***************************************************************************)
EXTENDS Integers

CONSTANTS
  Unreadable,        \* a file that is missing or not YAML
  StringsToLower(_)  \* strings.ToLower

\* The value of PORT is a number in 1..65535.
IsPort(v) == v = "8080"

Defaults ==
  [level |-> "info", format |-> "json", storage |-> "memory", redis |-> "127.0.0.1:6379",
   key |-> "", http |-> ":80", https |-> ":443"]

\* yaml.Unmarshal into a filled struct: what the file mentions is replaced.
Unmarshal(file, cfg) == [f \in DOMAIN cfg |-> IF f \in DOMAIN file THEN file[f] ELSE cfg[f]]

\* Bug variant: a variable only fills what the file leaves empty.
ApplyServerEnv_Weak(cfg, env) ==
  LET Override(f, v) == IF cfg[f] = "" THEN v ELSE cfg[f]
  IN  [cfg EXCEPT !.level = Override("level", env.GOTUNNEL_LOG_LEVEL),
                  !.storage = Override("storage", env.GOTUNNEL_STORAGE_TYPE),
                  !.redis = Override("redis", env.GOTUNNEL_REDIS_ADDR),
                  !.key = Override("key", env.GOTUNNEL_AUTH_KEY),
                  !.https = IF IsPort(env.PORT) THEN ":8080" ELSE @]

ApplyServerEnv(cfg, env) ==
  LET Override(f, v) == IF v # "" THEN v ELSE cfg[f]
  IN  [cfg EXCEPT !.level = Override("level", env.GOTUNNEL_LOG_LEVEL),
                  !.storage = Override("storage", env.GOTUNNEL_STORAGE_TYPE),
                  !.redis = Override("redis", env.GOTUNNEL_REDIS_ADDR),
                  !.key = Override("key", env.GOTUNNEL_AUTH_KEY),
                  !.https = IF IsPort(env.PORT) THEN ":8080" ELSE @]

DefaultPath == "/etc/gotunnel/config.yml"

\* fs.Parse: a flag that is not given has its default.
Parse(args) ==
  [config   |-> IF "config" \in DOMAIN args THEN args.config ELSE DefaultPath,
   logLevel |-> IF "logLevel" \in DOMAIN args THEN args.logLevel ELSE ""]

\* The file to read: GOTUNNEL_CONFIG counts if --config is given and empty.
Path(path, env) == IF path = "" THEN env.GOTUNNEL_CONFIG ELSE path

NoSettings == [level |-> "exit"]

Load(path, env, files) ==
  LET p == Path(path, env)
  IN  CASE p = "" -> ApplyServerEnv(Defaults, env)
        [] p # "" /\ files[p] = Unreadable -> NoSettings
        [] OTHER -> ApplyServerEnv(Unmarshal(files[p], Defaults), env)

ParseLevel(level) ==
  StringsToLower(level) \in {"debug", "info", "", "warn", "warning", "error"}

\* The log file, if there is one, can be opened.
LoggingNew(cfg) == ParseLevel(cfg.level) /\ StringsToLower(cfg.format) \in {"json", "", "text"}

\* What the server runs with, or NoSettings: it exits.
RunServer(args, env, files) ==
  LET flags == Parse(args)
      loaded == Load(flags.config, env, files)
      cfg == [loaded EXCEPT !.level = IF flags.logLevel # "" THEN flags.logLevel ELSE @]
  IN  IF loaded = NoSettings \/ ~LoggingNew(cfg) THEN NoSettings ELSE cfg
-----------------------------------------------------------------------------
\* The settings that have a variable.
Variable ==
  [level |-> "GOTUNNEL_LOG_LEVEL", storage |-> "GOTUNNEL_STORAGE_TYPE",
   redis |-> "GOTUNNEL_REDIS_ADDR", key |-> "GOTUNNEL_AUTH_KEY"]

\* Setting by setting, a flag comes before a variable, a variable before the file
\* and the file before the default.  No variable reaches listen_http: PORT moves
\* listen_https, on which nothing listens.  A named file that cannot be read, or
\* a level or format that does not exist in any case of its letters, stops the
\* server rather than fall through to the next source.
Precedence(args, env, files) ==
  LET flags == Parse(args)
      p == Path(flags.config, env)
      FromFile(f) ==
        IF p # "" THEN IF f \in DOMAIN files[p] THEN files[p][f] ELSE Defaults[f]
        ELSE Defaults[f]
      FromEnv(f) ==
        IF f \in DOMAIN Variable
        THEN IF env[Variable[f]] # "" THEN env[Variable[f]] ELSE FromFile(f)
        ELSE FromFile(f)
      level == IF flags.logLevel # "" THEN flags.logLevel ELSE FromEnv("level")
      cfg == RunServer(args, env, files)
  IN  IF /\ p # "" => files[p] # Unreadable
         /\ ParseLevel(level)
         /\ StringsToLower(FromFile("format")) \in {"json", "", "text"}
      THEN /\ cfg # NoSettings
           /\ cfg.level = level
           /\ \A f \in {"format", "storage", "redis", "key", "http"} : cfg[f] = FromEnv(f)
           /\ cfg.https = IF IsPort(env.PORT) THEN ":8080" ELSE FromFile("https")
      ELSE cfg = NoSettings

\* Started without flags, the server takes its file from GOTUNNEL_CONFIG, and
\* does without one if there is none at the default path either: the variables
\* are enough.
EnvironmentServes(env, files) ==
  env.GOTUNNEL_CONFIG # "" \/ files[DefaultPath] = Unreadable =>
    RunServer(<<>>, env, files) = RunServer([config |-> ""], env, files)
=============================================================================
