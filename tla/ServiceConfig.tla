------------------------------ MODULE ServiceConfig ------------------------------
(***************************************************************************)
(* internal/config: the defaults, config.yaml, the environment and the     *)
(* validation, as functions of what the file and the environment set.      *)
(*                                                                         *)
(* A configuration is a function of its fields.  Only the fields something *)
(* depends on are here; the paths, names and keys left out are read as     *)
(* "storage" is, the numbers left out as "jobs".  A log level is a word and *)
(* whether it is written with capitals.                                    *)
(***************************************************************************)
EXTENDS Integers

CONSTANTS Junk   \* a text that is no number, or no JSON, where one is due

Numbers == {"port", "health", "jobs", "timeout"}
Texts   == {"storage", "level", "endpoint", "key", "socket"}
Fields  == Numbers \cup Texts \cup {"templates"}

Level(word, capitals) == [word |-> word, capitals |-> capitals]

Defaults ==
    [port |-> 8080, health |-> 8081, jobs |-> 2, timeout |-> 60,
     storage |-> "", level |-> Level("info", FALSE),
     endpoint |-> "", key |-> "", socket |-> "", templates |-> {}]

\* strings.ToLower of the log level; the other texts are taken as they are.
Read(f, text) == IF f = "level" THEN Level(text.word, FALSE) ELSE text

\* A variable that is unset or empty says nothing, and neither does one that
\* should be a number or JSON and is not.
Says(f, env) == f \in DOMAIN env /\ (f \in Texts \/ env[f] # Junk)

\* loadFromEnv.
FromEnv(cfg, env) ==
    [f \in Fields |-> IF Says(f, env) THEN Read(f, env[f]) ELSE cfg[f]]

\* yaml.Unmarshal, once the file (if any) is known to parse: it sets some
\* fields and leaves the others.
FromFile(cfg, file) ==
    [f \in Fields |-> IF f \in DOMAIN file THEN file[f] ELSE cfg[f]]

SlipFileOverEnv(file, env) == FromFile(FromEnv(Defaults, env), file)

\* Load.
Loaded(file, env) == FromEnv(FromFile(Defaults, file), env)

MaxPort == 65535

SlipNoUpperBound(n) == n > 0

ValidPort(n) == n > 0 /\ n <= MaxPort

SlipAnyJobs(cfg) ==
    /\ ValidPort(cfg.port) /\ ValidPort(cfg.health)
    /\ cfg.storage \in {"local", "docker", "azure-blob", "s3"}
    /\ cfg.level \in {Level(word, FALSE) : word \in {"debug", "info", "warn", "error"}}

\* validate.
Valid(cfg) ==
    /\ ValidPort(cfg.port) /\ ValidPort(cfg.health)
    /\ cfg.jobs > 0
    /\ cfg.storage \in {"local", "docker", "azure-blob", "s3"}
    /\ cfg.level \in {Level(word, FALSE) : word \in {"debug", "info", "warn", "error"}}
================================================================================
