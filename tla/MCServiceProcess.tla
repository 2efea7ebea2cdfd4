--------------------------- MODULE MCServiceProcess ---------------------------
EXTENDS ServiceProcess, TLC

Local == "storage" :> "local"

\* No file, files that set what the environment may set as well, one whose
\* log level has capitals, and one whose ports meet.
MCFiles ==
    { <<>>, Local,
      Local @@ "jobs" :> 0 @@ "endpoint" :> "topic" @@ "key" :> "secret",
      "storage" :> "docker" @@ "level" :> Level("warn", FALSE) @@ "templates" :> {"default"},
      "storage" :> "azure_blob" @@ "level" :> Level("info", TRUE),
      Local @@ "health" :> 8080 @@ "timeout" :> 0 }

\* Nothing, corrections of the files, junk, and ports that are taken.
MCEnvs ==
    { <<>>,
      "storage" :> "azure-blob" @@ "jobs" :> 3,
      "storage" :> "s3" @@ "level" :> Level("debug", TRUE) @@ "jobs" :> Junk,
      "endpoint" :> "topic" @@ "key" :> "secret" @@ "port" :> 8082,
      "socket" :> "ws" @@ "templates" :> Junk @@ "health" :> Junk,
      "port" :> 9000 @@ "health" :> 70000,
      "port" :> 9000 @@ "templates" :> {"default", "premium"} }

MCForeignPorts == {9000}
==============================================================================
