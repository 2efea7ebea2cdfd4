--------------------------- MODULE MCSourceDownload ---------------------------
EXTENDS SourceDownload

CONSTANTS j1, j2

MCJobs == {j1, j2}

At(scheme, host, marks, path) ==
    [scheme |-> scheme, host |-> host, marks |-> marks, path |-> path]

\* An account of its own or another's, an account and a plain host whose
\* names contain "s3.", a blob without a container, and every other scheme.
MCUrls ==
    { At("https", "ours", {"blob"}, <<"c", "v">>),
      At("https", "videos3", {"blob", "s3"}, <<"c", "v">>),
      At("https", "ours", {"blob"}, <<"v">>),
      At("http", "site", {}, <<"v">>),
      At("http", "stream", {}, <<"v">>),
      At("https", "bucket", {"s3"}, <<"v">>),
      At("s3", "bucket", {}, <<"v">>),
      At("", "", {}, <<"v">>) }

MCAccounts == {"ours"}
MCTimeouts == {0, 60}
MCSize ==
    [l \in {Here(u) : u \in Urls} \cup {<<a, u.path>> : a \in Accounts, u \in Urls} |->
        IF l[1] = "site" THEN 3 ELSE IF l[1] = "" THEN 1 ELSE 2]
MCUnframed == {<<"stream", <<"v">>>>}
==============================================================================
