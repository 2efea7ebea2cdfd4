--------------------------- MODULE TranscodePipeline ---------------------------
(***************************************************************************)
(* From a job template to the files in storage: Transcode, processOutput,  *)
(* transcodeHLS, transcodeProgressive, and uploadOutputFiles.              *)
(*                                                                         *)
(* A file's content is where it came from, the output, the profile and the *)
(* kind of file, so that an overwritten file shows.  A base name is a stem *)
(* and a kind; the segments of a playlist are one file of kind "ts".  Each *)
(* step may fail, whatever the reason: a directory, ffmpeg, a full disk,   *)
(* the job's timeout.  Sizes, codecs and the ffmpeg arguments are left     *)
(* out, and the temp directory's removal is in WorkerPool.                 *)
(***************************************************************************)
EXTENDS Integers, Sequences, FiniteSets

CONSTANTS Templates,     \* the templates a job may name: sequences of outputs
          KnownProfiles, \* the profile names getProfileByName knows
          ToLower(_)     \* strings.ToLower

\* What the configuration knows of an output.
OutputConfig ==
    [name : STRING, package : STRING, profiles : Seq(STRING), profile : STRING]

ASSUME TemplateAssumption ==
    /\ Templates \subseteq Seq(OutputConfig)
    /\ KnownProfiles \subseteq STRING /\ "720p" \in KnownProfiles

VARIABLES
    template,  \* the job's template
    step,      \* what the job does next
    out,       \* the output it is at
    prof,      \* the profile of that output it is at
    disk,      \* the job's temp directory: path -> content
    listed,    \* paths of result.Outputs[...].Files
    toSend,    \* the entries of fileMap not yet uploaded, keyed by local path
    sent       \* the output storage: destination -> content

vars == <<template, step, out, prof, disk, listed, toSend, sent>>

Output == template[out]

\* A single profile is looked up by its name; an unknown one becomes 720p.
SingleProfile(o) == IF o.profile \in KnownProfiles THEN o.profile ELSE "720p"

\* The profiles an output is transcoded to: the list, or else the single one.
ProfilesOf(o) ==
    IF o.profiles # <<>> THEN o.profiles
    ELSE IF o.profile # "" THEN <<SingleProfile(o)>> ELSE <<>>

IsHLS(o)         == ToLower(o.package) = "hls"
IsProgressive(o) == ToLower(o.package) \in {"progressive", "mp4"}
HasMaster(o)     == IsHLS(o) /\ o.profiles # <<>>

File(dir, sub, stem, kind) == [dir |-> dir, sub |-> sub, base |-> <<stem, kind>>]

\* TempDir/jobID/output/master.m3u8, .../profile/profile.m3u8 and
\* .../profile/profile_NNN.ts; a progressive file lies in the output's own
\* directory.
MasterPath(o)      == File(o.name, "", "master", "m3u8")
PlaylistPath(o, p) == File(o.name, p, p, "m3u8")
SegmentsPath(o, p) == File(o.name, p, p, "ts")
MoviePath(o, p)    == File(o.name, "", p, "mp4")

\* What one ffmpeg run of a profile writes.
Written(o, p) ==
    IF IsHLS(o) THEN {PlaylistPath(o, p), SegmentsPath(o, p)}
                ELSE {MoviePath(o, p)}

\* What a store holds once the files of made are written to it: one that was
\* there under the same path is replaced.
Over(made, store) ==
    [path \in DOMAIN made \cup DOMAIN store |->
        IF path \in DOMAIN made THEN made[path] ELSE store[path]]

SlipJobRoot(path) == [path EXCEPT !.dir = "", !.sub = ""]

\* filepath.Join(jobID, output.Name, filepath.Base(path)): the profile's
\* directory is dropped.
Dest(path) == [path EXCEPT !.sub = ""]

Init ==
    /\ template \in Templates
    /\ step = "probe"
    /\ out = 1
    /\ prof = 1
    /\ disk = <<>>
    /\ listed = {}
    /\ toSend = {}
    /\ sent = <<>>

-------------------------------------------------------------------------------
(* Any error ends the job; what it wrote and what it sent stays there.     *)
Fails == step' = "failed" /\ UNCHANGED <<template, out, prof, disk, listed, toSend, sent>>

GoTo(s) == step' = s /\ UNCHANGED <<template, out, prof, disk, listed, toSend, sent>>

\* The job directory is made and ffprobe asked.
Probe == step = "probe" /\ (GoTo("output") \/ Fails)

\* processOutput: the package is looked at only now, and so is whether there
\* is anything to transcode to.
StartOutput ==
    /\ step = "output"
    /\ out <= Len(template)
    /\ \/ ProfilesOf(Output) # <<>> /\ HasMaster(Output) /\ GoTo("master")
       \/ /\ ProfilesOf(Output) # <<>> /\ ~HasMaster(Output)
          /\ IsHLS(Output) \/ IsProgressive(Output)
          /\ GoTo("encode")
       \/ Fails

SlipSendDirectory ==
    /\ step = "output"
    /\ out > Len(template)
    /\ step' = "upload"
    /\ toSend' = DOMAIN disk
    /\ UNCHANGED <<template, out, prof, disk, listed, sent>>

SlipOneShort ==
    /\ step = "output"
    /\ out >= Len(template)
    /\ step' = "upload"
    /\ toSend' = listed
    /\ UNCHANGED <<template, out, prof, disk, listed, sent>>

\* Every output is transcoded: uploadOutputFiles builds its map.
StartUpload ==
    /\ step = "output"
    /\ out > Len(template)
    /\ step' = "upload"
    /\ toSend' = listed
    /\ UNCHANGED <<template, out, prof, disk, listed, sent>>

\* createMasterPlaylist, os.WriteFile and createOutputFile.
WriteMaster ==
    /\ step = "master"
    /\ \/ /\ disk' = Over([p \in {MasterPath(Output)} |-> <<out, "", "m3u8">>], disk)
          /\ listed' = listed \cup {MasterPath(Output)}
          /\ step' = "encode"
          /\ UNCHANGED <<template, out, prof, toSend, sent>>
       \/ Fails

\* What ffmpeg made of the i-th output's profile for this path.
Content(i, path) == <<i, path.base[1], path.base[2]>>

\* One ffmpeg run; it overwrites what is there.
Encode ==
    /\ step = "encode"
    /\ LET made == Written(Output, ProfilesOf(Output)[prof]) IN
         \/ /\ disk' = Over([path \in made |-> Content(out, path)], disk)
            /\ step' = "collect"
            /\ UNCHANGED <<template, out, prof, listed, toSend, sent>>
         \/ Fails

\* The next profile of this output, or the next output.
Advance ==
    IF prof < Len(ProfilesOf(Output))
    THEN step' = "encode" /\ prof' = prof + 1 /\ UNCHANGED out
    ELSE step' = "output" /\ prof' = 1 /\ out' = out + 1

\* The HLS files are listed as far as createOutputFile can read them: its
\* errors are dropped.
CollectHLS ==
    /\ step = "collect" /\ IsHLS(Output)
    /\ \E found \in SUBSET Written(Output, ProfilesOf(Output)[prof]) :
          listed' = listed \cup found
    /\ Advance
    /\ UNCHANGED <<template, disk, toSend, sent>>

SlipDropError ==
    /\ step = "collect" /\ IsProgressive(Output)
    /\ \E found \in SUBSET Written(Output, ProfilesOf(Output)[prof]) :
          listed' = listed \cup found
    /\ Advance
    /\ UNCHANGED <<template, disk, toSend, sent>>

\* The progressive file must be there.
CollectProgressive ==
    /\ step = "collect" /\ IsProgressive(Output)
    /\ \/ /\ listed' = listed \cup Written(Output, ProfilesOf(Output)[prof])
          /\ Advance
          /\ UNCHANGED <<template, disk, toSend, sent>>
       \/ Fails

SlipSkipAndGoOn(path) ==
    /\ step = "upload"
    /\ path \in toSend
    /\ toSend' = toSend \ {path}
    /\ \/ sent' = Over([p \in {Dest(path)} |-> disk[path]], sent)
       \/ UNCHANGED sent
    /\ UNCHANGED <<template, step, out, prof, disk, listed>>

\* One file of the map, in the map's random order.  A destination that is
\* taken is replaced: the last file wins.
Upload(path) ==
    /\ step = "upload"
    /\ path \in toSend
    /\ \/ /\ sent' = Over([p \in {Dest(path)} |-> disk[path]], sent)
          /\ toSend' = toSend \ {path}
          /\ UNCHANGED <<template, step, out, prof, disk, listed>>
       \/ Fails

Complete == step = "upload" /\ toSend = {} /\ GoTo("completed")

Settled == step \in {"completed", "failed"} /\ UNCHANGED vars

Next ==
    \/ Probe \/ StartOutput \/ StartUpload
    \/ WriteMaster \/ Encode \/ CollectHLS \/ CollectProgressive
    \/ \E path \in toSend : Upload(path)
    \/ Complete
    \/ Settled

Spec == Init /\ [][Next]_vars

-------------------------------------------------------------------------------
(* Properties *)

\* The steps have their values, and only files of the disk are listed or sent.
TypeOK ==
    /\ template \in Templates
    /\ step \in {"probe", "output", "master", "encode", "collect", "upload",
                 "completed", "failed"}
    /\ out \in 1 .. Len(template) + 1
    /\ prof \in Nat \ {0}
    /\ listed \subseteq DOMAIN disk
    /\ toSend \subseteq listed

Distinct(s) == \A i, j \in DOMAIN s : s[i] = s[j] => i = j

\* What the configuration never checks of a template, and the paths need:
\* outputs with names of their own, profiles with names of their own within
\* an output, and none called master next to a master playlist.
WellFormed(t) ==
    /\ Distinct([i \in DOMAIN t |-> t[i].name])
    /\ \A i \in DOMAIN t :
          /\ Distinct(ProfilesOf(t[i]))
          /\ HasMaster(t[i]) => "master" \notin {t[i].profiles[p] : p \in DOMAIN t[i].profiles}

Completed == step = "completed" /\ WellFormed(template)

\* Every file a completed job lists is in storage with the content it had
\* when it was made: no two files of a template share a path or, after the
\* profile directories are dropped, a destination (helpers.go:79).
EveryListedFileStored ==
    Completed => \A path \in listed :
        /\ Dest(path) \in DOMAIN sent
        /\ sent[Dest(path)] = disk[path]

\* A completed job stored every progressive file of its template.
ProgressiveOutputComplete ==
    Completed => \A i \in DOMAIN template :
        IsProgressive(template[i]) =>
            \A p \in DOMAIN ProfilesOf(template[i]) :
                LET path == MoviePath(template[i], ProfilesOf(template[i])[p])
                IN  /\ Dest(path) \in DOMAIN sent
                    /\ sent[Dest(path)] = Content(i, path)

\* A job that fails before every output is transcoded stores nothing.
FailedTranscodeStoresNothing ==
    out <= Len(template) => DOMAIN sent = {}

\* README, Supported Output Formats: the master playlist of a completed job
\* leads a player to the playlist of each profile the job lists, at
\* "profile/profile.m3u8" beside it.
MasterPlaylistResolves ==
    Completed => \A i \in DOMAIN template :
        HasMaster(template[i]) =>
            \A p \in DOMAIN template[i].profiles :
                LET path == PlaylistPath(template[i], template[i].profiles[p])
                IN  path \in listed => path \in DOMAIN sent

===============================================================================
