------------------------ MODULE MCTranscodePipeline ------------------------
(* Templates that meet every way of naming files: lists and single        *)
(* profiles, two packages in either case, shared names, and packages there *)
(* are none of.                                                            *)
EXTENDS TranscodePipeline

Hls(name, profiles) ==
    [name |-> name, package |-> "hls", profiles |-> profiles, profile |-> ""]
Mp4(name, profiles) ==
    [name |-> name, package |-> "mp4", profiles |-> profiles, profile |-> ""]
Single(name, package, profile) ==
    [name |-> name, package |-> package, profiles |-> <<>>, profile |-> profile]

MCTemplates ==
    { <<Hls("ladder", <<"360p", "720p">>), Single("movie", "progressive", "480p")>>,
      <<Mp4("a", <<"360p", "720p">>), Mp4("b", <<"360p", "720p">>)>>,
      <<Single("a", "HLS", "4k"), Single("b", "MP4", "4k"), Hls("c", <<"720p">>)>>,
      \* the names of these meet
      <<Hls("x", <<"master", "360p">>)>>,
      <<Mp4("x", <<"360p">>), Mp4("x", <<"360p">>)>>,
      <<Mp4("x", <<"360p", "360p">>)>>,
      \* these can never be completed
      <<Mp4("a", <<"360p">>), Single("b", "dash", "360p")>>,
      <<Hls("a", <<"360p">>), Single("b", "hls", "")>> }

MCToLower(s) == IF s = "HLS" THEN "hls" ELSE IF s = "MP4" THEN "mp4" ELSE s

MCKnownProfiles == {"240p", "360p", "480p", "720p", "1080p"}
=============================================================================
