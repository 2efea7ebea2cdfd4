------------------------ MODULE TranscodePipelineProofs ------------------------
(***************************************************************************)
(* Proofs about TranscodePipeline, for any templates and any profiles.     *)
(***************************************************************************)
EXTENDS TranscodePipeline, SequenceTheorems, TLAPS

-------------------------------------------------------------------------------
(* The paths of a template.                                                *)

\* Every file an output can ever write.
FilesOf(o) ==
    {path \in {MasterPath(o)} : HasMaster(o)} \cup
    UNION {Written(o, ProfilesOf(o)[p]) : p \in DOMAIN ProfilesOf(o)}

\* The profiles of an output are a list of names.
LEMMA ProfilesTyped ==
  ASSUME NEW o \in OutputConfig
  PROVE  /\ ProfilesOf(o) \in Seq(STRING)
         /\ DOMAIN ProfilesOf(o) = 1 .. Len(ProfilesOf(o))
         /\ Len(ProfilesOf(o)) \in Nat
         /\ \A p \in DOMAIN ProfilesOf(o) : ProfilesOf(o)[p] \in STRING
<1>1. SingleProfile(o) \in STRING
  BY TemplateAssumption DEF OutputConfig, SingleProfile
<1>2. <<SingleProfile(o)>> \in Seq(STRING) /\ <<>> \in Seq(STRING)
  BY <1>1
<1>3. ProfilesOf(o) \in Seq(STRING)
  BY <1>2 DEF OutputConfig, ProfilesOf
<1> QED BY <1>3, LenProperties, ElementOfSeq

\* What a file says of its output and of its profile.
LEMMA FileShape ==
  ASSUME NEW o \in OutputConfig, NEW path \in FilesOf(o)
  PROVE  \/ HasMaster(o) /\ path = MasterPath(o)
         \/ \E p \in DOMAIN ProfilesOf(o) :
               LET name == ProfilesOf(o)[p] IN
               \/ IsHLS(o) /\ path \in {PlaylistPath(o, name), SegmentsPath(o, name)}
               \/ ~IsHLS(o) /\ path = MoviePath(o, name)
  BY DEF FilesOf, Written

LEMMA FileFields ==
  ASSUME NEW o \in OutputConfig, NEW path \in FilesOf(o)
  PROVE  /\ path.dir = o.name
         /\ Dest(path).dir = path.dir /\ Dest(path).base = path.base
<1> USE DEF MasterPath, PlaylistPath, SegmentsPath, MoviePath, File, Dest
<1>1. CASE path = MasterPath(o)
  BY <1>1
<1>2. ASSUME NEW name, path = PlaylistPath(o, name)
      PROVE  /\ path.dir = o.name
             /\ Dest(path).dir = path.dir /\ Dest(path).base = path.base
  BY <1>2
<1>3. ASSUME NEW name, path = SegmentsPath(o, name)
      PROVE  /\ path.dir = o.name
             /\ Dest(path).dir = path.dir /\ Dest(path).base = path.base
  BY <1>3
<1>4. ASSUME NEW name, path = MoviePath(o, name)
      PROVE  /\ path.dir = o.name
             /\ Dest(path).dir = path.dir /\ Dest(path).base = path.base
  BY <1>4
<1> QED BY <1>1, <1>2, <1>3, <1>4, FileShape

\* In a well-formed template no two files have one destination.
LEMMA DestinationsDiffer ==
  ASSUME NEW t \in Templates, WellFormed(t),
         NEW i \in DOMAIN t, NEW j \in DOMAIN t,
         NEW a \in FilesOf(t[i]), NEW b \in FilesOf(t[j]), Dest(a) = Dest(b)
  PROVE  a = b /\ i = j
<1>1. t[i] \in OutputConfig /\ t[j] \in OutputConfig
  BY TemplateAssumption, ElementOfSeq, LenProperties
<1>2. a.dir = t[i].name /\ b.dir = t[j].name
  BY <1>1, FileFields
<1>3. a.dir = b.dir /\ a.base = b.base
  BY <1>1, FileFields
<1>4. i = j
  <2>1. t[i].name = t[j].name
    BY <1>2, <1>3
  <2>2. Distinct([k \in DOMAIN t |-> t[k].name])
    BY DEF WellFormed
  <2> QED BY <2>1, <2>2 DEF Distinct
<1>5. HasMaster(t[i]) =>
        \A p \in DOMAIN ProfilesOf(t[i]) : ProfilesOf(t[i])[p] # "master"
  <2>1. HasMaster(t[i]) => ProfilesOf(t[i]) = t[i].profiles
    BY DEF HasMaster, ProfilesOf
  <2> QED BY <2>1 DEF WellFormed
<1>6. a = b
  <2> USE DEF MasterPath, PlaylistPath, SegmentsPath, MoviePath, File
  <2>1. CASE HasMaster(t[i]) /\ a = MasterPath(t[i])
    <3>1. b.base = <<"master", "m3u8">> /\ IsHLS(t[i])
      BY <1>3, <2>1 DEF HasMaster
    <3>2. ASSUME NEW p \in DOMAIN ProfilesOf(t[j]),
                 b \in {PlaylistPath(t[j], ProfilesOf(t[j])[p]),
                        SegmentsPath(t[j], ProfilesOf(t[j])[p])}
          PROVE  FALSE
      <4>1. ProfilesOf(t[j])[p] # "master"
        BY <1>4, <1>5, <2>1
      <4>2. b.base[1] = "master" /\ b.base[2] = "m3u8"
        BY <3>1
      <4>3. CASE b = PlaylistPath(t[j], ProfilesOf(t[j])[p])
        BY <4>1, <4>2, <4>3
      <4>4. CASE b = SegmentsPath(t[j], ProfilesOf(t[j])[p])
        BY <4>2, <4>4
      <4> QED BY <3>2, <4>3, <4>4
    <3> QED BY <1>1, <1>4, <2>1, <3>1, <3>2, FileShape
  <2>2. CASE HasMaster(t[j]) /\ b = MasterPath(t[j])
    <3>1. a.base = <<"master", "m3u8">> /\ IsHLS(t[i])
      BY <1>3, <1>4, <2>2 DEF HasMaster
    <3>2. ASSUME NEW p \in DOMAIN ProfilesOf(t[i]),
                 a \in {PlaylistPath(t[i], ProfilesOf(t[i])[p]),
                        SegmentsPath(t[i], ProfilesOf(t[i])[p])}
          PROVE  FALSE
      <4>1. ProfilesOf(t[i])[p] # "master"
        BY <1>4, <1>5, <2>2
      <4>2. a.base[1] = "master" /\ a.base[2] = "m3u8"
        BY <3>1
      <4>3. CASE a = PlaylistPath(t[i], ProfilesOf(t[i])[p])
        BY <4>1, <4>2, <4>3
      <4>4. CASE a = SegmentsPath(t[i], ProfilesOf(t[i])[p])
        BY <4>2, <4>4
      <4> QED BY <3>2, <4>3, <4>4
    <3> QED BY <1>1, <1>4, <2>2, <3>1, <3>2, FileShape
  <2>3. ASSUME NEW p \in DOMAIN ProfilesOf(t[i]), NEW q \in DOMAIN ProfilesOf(t[i]),
               IsHLS(t[i]),
               a \in {PlaylistPath(t[i], ProfilesOf(t[i])[p]),
                      SegmentsPath(t[i], ProfilesOf(t[i])[p])},
               b \in {PlaylistPath(t[i], ProfilesOf(t[i])[q]),
                      SegmentsPath(t[i], ProfilesOf(t[i])[q])}
        PROVE  a = b
    <3>1. a.base[1] = b.base[1] /\ a.base[2] = b.base[2]
      BY <1>3
    <3>2. /\ a.base[1] = ProfilesOf(t[i])[p] /\ b.base[1] = ProfilesOf(t[i])[q]
          /\ a.base[2] = IF a = PlaylistPath(t[i], ProfilesOf(t[i])[p]) THEN "m3u8" ELSE "ts"
          /\ b.base[2] = IF b = PlaylistPath(t[i], ProfilesOf(t[i])[q]) THEN "m3u8" ELSE "ts"
      BY <2>3
    <3> QED BY <2>3, <3>1, <3>2
  <2>4. ASSUME NEW p \in DOMAIN ProfilesOf(t[i]), NEW q \in DOMAIN ProfilesOf(t[i]),
               a = MoviePath(t[i], ProfilesOf(t[i])[p]),
               b = MoviePath(t[i], ProfilesOf(t[i])[q])
        PROVE  a = b
    BY <1>3, <2>4
  <2> HIDE DEF MasterPath, PlaylistPath, SegmentsPath, MoviePath, File
  <2> QED BY <1>1, <1>4, <2>1, <2>2, <2>3, <2>4, FileShape
<1> QED BY <1>4, <1>6

-------------------------------------------------------------------------------
(* The inductive invariant.                                                *)

\* Where the job is: a profile is at hand while a file of it is made, and the
\* upload starts after the last output.
PlaceKnown ==
    /\ step \in {"probe", "output", "master"} => prof = 1
    /\ step \in {"master", "encode", "collect"} =>
          /\ out \in DOMAIN template
          /\ prof \in DOMAIN ProfilesOf(Output)
    /\ step = "master" => HasMaster(Output)
    /\ step \in {"upload", "completed"} => out > Len(template)
    /\ step = "completed" => toSend = {}

\* The disk has only files of the template, and those of the last ffmpeg run
\* as it wrote them.
DiskKnown ==
    /\ \A path \in DOMAIN disk : \E i \in DOMAIN template : path \in FilesOf(template[i])
    /\ step = "collect" =>
          \A path \in Written(Output, ProfilesOf(Output)[prof]) :
             path \in DOMAIN disk /\ disk[path] = Content(out, path)

\* The profiles the job is done with.
Passed(i, p) == i < out \/ (i = out /\ p < prof)

\* Every progressive file the job has made is listed, and nothing made later
\* has replaced it.
MoviesKept ==
    WellFormed(template) => \A i \in DOMAIN template :
        IsProgressive(template[i]) =>
            \A p \in DOMAIN ProfilesOf(template[i]) :
                LET path == MoviePath(template[i], ProfilesOf(template[i])[p])
                IN  Passed(i, p) => path \in listed /\ disk[path] = Content(i, path)

\* What was uploaded is still what the disk has.
SentKept ==
    step \in {"upload", "completed"} /\ WellFormed(template) =>
        \A path \in listed \ toSend :
            Dest(path) \in DOMAIN sent /\ sent[Dest(path)] = disk[path]

PipelineInv ==
    /\ TypeOK
    /\ PlaceKnown
    /\ DiskKnown
    /\ MoviesKept
    /\ FailedTranscodeStoresNothing
    /\ SentKept

\* A template is a sequence of outputs.
LEMMA TemplateTyped ==
  ASSUME TypeOK
  PROVE  /\ DOMAIN template = 1 .. Len(template) /\ Len(template) \in Nat
         /\ \A i \in DOMAIN template : template[i] \in OutputConfig
  BY TemplateAssumption, ElementOfSeq, LenProperties DEF TypeOK

LEMMA PipelineInit == Init => PipelineInv
<1> SUFFICES ASSUME Init PROVE PipelineInv
  OBVIOUS
<1>1. Len(template) \in Nat /\ DOMAIN template = 1 .. Len(template)
  BY TemplateAssumption, LenProperties DEF Init
<1>2. DOMAIN disk = {} /\ DOMAIN sent = {}
  BY DEF Init
<1>3. TypeOK
  BY <1>1, <1>2 DEF Init, TypeOK
<1>4. PlaceKnown /\ DiskKnown /\ FailedTranscodeStoresNothing /\ SentKept
  BY <1>1, <1>2 DEF Init, PlaceKnown, DiskKnown, FailedTranscodeStoresNothing, SentKept
<1>5. MoviesKept
  <2> SUFFICES ASSUME NEW i \in DOMAIN template,
                      NEW p \in DOMAIN ProfilesOf(template[i]), Passed(i, p)
               PROVE  FALSE
    BY DEF MoviesKept
  <2>1. DOMAIN ProfilesOf(template[i]) = 1 .. Len(ProfilesOf(template[i]))
    BY <1>3, TemplateTyped, ProfilesTyped
  <2>2. i >= 1 /\ p >= 1 /\ i \in Nat /\ p \in Nat
    BY <1>1, <2>1
  <2> QED BY <2>2 DEF Init, Passed
<1> QED BY <1>3, <1>4, <1>5 DEF PipelineInv

\* What is made now is a file of the template, and it replaces no progressive
\* file of another output.
LEMMA Making ==
  ASSUME PipelineInv, NEW made, DOMAIN made \subseteq FilesOf(Output),
         out \in DOMAIN template, disk' = Over(made, disk), UNCHANGED template
  PROVE  /\ listed \subseteq DOMAIN disk'
         /\ \A path \in DOMAIN disk' : \E i \in DOMAIN template : path \in FilesOf(template[i])
         /\ \A path \in DOMAIN disk \ DOMAIN made : disk'[path] = disk[path]
         /\ \A path \in DOMAIN made : path \in DOMAIN disk' /\ disk'[path] = made[path]
<1>1. DOMAIN disk' = DOMAIN made \cup DOMAIN disk
  BY DEF Over
<1>2. \A path \in DOMAIN made : \E i \in DOMAIN template : path \in FilesOf(template[i])
  BY DEF Output
<1>3. \A path \in DOMAIN disk' : \E i \in DOMAIN template : path \in FilesOf(template[i])
  BY <1>1, <1>2 DEF PipelineInv, DiskKnown
<1>4. listed \subseteq DOMAIN disk'
  BY <1>1 DEF PipelineInv, TypeOK
<1>5. \A path \in DOMAIN made : disk'[path] = made[path]
  BY DEF Over
<1>6. ASSUME NEW path \in DOMAIN disk \ DOMAIN made PROVE disk'[path] = disk[path]
  BY DEF Over
<1> QED BY <1>1, <1>3, <1>4, <1>5, <1>6

\* A progressive file the job has made before is one of its own output.
LEMMA MovieOwned ==
  ASSUME NEW i \in DOMAIN template, IsProgressive(template[i]),
         NEW p \in DOMAIN ProfilesOf(template[i])
  PROVE  MoviePath(template[i], ProfilesOf(template[i])[p]) \in FilesOf(template[i])
  BY DEF FilesOf, Written, IsProgressive, IsHLS

\* The profiles passed by one step on are those passed and the one at hand.
LEMMA AdvanceFacts ==
  ASSUME PipelineInv, step = "collect", Advance, UNCHANGED <<template, toSend>>
  PROVE  /\ step' \in {"encode", "output"}
         /\ out' \in 1 .. Len(template) + 1 /\ out' >= out
         /\ prof' \in Nat \ {0}
         /\ step' = "output" => prof' = 1
         /\ PlaceKnown'
         /\ \A i \in DOMAIN template : \A p \in DOMAIN ProfilesOf(template[i]) :
               Passed(i, p)' => Passed(i, p) \/ (i = out /\ p = prof)
<1> USE DEF PipelineInv
<1>1. /\ DOMAIN template = 1 .. Len(template) /\ Len(template) \in Nat
      /\ out \in DOMAIN template /\ Output \in OutputConfig
      /\ prof \in DOMAIN ProfilesOf(Output)
  BY TemplateTyped DEF PlaceKnown, Output
<1>2. /\ DOMAIN ProfilesOf(Output) = 1 .. Len(ProfilesOf(Output))
      /\ Len(ProfilesOf(Output)) \in Nat
  BY <1>1, ProfilesTyped
<1>3. out \in Nat /\ prof \in Nat
  BY <1>1, <1>2
<1>4. CASE prof < Len(ProfilesOf(Output))
  <2>1. step' = "encode" /\ prof' = prof + 1 /\ out' = out /\ Output' = Output
    BY <1>4 DEF Advance, Output
  <2>2. prof' \in DOMAIN ProfilesOf(Output')
    BY <1>2, <1>3, <1>4, <2>1
  <2>3. PlaceKnown'
    BY <1>1, <2>1, <2>2 DEF PlaceKnown
  <2>4. ASSUME NEW i \in DOMAIN template, NEW p \in DOMAIN ProfilesOf(template[i]),
               Passed(i, p)'
        PROVE  Passed(i, p) \/ (i = out /\ p = prof)
    <3>1. p \in Nat /\ i \in Nat
      BY <1>1, TemplateTyped, ProfilesTyped
    <3> QED BY <1>3, <2>1, <2>4, <3>1 DEF Passed
  <2> QED BY <1>1, <1>3, <2>1, <2>3, <2>4
<1>5. CASE ~(prof < Len(ProfilesOf(Output)))
  <2>1. step' = "output" /\ prof' = 1 /\ out' = out + 1
    BY <1>5 DEF Advance
  <2>2. PlaceKnown'
    BY <2>1 DEF PlaceKnown
  <2>3. ASSUME NEW i \in DOMAIN template, NEW p \in DOMAIN ProfilesOf(template[i]),
               Passed(i, p)'
        PROVE  Passed(i, p) \/ (i = out /\ p = prof)
    <3>1. p \in 1 .. Len(ProfilesOf(template[i])) /\ i \in Nat
          /\ Len(ProfilesOf(template[i])) \in Nat
      BY <1>1, TemplateTyped, ProfilesTyped
    <3>2. i < out \/ i = out
      BY <1>3, <2>1, <2>3, <3>1 DEF Passed
    <3>3. i = out => p \in 1 .. Len(ProfilesOf(Output))
      BY <3>1 DEF Output
    <3>4. i = out => p < prof \/ p = prof
      BY <1>2, <1>3, <1>5, <3>1, <3>3
    <3> QED BY <3>2, <3>4 DEF Passed
  <2> QED BY <1>1, <1>3, <2>1, <2>2, <2>3
<1> QED BY <1>4, <1>5
-------------------------------------------------------------------------------
(* Every step keeps the invariant.                                         *)

\* A step that only goes on to the next, or ends the job.
LEMMA GoesOn ==
  ASSUME PipelineInv, UNCHANGED <<template, out, prof, disk, listed, toSend, sent>>,
         step' \in {"output", "master", "encode", "completed", "failed"},
         PlaceKnown', step' = "completed" => step = "upload"
  PROVE  PipelineInv'
<1>1. TypeOK' /\ FailedTranscodeStoresNothing' /\ MoviesKept'
  BY DEF PipelineInv, TypeOK, FailedTranscodeStoresNothing, MoviesKept, Passed
<1>2. DiskKnown' /\ SentKept'
  BY DEF PipelineInv, DiskKnown, SentKept
<1> QED BY <1>1, <1>2 DEF PipelineInv

LEMMA FailsStep == PipelineInv /\ Fails => PipelineInv'
<1> SUFFICES ASSUME PipelineInv, Fails PROVE PipelineInv'
  OBVIOUS
<1>1. PlaceKnown'
  BY DEF Fails, PlaceKnown
<1> QED BY <1>1, GoesOn DEF Fails

LEMMA GoToStep ==
  ASSUME PipelineInv, step \in {"probe", "output", "upload"},
         Probe \/ StartOutput \/ Complete
  PROVE  PipelineInv'
<1>1. CASE Fails
  BY <1>1, FailsStep
<1>2. CASE Probe /\ GoTo("output")
  <2>1. PlaceKnown'
    BY <1>2 DEF Probe, GoTo, PlaceKnown, PipelineInv
  <2> QED BY <1>2, <2>1, GoesOn DEF GoTo
<1>3. CASE StartOutput /\ ~Fails
  <2>1. out \in DOMAIN template /\ Output \in OutputConfig
    BY <1>3, TemplateTyped DEF StartOutput, PipelineInv, TypeOK, Output
  <2>2. ProfilesOf(Output) # <<>> /\ step = "output"
    BY <1>3 DEF StartOutput
  <2>3. prof \in DOMAIN ProfilesOf(Output)
    <3>1. prof = 1
      BY <2>2 DEF PipelineInv, PlaceKnown
    <3> QED BY <2>1, <2>2, <3>1, ProfilesTyped, EmptySeq
  <2>4. Output' = Output /\ UNCHANGED <<template, out, prof, disk, listed, toSend, sent>>
    BY <1>3 DEF StartOutput, GoTo, Output
  <2>5. (step' = "master" /\ HasMaster(Output)) \/ step' = "encode"
    BY <1>3 DEF StartOutput, GoTo
  <2>6. PlaceKnown'
    BY <2>1, <2>2, <2>3, <2>4, <2>5 DEF PlaceKnown, PipelineInv
  <2> QED BY <2>4, <2>5, <2>6, GoesOn
<1>4. CASE Complete
  <2>1. PlaceKnown'
    BY <1>4 DEF Complete, GoTo, PlaceKnown, PipelineInv
  <2> QED BY <1>4, <2>1, GoesOn DEF Complete, GoTo
<1> QED BY <1>1, <1>2, <1>3, <1>4 DEF Probe

LEMMA StartUploadStep == PipelineInv /\ StartUpload => PipelineInv'
<1> SUFFICES ASSUME PipelineInv, StartUpload PROVE PipelineInv'
  OBVIOUS
<1> USE DEF PipelineInv, StartUpload
<1>1. TypeOK' /\ FailedTranscodeStoresNothing' /\ MoviesKept'
  BY DEF TypeOK, FailedTranscodeStoresNothing, MoviesKept, Passed
<1>2. PlaceKnown' /\ DiskKnown' /\ SentKept'
  BY DEF PlaceKnown, DiskKnown, SentKept
<1> QED BY <1>1, <1>2

\* A file made for this output is not a progressive file of another one.
LEMMA WriteMasterStep == PipelineInv /\ WriteMaster => PipelineInv'
<1> SUFFICES ASSUME PipelineInv, WriteMaster, ~Fails PROVE PipelineInv'
  BY FailsStep
<1> DEFINE path0 == MasterPath(Output)
           made  == [p \in {path0} |-> <<out, "", "m3u8">>]
<1>1. /\ disk' = Over(made, disk) /\ listed' = listed \cup {path0} /\ step' = "encode"
      /\ UNCHANGED <<template, out, prof, toSend, sent>> /\ step = "master"
      /\ Output' = Output
  BY DEF WriteMaster, Output
<1>2. out \in DOMAIN template /\ HasMaster(Output) /\ DOMAIN made \subseteq FilesOf(Output)
  BY <1>1 DEF PipelineInv, PlaceKnown, FilesOf
<1>3. /\ listed \subseteq DOMAIN disk' /\ path0 \in DOMAIN disk'
      /\ \A path \in DOMAIN disk' : \E i \in DOMAIN template : path \in FilesOf(template[i])
      /\ \A path \in DOMAIN disk \ {path0} : disk'[path] = disk[path]
  <2> HIDE DEF path0
  <2>1. DOMAIN made = {path0}
    OBVIOUS
  <2> HIDE DEF made
  <2> QED BY <1>1, <1>2, <2>1, Making
<1>4. TypeOK' /\ PlaceKnown' /\ FailedTranscodeStoresNothing' /\ SentKept' /\ DiskKnown'
  <2> HIDE DEF path0, made
  <2>1. TypeOK'
    BY <1>1, <1>3 DEF PipelineInv, TypeOK
  <2>2. PlaceKnown'
    BY <1>1, <1>2 DEF PipelineInv, PlaceKnown
  <2>3. FailedTranscodeStoresNothing' /\ SentKept' /\ DiskKnown'
    BY <1>1, <1>3 DEF PipelineInv, FailedTranscodeStoresNothing, SentKept, DiskKnown
  <2> QED BY <2>1, <2>2, <2>3
<1>5. MoviesKept'
  <2> SUFFICES ASSUME WellFormed(template),
                      NEW i \in DOMAIN template, IsProgressive(template[i]),
                      NEW p \in DOMAIN ProfilesOf(template[i]), Passed(i, p)
               PROVE  LET path == MoviePath(template[i], ProfilesOf(template[i])[p])
                      IN  path \in listed' /\ disk'[path] = Content(i, path)
    BY <1>1 DEF MoviesKept, Passed
  <2> DEFINE path == MoviePath(template[i], ProfilesOf(template[i])[p])
  <2>1. path \in listed /\ disk[path] = Content(i, path)
    BY DEF PipelineInv, MoviesKept
  <2>2. path # path0
    <3>1. path.base[2] = "mp4" /\ path0.base[2] = "m3u8"
      BY DEF MoviePath, MasterPath, File
    <3> QED BY <3>1
  <2> HIDE DEF path, path0
  <2>3. path \in DOMAIN disk
    BY <2>1 DEF PipelineInv, TypeOK
  <2>4. path \in listed' /\ disk'[path] = Content(i, path)
    BY <1>1, <1>3, <2>1, <2>2, <2>3
  <2> QED BY <2>4 DEF path
<1> QED BY <1>4, <1>5 DEF PipelineInv

LEMMA EncodeStep == PipelineInv /\ Encode => PipelineInv'
<1> SUFFICES ASSUME PipelineInv, Encode, ~Fails PROVE PipelineInv'
  BY FailsStep
<1> DEFINE files == Written(Output, ProfilesOf(Output)[prof])
           made  == [path \in files |-> Content(out, path)]
<1>1. /\ disk' = Over(made, disk) /\ step' = "collect"
      /\ UNCHANGED <<template, out, prof, listed, toSend, sent>> /\ step = "encode"
      /\ Output' = Output
  BY DEF Encode, Output
<1>2. /\ out \in DOMAIN template /\ prof \in DOMAIN ProfilesOf(Output)
      /\ DOMAIN made = files /\ DOMAIN made \subseteq FilesOf(Output)
  BY <1>1 DEF PipelineInv, PlaceKnown, FilesOf
<1>3. /\ listed \subseteq DOMAIN disk'
      /\ \A path \in DOMAIN disk' : \E i \in DOMAIN template : path \in FilesOf(template[i])
      /\ \A path \in DOMAIN disk \ files : disk'[path] = disk[path]
      /\ \A path \in files : path \in DOMAIN disk' /\ disk'[path] = Content(out, path)
  <2> HIDE DEF files
  <2>1. \A path \in files : made[path] = Content(out, path)
    OBVIOUS
  <2> HIDE DEF made
  <2> QED BY <1>1, <1>2, <2>1, Making
<1>4. TypeOK' /\ PlaceKnown' /\ FailedTranscodeStoresNothing' /\ SentKept' /\ DiskKnown'
  <2>1. DiskKnown'
    BY <1>1, <1>3 DEF DiskKnown
  <2> HIDE DEF files, made
  <2>2. TypeOK'
    BY <1>1, <1>3 DEF PipelineInv, TypeOK
  <2>3. PlaceKnown'
    BY <1>1, <1>2 DEF PipelineInv, PlaceKnown
  <2>4. FailedTranscodeStoresNothing' /\ SentKept'
    BY <1>1 DEF PipelineInv, FailedTranscodeStoresNothing, SentKept
  <2> QED BY <2>1, <2>2, <2>3, <2>4
<1>5. MoviesKept'
  <2> SUFFICES ASSUME WellFormed(template),
                      NEW i \in DOMAIN template, IsProgressive(template[i]),
                      NEW p \in DOMAIN ProfilesOf(template[i]), Passed(i, p)
               PROVE  LET path == MoviePath(template[i], ProfilesOf(template[i])[p])
                      IN  path \in listed' /\ disk'[path] = Content(i, path)
    BY <1>1 DEF MoviesKept, Passed
  <2> DEFINE path == MoviePath(template[i], ProfilesOf(template[i])[p])
  <2>1. path \in listed /\ disk[path] = Content(i, path) /\ path \in FilesOf(template[i])
    BY MovieOwned DEF PipelineInv, MoviesKept
  <2>2. path \in files => i = out
    <3>1. path \in files => path \in FilesOf(template[out])
      BY <1>2 DEF Output
    <3>2. template \in Templates
      BY DEF PipelineInv, TypeOK
    <3> HIDE DEF path, files
    <3> QED BY <1>2, <2>1, <3>1, <3>2, DestinationsDiffer
  <2> HIDE DEF path, files
  <2>3. path \in DOMAIN disk
    BY <2>1 DEF PipelineInv, TypeOK
  <2>4. path \in listed' /\ disk'[path] = Content(i, path)
    BY <1>1, <1>3, <2>1, <2>2, <2>3
  <2> QED BY <2>4 DEF path
<1> QED BY <1>4, <1>5 DEF PipelineInv

\* A run's files are collected: the progressive one without fail.
LEMMA CollectStep == PipelineInv /\ (CollectHLS \/ CollectProgressive) => PipelineInv'
<1> SUFFICES ASSUME PipelineInv, CollectHLS \/ CollectProgressive, ~Fails
             PROVE  PipelineInv'
  BY FailsStep
<1> DEFINE files == Written(Output, ProfilesOf(Output)[prof])
<1>1. /\ step = "collect" /\ Advance /\ UNCHANGED <<template, disk, toSend, sent>>
      /\ listed \subseteq listed' /\ listed' \subseteq listed \cup files
      /\ IsProgressive(Output) => listed' = listed \cup files
  BY DEF CollectHLS, CollectProgressive, IsHLS, IsProgressive
<1>2. \A path \in files : path \in DOMAIN disk /\ disk[path] = Content(out, path)
  BY <1>1 DEF PipelineInv, DiskKnown
<1>3. /\ step' \in {"encode", "output"} /\ out' >= out
      /\ out' \in 1 .. Len(template) + 1 /\ prof' \in Nat \ {0}
      /\ PlaceKnown'
  BY <1>1, AdvanceFacts
<1>4. TypeOK' /\ DiskKnown' /\ FailedTranscodeStoresNothing' /\ SentKept'
  <2> HIDE DEF files
  <2>1. TypeOK' /\ DiskKnown' /\ SentKept'
    BY <1>1, <1>2, <1>3 DEF PipelineInv, TypeOK, DiskKnown, SentKept
  <2>2. out <= Len(template)
    BY <1>1, TemplateTyped DEF PipelineInv, PlaceKnown
  <2>3. FailedTranscodeStoresNothing'
    BY <1>1, <2>2 DEF PipelineInv, FailedTranscodeStoresNothing
  <2> QED BY <2>1, <2>3
<1>5. MoviesKept'
  <2> SUFFICES ASSUME WellFormed(template),
                      NEW i \in DOMAIN template, IsProgressive(template[i]),
                      NEW p \in DOMAIN ProfilesOf(template[i]), Passed(i, p)'
               PROVE  LET path == MoviePath(template[i], ProfilesOf(template[i])[p])
                      IN  path \in listed' /\ disk[path] = Content(i, path)
    BY <1>1 DEF MoviesKept, Passed
  <2>1. CASE Passed(i, p)
    BY <1>1, <2>1 DEF PipelineInv, MoviesKept
  <2>2. CASE i = out /\ p = prof
    <3>1. MoviePath(template[i], ProfilesOf(template[i])[p]) \in files /\ IsProgressive(Output)
      BY <2>2 DEF Output, Written, IsProgressive, IsHLS
    <3> HIDE DEF files
    <3> QED BY <1>1, <1>2, <2>2, <3>1
  <2> QED BY <1>1, <2>1, <2>2, AdvanceFacts
<1> QED BY <1>3, <1>4, <1>5 DEF PipelineInv

\* A file is uploaded: it replaces none sent before.
LEMMA UploadStep ==
  ASSUME PipelineInv, NEW path \in toSend, Upload(path) PROVE PipelineInv'
<1> SUFFICES ASSUME ~Fails PROVE PipelineInv'
  BY FailsStep
<1> DEFINE made == [p \in {Dest(path)} |-> disk[path]]
<1>1. /\ step = "upload" /\ sent' = Over(made, sent) /\ toSend' = toSend \ {path}
      /\ UNCHANGED <<template, step, out, prof, disk, listed>>
  BY DEF Upload
<1>2. TypeOK' /\ PlaceKnown' /\ DiskKnown' /\ MoviesKept'
  BY <1>1 DEF PipelineInv, TypeOK, PlaceKnown, DiskKnown, MoviesKept, Passed, Output
<1>3. FailedTranscodeStoresNothing'
  BY <1>1, TemplateTyped DEF PipelineInv, TypeOK, PlaceKnown, FailedTranscodeStoresNothing
<1>4. SentKept'
  <2> SUFFICES ASSUME WellFormed(template), NEW q \in listed \ (toSend \ {path})
               PROVE  Dest(q) \in DOMAIN sent' /\ sent'[Dest(q)] = disk[q]
    BY <1>1 DEF SentKept
  <2>1. /\ DOMAIN sent' = {Dest(path)} \cup DOMAIN sent
        /\ sent'[Dest(path)] = disk[path]
        /\ \A d \in DOMAIN sent : d # Dest(path) => sent'[d] = sent[d]
    <3>1. DOMAIN made = {Dest(path)} /\ made[Dest(path)] = disk[path]
      OBVIOUS
    <3> HIDE DEF made
    <3>2. DOMAIN sent' = {Dest(path)} \cup DOMAIN sent
      BY <1>1, <3>1 DEF Over
    <3>3. sent'[Dest(path)] = disk[path]
      BY <1>1, <3>1 DEF Over
    <3>4. ASSUME NEW d \in DOMAIN sent, d # Dest(path) PROVE sent'[d] = sent[d]
      BY <1>1, <3>1, <3>4 DEF Over
    <3> QED BY <3>2, <3>3, <3>4
  <2>2. CASE q = path
    BY <2>1, <2>2
  <2>3. CASE q # path
    <3>1. Dest(q) \in DOMAIN sent /\ sent[Dest(q)] = disk[q]
      BY <1>1, <2>3 DEF PipelineInv, SentKept
    <3>2. PICK i \in DOMAIN template : q \in FilesOf(template[i])
      BY DEF PipelineInv, TypeOK, DiskKnown
    <3>3. PICK j \in DOMAIN template : path \in FilesOf(template[j])
      BY DEF PipelineInv, TypeOK, DiskKnown
    <3>4. template \in Templates
      BY DEF PipelineInv, TypeOK
    <3>5. Dest(q) # Dest(path)
      BY <2>3, <3>2, <3>3, <3>4, DestinationsDiffer
    <3> QED BY <2>1, <3>1, <3>5
  <2> QED BY <2>2, <2>3
<1> QED BY <1>2, <1>3, <1>4 DEF PipelineInv

LEMMA PipelineStep == PipelineInv /\ [Next]_vars => PipelineInv'
<1> SUFFICES ASSUME PipelineInv, [Next]_vars PROVE PipelineInv'
  OBVIOUS
<1>1. CASE Probe \/ StartOutput \/ Complete
  BY <1>1, GoToStep DEF Probe, StartOutput, Complete
<1>2. CASE UNCHANGED vars
  BY <1>2 DEF vars, PipelineInv, TypeOK, PlaceKnown, DiskKnown, MoviesKept, Passed,
              FailedTranscodeStoresNothing, SentKept, Output
<1>3. CASE \E path \in toSend : Upload(path)
  BY <1>3, UploadStep
<1> QED
  BY <1>1, <1>2, <1>3, StartUploadStep, WriteMasterStep, EncodeStep, CollectStep
  DEF Next, Settled

-------------------------------------------------------------------------------
(* Nothing is overwritten.                                                 *)

\* The files the job has made before the one it is at.
MadeBefore(path) ==
    \/ \E i \in DOMAIN template :
          /\ HasMaster(template[i]) /\ path = MasterPath(template[i])
          /\ i < out \/ (i = out /\ step \in {"encode", "collect"})
    \/ \E i \in DOMAIN template : \E p \in DOMAIN ProfilesOf(template[i]) :
          Passed(i, p) /\ path \in Written(template[i], ProfilesOf(template[i])[p])

Transcoding == step \in {"probe", "output", "master", "encode", "collect"}

\* While the outputs are transcoded the disk has what was made before and
\* what the last run wrote, and storage has nothing; from then on it has what
\* was taken out of the map.
StoresFresh ==
    /\ Transcoding => \A path \in DOMAIN disk :
          \/ MadeBefore(path)
          \/ step = "collect" /\ path \in Written(Output, ProfilesOf(Output)[prof])
    /\ Transcoding => DOMAIN sent = {}
    /\ \A dest \in DOMAIN sent : \E path \in listed \ toSend : dest = Dest(path)

\* ffmpeg is run with -y, WriteFile truncates and an upload replaces: in a
\* well-formed template none of them ever meets a file that is there, on the
\* disk or in storage.
NothingIsOverwritten ==
    [][WellFormed(template) =>
          /\ \A path \in DOMAIN disk : path \in DOMAIN disk' /\ disk'[path] = disk[path]
          /\ \A dest \in DOMAIN sent : dest \in DOMAIN sent' /\ sent'[dest] = sent[dest]]_vars

\* The master playlist is written before any other file of its output.
LEMMA MasterIsFirst ==
  ASSUME PipelineInv, StoresFresh, WellFormed(template), step = "master"
  PROVE  MasterPath(Output) \notin DOMAIN disk
<1>1. /\ template \in Templates /\ out \in DOMAIN template /\ HasMaster(Output)
      /\ prof = 1 /\ template[out] = Output
      /\ MasterPath(Output) \in FilesOf(template[out])
  BY DEF PipelineInv, TypeOK, PlaceKnown, Output, FilesOf
<1>2. SUFFICES ASSUME MadeBefore(MasterPath(Output)) PROVE FALSE
  BY DEF StoresFresh, Transcoding
<1>3. DOMAIN template = 1 .. Len(template) /\ Len(template) \in Nat
  BY TemplateTyped DEF PipelineInv
<1>4. ASSUME NEW i \in DOMAIN template, MasterPath(Output) \in FilesOf(template[i])
      PROVE  i = out
  BY <1>1, <1>4, DestinationsDiffer
<1>5. ASSUME NEW i \in DOMAIN template, HasMaster(template[i]), i < out,
             MasterPath(Output) = MasterPath(template[i])
      PROVE  FALSE
  <2>1. MasterPath(Output) \in FilesOf(template[i])
    BY <1>5 DEF FilesOf
  <2> QED BY <1>1, <1>3, <1>4, <1>5, <2>1
<1>6. ASSUME NEW i \in DOMAIN template, NEW p \in DOMAIN ProfilesOf(template[i]), Passed(i, p),
             MasterPath(Output) \in Written(template[i], ProfilesOf(template[i])[p])
      PROVE  FALSE
  <2>1. i = out
    BY <1>4, <1>6 DEF FilesOf
  <2>2. p \in Nat /\ p >= 1
    BY <1>6, TemplateTyped, ProfilesTyped DEF PipelineInv
  <2> QED BY <1>1, <1>3, <1>6, <2>1, <2>2 DEF Passed
<1> QED BY <1>2, <1>5, <1>6 DEF MadeBefore

\* Each profile's run writes files that no step before it has written.
LEMMA RunsAreApart ==
  ASSUME PipelineInv, StoresFresh, WellFormed(template), step = "encode",
         NEW path \in Written(Output, ProfilesOf(Output)[prof])
  PROVE  path \notin DOMAIN disk
<1>1. /\ template \in Templates /\ out \in DOMAIN template /\ template[out] = Output
      /\ prof \in DOMAIN ProfilesOf(Output) /\ path \in FilesOf(template[out])
  BY DEF PipelineInv, TypeOK, PlaceKnown, Output, FilesOf
<1>2. SUFFICES ASSUME MadeBefore(path) PROVE FALSE
  BY DEF StoresFresh, Transcoding
<1>3. ASSUME NEW i \in DOMAIN template, path \in FilesOf(template[i])
      PROVE  i = out
  BY <1>1, <1>3, DestinationsDiffer
<1>4. ASSUME NEW name, path \in Written(Output, name)
      PROVE  path.base[1] = name
  <2>1. \/ path = PlaylistPath(Output, name) \/ path = SegmentsPath(Output, name)
        \/ path = MoviePath(Output, name)
    BY <1>4 DEF Written
  <2>2. \E dir, sub, kind : path = File(dir, sub, name, kind)
    BY <2>1 DEF PlaylistPath, SegmentsPath, MoviePath
  <2> QED BY <2>2 DEF File
<1>5. ASSUME NEW i \in DOMAIN template, HasMaster(template[i]), path = MasterPath(template[i])
      PROVE  FALSE
  <2>1. i = out
    BY <1>3, <1>5 DEF FilesOf
  <2>2. path.base[1] = "master"
    BY <1>5 DEF MasterPath, File
  <2>3. ProfilesOf(Output) = Output.profiles
    BY <1>1, <1>5, <2>1 DEF HasMaster, ProfilesOf
  <2>4. ProfilesOf(Output)[prof] # "master"
    BY <1>1, <1>5, <2>1, <2>3 DEF WellFormed
  <2> QED BY <1>4, <2>2, <2>4
<1>6. ASSUME NEW i \in DOMAIN template, NEW p \in DOMAIN ProfilesOf(template[i]), Passed(i, p),
             path \in Written(template[i], ProfilesOf(template[i])[p])
      PROVE  FALSE
  <2>1. i = out
    BY <1>3, <1>6 DEF FilesOf
  <2>2. p \in DOMAIN ProfilesOf(Output) /\ path.base[1] = ProfilesOf(Output)[p]
    BY <1>1, <1>4, <1>6, <2>1
  <2>3. ProfilesOf(Output)[p] = ProfilesOf(Output)[prof]
    BY <1>4, <2>2
  <2>4. Distinct(ProfilesOf(Output))
    BY <1>1 DEF WellFormed
  <2>5. p = prof
    BY <1>1, <2>2, <2>3, <2>4 DEF Distinct
  <2>6. prof \in Nat /\ out \in Nat
    BY <1>1, TemplateTyped DEF PipelineInv, TypeOK
  <2> QED BY <1>6, <2>1, <2>5, <2>6 DEF Passed
<1> QED BY <1>2, <1>5, <1>6 DEF MadeBefore

\* A file that is still in the map has a destination of its own.
LEMMA DestinationIsFree ==
  ASSUME PipelineInv, StoresFresh, WellFormed(template), NEW path \in toSend
  PROVE  Dest(path) \notin DOMAIN sent
<1> SUFFICES ASSUME NEW q \in listed \ toSend, Dest(path) = Dest(q) PROVE FALSE
  BY DEF StoresFresh
<1>1. PICK i \in DOMAIN template : path \in FilesOf(template[i])
  BY DEF PipelineInv, TypeOK, DiskKnown
<1>2. PICK j \in DOMAIN template : q \in FilesOf(template[j])
  BY DEF PipelineInv, TypeOK, DiskKnown
<1>3. template \in Templates
  BY DEF PipelineInv, TypeOK
<1> QED BY <1>1, <1>2, <1>3, DestinationsDiffer

\* What was made before stays so on the way to the next run's files.
LEMMA MadeStays ==
  ASSUME UNCHANGED <<template, out, prof>>, step # "collect",
         step = "encode" => step' \in {"encode", "collect"},
         NEW path, MadeBefore(path)
  PROVE  MadeBefore(path)'
  BY DEF MadeBefore, Passed

\* A run's files are made before what comes next, and so is all before them.
LEMMA MadeByAdvancing ==
  ASSUME PipelineInv, step = "collect", Advance, UNCHANGED template, NEW path,
         \/ MadeBefore(path)
         \/ path \in Written(Output, ProfilesOf(Output)[prof])
  PROVE  MadeBefore(path)'
<1>1. /\ out \in DOMAIN template /\ prof \in DOMAIN ProfilesOf(Output)
      /\ out \in Nat /\ prof \in Nat /\ \A i \in DOMAIN template : i \in Nat
  BY TemplateTyped DEF PipelineInv, TypeOK, PlaceKnown
<1>2. \/ step' = "encode" /\ prof' = prof + 1 /\ out' = out
      \/ out' = out + 1
  BY DEF Advance
<1>3. ASSUME NEW i \in DOMAIN template, NEW p \in DOMAIN ProfilesOf(template[i]),
             Passed(i, p) \/ (i = out /\ p = prof)
      PROVE  Passed(i, p)'
  <2>1. p \in Nat
    BY TemplateTyped, ProfilesTyped DEF PipelineInv
  <2> QED BY <1>1, <1>2, <1>3, <2>1 DEF Passed
<1>4. ASSUME NEW i \in DOMAIN template, i < out \/ i = out
      PROVE  i < out' \/ (i = out' /\ step' \in {"encode", "collect"})
  BY <1>1, <1>2, <1>4
<1>5. CASE path \in Written(Output, ProfilesOf(Output)[prof])
  <2>1. Output = template[out]
    BY DEF Output
  <2> QED BY <1>1, <1>3, <1>5, <2>1 DEF MadeBefore
<1>6. CASE MadeBefore(path)
  BY <1>3, <1>4, <1>6 DEF MadeBefore
<1> QED BY <1>5, <1>6

LEMMA FreshInit == Init => StoresFresh
  BY DEF Init, StoresFresh, Transcoding

\* The steps up to the upload: what they put on the disk is what the place in
\* the template says.
LEMMA FreshTranscoding ==
  ASSUME PipelineInv, StoresFresh, Transcoding, Next PROVE StoresFresh'
<1>1. DOMAIN sent = {}
  BY DEF StoresFresh
<1>2. sent' = sent /\ template' = template
  BY DEF Transcoding, Next, Probe, StartOutput, StartUpload, WriteMaster, Encode, CollectHLS,
     CollectProgressive, Upload, Complete, Settled, Fails, GoTo
<1>3. SUFFICES ASSUME Transcoding', NEW path \in DOMAIN disk'
      PROVE  \/ MadeBefore(path)'
             \/ step' = "collect" /\ path \in Written(Output, ProfilesOf(Output)[prof])'
  BY <1>1, <1>2 DEF StoresFresh
<1>4. CASE Probe \/ StartOutput
  <2>1. /\ UNCHANGED <<template, out, prof, disk>> /\ step \in {"probe", "output"}
    BY <1>4 DEF Probe, StartOutput, GoTo, Fails
  <2>2. MadeBefore(path)
    BY <2>1 DEF StoresFresh, Transcoding
  <2> QED BY <2>1, <2>2, MadeStays
<1>5. CASE WriteMaster
  <2>1. /\ UNCHANGED <<template, out, prof>> /\ step = "master" /\ step' = "encode"
        /\ DOMAIN disk' = {MasterPath(Output)} \cup DOMAIN disk
    BY <1>3, <1>5 DEF WriteMaster, Fails, Transcoding, Over
  <2>2. CASE path = MasterPath(Output)
    <3>1. out \in DOMAIN template /\ HasMaster(template[out]) /\ path = MasterPath(template[out])
      BY <2>1, <2>2 DEF PipelineInv, PlaceKnown, Output
    <3> QED BY <2>1, <3>1 DEF MadeBefore
  <2>3. CASE path \in DOMAIN disk
    <3>1. MadeBefore(path)
      BY <2>1, <2>3 DEF StoresFresh
    <3> QED BY <2>1, <3>1, MadeStays
  <2> QED BY <2>1, <2>2, <2>3
<1>6. CASE Encode
  <2> DEFINE files == Written(Output, ProfilesOf(Output)[prof])
  <2>1. /\ UNCHANGED <<template, out, prof>> /\ step = "encode" /\ step' = "collect"
        /\ DOMAIN disk' = files \cup DOMAIN disk
    BY <1>3, <1>6 DEF Encode, Fails, Transcoding, Over
  <2>2. files' = files
    BY <2>1 DEF Output
  <2>3. CASE path \in files
    BY <2>1, <2>2, <2>3
  <2>4. CASE path \in DOMAIN disk
    <3>1. MadeBefore(path)
      BY <2>1, <2>4 DEF StoresFresh
    <3> QED BY <2>1, <3>1, MadeStays
  <2> QED BY <2>1, <2>3, <2>4
<1>7. CASE CollectHLS \/ CollectProgressive
  <2>1. step = "collect" /\ Advance /\ UNCHANGED <<template, disk>>
    BY <1>3, <1>7 DEF CollectHLS, CollectProgressive, Fails, Transcoding
  <2>2. MadeBefore(path) \/ path \in Written(Output, ProfilesOf(Output)[prof])
    BY <2>1 DEF StoresFresh
  <2> QED BY <2>1, <2>2, MadeByAdvancing
<1>8. ~(StartUpload \/ (\E p \in toSend : Upload(p)) \/ Complete \/ Settled)
  BY <1>3 DEF Transcoding, StartUpload, Upload, Complete, Settled, Fails, GoTo
<1> QED BY <1>4, <1>5, <1>6, <1>7, <1>8 DEF Next

\* From the upload on only storage changes, by what leaves the map.
LEMMA FreshStep == PipelineInv /\ StoresFresh /\ [Next]_vars => StoresFresh'
<1> SUFFICES ASSUME PipelineInv, StoresFresh, [Next]_vars PROVE StoresFresh'
  OBVIOUS
<1>1. CASE UNCHANGED vars
  BY <1>1 DEF vars, StoresFresh, Transcoding, MadeBefore, Passed, Output
<1>2. CASE Transcoding /\ Next
  BY <1>2, FreshTranscoding
<1>3. CASE ~Transcoding /\ Next
  <2>1. ~Transcoding' /\ listed' = listed
    BY <1>3 DEF Transcoding, Next, Probe, StartOutput, StartUpload, WriteMaster, Encode,
       CollectHLS, CollectProgressive, Upload, Complete, Settled, Fails, GoTo, vars
  <2>2. ASSUME NEW dest \in DOMAIN sent' PROVE \E path \in listed' \ toSend' : dest = Dest(path)
    <3>1. CASE sent' = sent /\ toSend' = toSend
      BY <2>1, <3>1 DEF StoresFresh
    <3>2. ASSUME NEW path \in toSend, Upload(path), ~Fails
          PROVE  \E q \in listed' \ toSend' : dest = Dest(q)
      <4>1. toSend' = toSend \ {path} /\ DOMAIN sent' = {Dest(path)} \cup DOMAIN sent
            /\ path \in listed
        BY <3>2 DEF Upload, Over, PipelineInv, TypeOK
      <4> QED BY <2>1, <4>1 DEF StoresFresh
    <3> QED
      BY <1>3, <3>1, <3>2 DEF Transcoding, Next, Probe, StartOutput, StartUpload, WriteMaster,
         Encode, CollectHLS, CollectProgressive, Upload, Complete, Settled, Fails, GoTo, vars
  <2> QED BY <2>1, <2>2 DEF StoresFresh
<1> QED BY <1>1, <1>2, <1>3

\* The only steps that write, and that what they write was not there.
LEMMA NothingReplaced ==
  ASSUME PipelineInv, StoresFresh, Next, WellFormed(template)
  PROVE  /\ \A path \in DOMAIN disk : path \in DOMAIN disk' /\ disk'[path] = disk[path]
         /\ \A dest \in DOMAIN sent : dest \in DOMAIN sent' /\ sent'[dest] = sent[dest]
<1>1. ASSUME NEW made, NEW store, DOMAIN made \cap DOMAIN store = {}
      PROVE  \A path \in DOMAIN store :
                path \in DOMAIN Over(made, store) /\ Over(made, store)[path] = store[path]
  BY <1>1 DEF Over
<1>2. CASE UNCHANGED <<disk, sent>>
  BY <1>2
<1>3. CASE WriteMaster /\ ~Fails
  <2> DEFINE made == [p \in {MasterPath(Output)} |-> <<out, "", "m3u8">>]
  <2>1. disk' = Over(made, disk) /\ sent' = sent /\ step = "master"
    BY <1>3 DEF WriteMaster
  <2>2. DOMAIN made \cap DOMAIN disk = {}
    BY <2>1, MasterIsFirst
  <2> HIDE DEF made
  <2> QED BY <1>1, <2>1, <2>2
<1>4. CASE Encode /\ ~Fails
  <2> DEFINE files == Written(Output, ProfilesOf(Output)[prof])
             made  == [path \in files |-> Content(out, path)]
  <2>1. disk' = Over(made, disk) /\ sent' = sent /\ step = "encode"
    BY <1>4 DEF Encode
  <2>2. DOMAIN made \cap DOMAIN disk = {}
    BY <2>1, RunsAreApart
  <2> HIDE DEF made
  <2> QED BY <1>1, <2>1, <2>2
<1>5. ASSUME NEW path \in toSend, Upload(path), ~Fails
      PROVE  /\ UNCHANGED disk
             /\ \A dest \in DOMAIN sent : dest \in DOMAIN sent' /\ sent'[dest] = sent[dest]
  <2> DEFINE made == [p \in {Dest(path)} |-> disk[path]]
  <2>1. sent' = Over(made, sent) /\ disk' = disk
    BY <1>5 DEF Upload
  <2>2. DOMAIN made \cap DOMAIN sent = {}
    BY DestinationIsFree
  <2> HIDE DEF made
  <2> QED BY <1>1, <2>1, <2>2
<1>6. CASE Fails
  BY <1>6, <1>2 DEF Fails
<1>7. CASE Probe \/ StartOutput \/ StartUpload \/ CollectHLS \/ CollectProgressive \/ Complete \/ Settled
  BY <1>2, <1>7 DEF Probe, StartOutput, StartUpload, CollectHLS, CollectProgressive, Complete,
     Settled, Fails, GoTo, vars
<1> QED BY <1>3, <1>4, <1>5, <1>6, <1>7 DEF Next

-------------------------------------------------------------------------------
(* The theorems.                                                           *)

\* Transcode and uploadOutputFiles keep PipelineInv at every step.
THEOREM PipelineInvariant == Spec => []PipelineInv
<1> QED BY PipelineInit, PipelineStep, PTL DEF Spec

\* TypeOK, for any templates: only files that are on the disk are listed, and
\* only listed files are sent (helpers.go:73).
THEOREM PipelineTypeCorrect == Spec => []TypeOK
<1>1. PipelineInv => TypeOK
  BY DEF PipelineInv
<1> QED BY <1>1, PipelineInvariant, PTL

\* EveryListedFileStored: with names of their own, no two files of a template
\* meet in storage, although uploadOutputFiles drops the profile directories.
THEOREM ListedFilesAreStored == Spec => []EveryListedFileStored
<1>1. PipelineInv => EveryListedFileStored
  BY DEF PipelineInv, PlaceKnown, SentKept, EveryListedFileStored, Completed
<1> QED BY <1>1, PipelineInvariant, PTL

\* ProgressiveOutputComplete: transcodeProgressive leaves out no profile of a
\* job that completes, and each one's own movie is what storage has.
THEOREM ProgressiveOutputsAreStored == Spec => []ProgressiveOutputComplete
<1>1. ASSUME PipelineInv PROVE ProgressiveOutputComplete
  <2> SUFFICES ASSUME Completed,
                      NEW i \in DOMAIN template, IsProgressive(template[i]),
                      NEW p \in DOMAIN ProfilesOf(template[i])
               PROVE  LET path == MoviePath(template[i], ProfilesOf(template[i])[p])
                      IN  /\ Dest(path) \in DOMAIN sent
                          /\ sent[Dest(path)] = Content(i, path)
    BY DEF ProgressiveOutputComplete
  <2>1. i < out
    BY <1>1, TemplateTyped DEF PipelineInv, TypeOK, PlaceKnown, Completed
  <2>2. LET path == MoviePath(template[i], ProfilesOf(template[i])[p])
        IN  path \in listed /\ disk[path] = Content(i, path)
    BY <1>1, <2>1 DEF PipelineInv, MoviesKept, Passed, Completed
  <2> QED BY <1>1, <2>2 DEF PipelineInv, PlaceKnown, SentKept, Completed
<1> QED BY <1>1, PipelineInvariant, PTL

\* FailedTranscodeStoresNothing: executeConversion uploads only after the last
\* output is transcoded.
THEOREM NothingIsStoredEarly == Spec => []FailedTranscodeStoresNothing
<1>1. PipelineInv => FailedTranscodeStoresNothing
  BY DEF PipelineInv
<1> QED BY <1>1, PipelineInvariant, PTL

\* NothingIsOverwritten: no ffmpeg run, no playlist and no upload of a
\* well-formed template replaces a file that an earlier one has made, in
\* whatever order the map gives the uploads (helpers.go:73-79).
THEOREM StoresOnlyGrow == Spec => NothingIsOverwritten
<1>1. PipelineInv /\ StoresFresh /\ [Next]_vars =>
        [WellFormed(template) =>
          /\ \A path \in DOMAIN disk : path \in DOMAIN disk' /\ disk'[path] = disk[path]
          /\ \A dest \in DOMAIN sent : dest \in DOMAIN sent' /\ sent'[dest] = sent[dest]]_vars
  BY NothingReplaced
<1>2. Spec => []StoresFresh
  BY FreshInit, FreshStep, PipelineInvariant, PTL DEF Spec
<1> QED BY <1>1, <1>2, PipelineInvariant, PTL DEF Spec, NothingIsOverwritten
===============================================================================
