-------------------------- MODULE SourceDownloadProofs --------------------------
(***************************************************************************)
(* Proofs about SourceDownload, for any jobs, URLs, accounts, contents,    *)
(* timeouts, limit and disk.                                               *)
(***************************************************************************)
EXTENDS SourceDownload, SequenceTheorems, FiniteSetTheorems, TLAPS

-------------------------------------------------------------------------------
(* Where a source is looked for.                                           *)

\* What the lists of one and of two locations are made of.
LEMMA OneLocation ==
  ASSUME NEW S, NEW l \in S, NEW s, s = <<l>>
  PROVE  s \in Seq(S) /\ s # <<>> /\ (\A i \in DOMAIN s : s[i] = l) /\ s[Len(s)] = l
<1>1. Len(s) = 1 /\ s[1] = l /\ s \in Seq(S)
  OBVIOUS
<1> QED BY <1>1

LEMMA TwoLocations ==
  ASSUME NEW S, NEW k \in S, NEW l \in S, NEW s, s = <<k, l>>
  PROVE  /\ s \in Seq(S) /\ s # <<>>
         /\ \A i \in DOMAIN s : s[i] \in {k, l}
         /\ s[Len(s)] = l
<1>1. Len(s) = 2 /\ s[1] = k /\ s[2] = l /\ s \in Seq(S)
  OBVIOUS
<1>2. DOMAIN s = 1 .. 2
  BY <1>1, LenProperties
<1>3. \A i \in 1 .. 2 : i = 1 \/ i = 2
  OBVIOUS
<1> QED BY <1>1, <1>2, <1>3

LEMMA NoLocation ==
  ASSUME NEW S, NEW s, s = <<>> PROVE s \in Seq(S) /\ DOMAIN s = {}
<1>1. s \in Seq(S) /\ Len(s) = 0
  OBVIOUS
<1> QED BY <1>1, LenProperties

\* A backend tries locations; they are the URL's own unless it names another
\* account than the configured one, and the URL's own comes last, if any.
LEMMA AttemptsTyped ==
  ASSUME config.account \in Accounts \cup {NoKey, BadKey}, NEW u \in Urls
  PROVE  /\ Attempts(u) \in Seq(Locations)
         /\ \A i \in DOMAIN Attempts(u) : ~Foreign(u) => Attempts(u)[i] = Here(u)
         /\ Attempts(u) # <<>> => Attempts(u)[Len(Attempts(u))] = Here(u)
<1>1. /\ u.marks \in SUBSET {"blob", "s3"} /\ u.scheme \in {"http", "https", "s3", "file", ""}
      /\ Here(u) \in Locations
      /\ config.account \notin {NoKey, BadKey} => <<config.account, u.path>> \in Locations
  BY SourceAssumption DEF Url, Here, Locations
<1>2. CASE SourceType(u) = "azure-blob"
  <2>1. CASE ~(AzureMade /\ NamesBlob(u))
    <3>1. Attempts(u) = <<>>
      BY <1>2, <2>1 DEF Attempts
    <3> QED BY <3>1, NoLocation
  <2>2. CASE AzureMade /\ NamesBlob(u) /\ config.account = NoKey
    <3>1. Attempts(u) = <<Here(u)>>
      BY <1>2, <2>2 DEF Attempts, AzureAttempts
    <3> QED BY <1>1, <3>1, OneLocation
  <2>3. CASE AzureMade /\ NamesBlob(u) /\ config.account # NoKey
    <3>1. Attempts(u) = << <<config.account, u.path>>, Here(u) >>
      BY <1>2, <2>3 DEF Attempts, AzureAttempts
    <3>2. ~Foreign(u) => <<config.account, u.path>> = Here(u)
      BY <1>2, <2>3 DEF Foreign, Here, AzureMade
    <3> DEFINE k == <<config.account, u.path>>
               l == Here(u)
               a == Attempts(u)
    <3>3. a = <<k, l>> /\ k \in Locations /\ l \in Locations /\ (~Foreign(u) => k = l)
      BY <1>1, <2>3, <3>1, <3>2 DEF AzureMade
    <3> HIDE DEF k, l, a
    <3>4. /\ a \in Seq(Locations) /\ a # <<>>
          /\ \A i \in DOMAIN a : a[i] \in {k, l}
          /\ a[Len(a)] = l
      BY <3>3, TwoLocations
    <3>5. /\ a \in Seq(Locations) /\ a # <<>>
          /\ \A i \in DOMAIN a : ~Foreign(u) => a[i] = l
          /\ a[Len(a)] = l
      BY <3>3, <3>4
    <3> QED BY <3>5 DEF a, l
  <2> QED BY <2>1, <2>2, <2>3
<1>3. CASE SourceType(u) = "local"
  <2>1. Attempts(u) = <<Here(u)>>
    BY <1>3 DEF Attempts
  <2> QED BY <1>1, <2>1, OneLocation
<1>4. CASE SourceType(u) = "s3"
  <2>1. Attempts(u) = <<>>
    BY <1>4 DEF Attempts, S3Attempts
  <2> QED BY <2>1, NoLocation
<1>5. CASE SourceType(u) = "http"
  <2>1. CASE u.scheme \in {"http", "https"}
    <3>1. Attempts(u) = <<Here(u)>>
      BY <1>5, <2>1 DEF Attempts, HTTPAttempts
    <3> QED BY <1>1, <3>1, OneLocation
  <2>2. CASE u.scheme \notin {"http", "https"}
    <3>1. Attempts(u) = <<>>
      BY <1>5, <2>2 DEF Attempts, HTTPAttempts
    <3> QED BY <3>1, NoLocation
  <2> QED BY <2>1, <2>2
<1>6. SourceType(u) \in {"azure-blob", "local", "s3", "http"}
  BY <1>1 DEF SourceType
<1> QED BY <1>2, <1>3, <1>4, <1>5, <1>6

-------------------------------------------------------------------------------
(* The inductive invariant.                                                *)

Steps == {"fetch", "request", "copy", "validate"} \cup Ended

Typed ==
    /\ config.account \in Accounts \cup {NoKey, BadKey}
    /\ url \in [Jobs -> Urls]
    /\ pc \in [Jobs -> Steps]
    /\ todo \in [Jobs -> Seq(Locations)]
    /\ file \in [Jobs -> Seq(Locations) \cup {NoFile}]
    /\ asked \in [Jobs -> SUBSET Locations]
    /\ ctxDone \in [Jobs -> BOOLEAN]

\* The list a backend works through: the present location was asked, and the
\* URL's own comes last.
Trying(j) ==
    /\ \A i \in DOMAIN todo[j] : ~Foreign(url[j]) => todo[j][i] = Here(url[j])
    /\ pc[j] \in {"request", "copy", "validate", "convert"} => todo[j] # <<>>
    /\ pc[j] \in {"request", "copy"} =>
          /\ Source(j) \in asked[j]
          /\ todo[j][Len(todo[j])] = Here(url[j])

\* What is in the file comes from the present location alone.
Copied(j) ==
    /\ pc[j] = "copy" => Len(file[j]) <= Size[Source(j)]
    /\ pc[j] \in {"copy", "validate", "convert"} => file[j] \in Seq({Source(j)})
    /\ pc[j] \in {"validate", "convert"} /\ Source(j) \notin Unframed =>
          Len(file[j]) = Size[Source(j)]
    /\ pc[j] = "convert" => file[j] # <<>>

\* Without time nothing remote is asked.
InTime(j) ==
    config.timeout <= 0 =>
        /\ ctxDone[j]
        /\ pc[j] \in {"request", "copy", "validate", "convert"} => SourceType(url[j]) = "local"

SourceInv == Typed /\ \A j \in Jobs : Trying(j) /\ Copied(j) /\ InTime(j)

LEMMA InitSourceInv == Init => SourceInv
<1> SUFFICES ASSUME Init PROVE SourceInv
  OBVIOUS
<1>1. <<>> \in Seq(Locations) /\ DOMAIN <<>> = {}
  BY NoLocation
<1>2. Typed
  <2>1. config.account \in Accounts \cup {NoKey, BadKey} /\ url \in [Jobs -> Urls]
    BY DEF Init
  <2>2. pc \in [Jobs -> Steps] /\ file \in [Jobs -> Seq(Locations) \cup {NoFile}]
    BY DEF Init, Steps
  <2>3. todo \in [Jobs -> Seq(Locations)] /\ asked \in [Jobs -> SUBSET Locations]
    BY <1>1 DEF Init
  <2>4. ctxDone \in [Jobs -> BOOLEAN]
    BY DEF Init
  <2> QED BY <2>1, <2>2, <2>3, <2>4 DEF Typed
<1>3. ASSUME NEW j \in Jobs PROVE Trying(j) /\ Copied(j) /\ InTime(j)
  BY <1>1 DEF Init, Trying, Copied, InTime
<1> QED BY <1>2, <1>3 DEF SourceInv

\* A job's step leaves the others' downloads alone.
LEMMA OthersStay ==
  ASSUME NEW k \in Jobs, UNCHANGED <<config, url>>,
         pc'[k] = pc[k], todo'[k] = todo[k], file'[k] = file[k],
         asked'[k] = asked[k], ctxDone'[k] = ctxDone[k],
         Trying(k) /\ Copied(k) /\ InTime(k)
  PROVE  (Trying(k) /\ Copied(k) /\ InTime(k))'
<1>1. Foreign(url[k])' = Foreign(url[k])
  BY DEF Foreign, SourceType
<1>2. Trying(k)'
  BY <1>1 DEF Trying, Source, Here
<1>3. Copied(k)'
  BY DEF Copied, Source
<1>4. InTime(k)'
  BY DEF InTime, SourceType
<1> QED BY <1>2, <1>3, <1>4

\* One job's step, as a whole.
LEMMA OneJob ==
  ASSUME SourceInv, NEW j \in Jobs, UNCHANGED <<config, url>>,
         pc' = [pc EXCEPT ![j] = pc'[j]], pc'[j] \in Steps,
         todo' = [todo EXCEPT ![j] = todo'[j]], todo'[j] \in Seq(Locations),
         file' = [file EXCEPT ![j] = file'[j]], file'[j] \in Seq(Locations) \cup {NoFile},
         asked' = [asked EXCEPT ![j] = asked'[j]], asked'[j] \subseteq Locations,
         ctxDone' = [ctxDone EXCEPT ![j] = ctxDone'[j]], ctxDone'[j] \in BOOLEAN,
         (Trying(j) /\ Copied(j) /\ InTime(j))'
  PROVE  SourceInv'
<1>1. Typed'
  BY DEF SourceInv, Typed
<1>2. ASSUME NEW k \in Jobs PROVE (Trying(k) /\ Copied(k) /\ InTime(k))'
  <2>1. CASE k = j
    BY <2>1
  <2>2. CASE k # j
    <3>1. /\ pc'[k] = pc[k] /\ todo'[k] = todo[k] /\ file'[k] = file[k]
          /\ asked'[k] = asked[k] /\ ctxDone'[k] = ctxDone[k]
      BY <2>2 DEF SourceInv, Typed
    <3> QED BY <3>1, OthersStay DEF SourceInv
  <2> QED BY <2>1, <2>2
<1> QED BY <1>1, <1>2 DEF SourceInv

-------------------------------------------------------------------------------
(* Each step keeps it.                                                     *)

\* What is known of a job, whatever it does next.
LEMMA JobTyped ==
  ASSUME SourceInv, NEW j \in Jobs
  PROVE  /\ config.account \in Accounts \cup {NoKey, BadKey} /\ url[j] \in Urls
         /\ pc[j] \in Steps /\ todo[j] \in Seq(Locations)
         /\ file[j] \in Seq(Locations) \cup {NoFile}
         /\ asked[j] \subseteq Locations /\ ctxDone[j] \in BOOLEAN
         /\ todo[j] # <<>> => Source(j) \in Locations /\ Size[Source(j)] \in Nat
         /\ Trying(j) /\ Copied(j) /\ InTime(j)
<1>1. /\ config.account \in Accounts \cup {NoKey, BadKey} /\ url[j] \in Urls
      /\ pc[j] \in Steps /\ todo[j] \in Seq(Locations)
      /\ file[j] \in Seq(Locations) \cup {NoFile}
      /\ asked[j] \subseteq Locations /\ ctxDone[j] \in BOOLEAN
  BY DEF SourceInv, Typed
<1>2. todo[j] # <<>> => Source(j) \in Locations
  BY <1>1 DEF Source
<1>3. todo[j] # <<>> => Size[Source(j)] \in Nat
  BY <1>2, SourceAssumption DEF Locations
<1> QED BY <1>1, <1>2, <1>3 DEF SourceInv

\* A job that only goes to another step.
LEMMA GoToKeeps ==
  ASSUME SourceInv, NEW j \in Jobs, NEW step \in Steps, GoTo(j, step),
         UNCHANGED <<config, url, todo, file, asked, ctxDone>>,
         (Trying(j) /\ Copied(j) /\ InTime(j))'
  PROVE  SourceInv'
<1>1. pc'[j] = step /\ pc' = [pc EXCEPT ![j] = pc'[j]]
  BY DEF GoTo, SourceInv, Typed
<1>2. /\ todo' = [todo EXCEPT ![j] = todo'[j]] /\ file' = [file EXCEPT ![j] = file'[j]]
      /\ asked' = [asked EXCEPT ![j] = asked'[j]]
      /\ ctxDone' = [ctxDone EXCEPT ![j] = ctxDone'[j]]
  BY DEF SourceInv, Typed
<1> QED BY <1>1, <1>2, JobTyped, OneJob

\* A job that gives up, or ends, needs no more than its list.
LEMMA GivesUp ==
  ASSUME SourceInv, NEW j \in Jobs, NEW step \in {"failed", "nodir"}, GoTo(j, step),
         UNCHANGED <<config, url, todo, file, asked, ctxDone>>
  PROVE  SourceInv'
<1>1. pc'[j] = step /\ step \in Steps
  BY DEF GoTo, SourceInv, Typed, Steps, Ended
<1>2. Trying(j) /\ InTime(j)
  BY DEF SourceInv
<1>3. Trying(j)'
  BY <1>1, <1>2 DEF Trying, Foreign, SourceType, Here
<1>4. (Copied(j) /\ InTime(j))'
  BY <1>1, <1>2 DEF Copied, InTime
<1> QED BY <1>1, <1>3, <1>4, GoToKeeps

\* A request goes out.
LEMMA AskKeeps ==
  ASSUME SourceInv, NEW j \in Jobs, NEW locs \in Seq(Locations), locs # <<>>,
         \A i \in DOMAIN locs : ~Foreign(url[j]) => locs[i] = Here(url[j]),
         locs[Len(locs)] = Here(url[j]),
         Ask(j, locs), UNCHANGED <<config, url, file, ctxDone>>
  PROVE  SourceInv'
<1>1. /\ pc' = [pc EXCEPT ![j] = pc'[j]] /\ pc'[j] = "request" /\ "request" \in Steps
      /\ todo' = [todo EXCEPT ![j] = todo'[j]] /\ todo'[j] = locs
      /\ asked' = [asked EXCEPT ![j] = asked'[j]] /\ asked'[j] = asked[j] \cup {Head(locs)}
  BY DEF Ask, GoTo, SourceInv, Typed, Steps
<1>2. Head(locs) \in Locations
  OBVIOUS
<1>3. Trying(j)'
  BY <1>1 DEF Trying, Source, Foreign, SourceType, Here
<1>4. Copied(j)'
  BY <1>1 DEF Copied
<1>5. InTime(j)'
  BY <1>1 DEF SourceInv, Ask, MayAsk, InTime, SourceType
<1>6. file' = [file EXCEPT ![j] = file'[j]] /\ ctxDone' = [ctxDone EXCEPT ![j] = ctxDone'[j]]
  BY DEF SourceInv, Typed
<1> QED BY <1>1, <1>2, <1>3, <1>4, <1>5, <1>6, JobTyped, OneJob

\* The next location after one that failed.
LEMMA RestOfList ==
  ASSUME NEW S, NEW s \in Seq(S), s # <<>>, Tail(s) # <<>>
  PROVE  /\ Tail(s) \in Seq(S)
         /\ \A i \in DOMAIN Tail(s) : i + 1 \in DOMAIN s /\ Tail(s)[i] = s[i + 1]
         /\ Tail(s)[Len(Tail(s))] = s[Len(s)]
<1>1. /\ Tail(s) \in Seq(S) /\ Len(Tail(s)) = Len(s) - 1 /\ Len(s) \in Nat
      /\ \A i \in 1 .. Len(Tail(s)) : Tail(s)[i] = s[i + 1]
  BY HeadTailProperties, LenProperties
<1>2. DOMAIN s = 1 .. Len(s) /\ DOMAIN Tail(s) = 1 .. Len(Tail(s))
  BY <1>1, LenProperties
<1>3. Len(Tail(s)) # 0
  BY <1>1, EmptySeq
<1> QED BY <1>1, <1>2, <1>3

\* The request, its failure, and the end of the file's making.
LEMMA AttemptKeeps ==
  ASSUME SourceInv, NEW j \in Jobs,
         StartDownload(j) \/ RefuseDownload(j) \/ NoDirectory(j) \/ AttemptFails(j)
  PROVE  SourceInv'
<1>1. CASE StartDownload(j)
  BY <1>1, JobTyped, AttemptsTyped, AskKeeps DEF StartDownload, Foreign, SourceType, Here
<1>2. CASE RefuseDownload(j) \/ NoDirectory(j)
  BY <1>2, GivesUp DEF RefuseDownload, NoDirectory
<1>3. CASE AttemptFails(j)
  <2>1. /\ UNCHANGED <<config, url, file, ctxDone>> /\ pc[j] \in {"request", "copy"}
        /\ \/ Remaining(j) # <<>> /\ Ask(j, Remaining(j))
           \/ GoTo(j, "failed") /\ UNCHANGED <<todo, asked>>
    BY <1>3 DEF AttemptFails
  <2>2. CASE Remaining(j) # <<>> /\ Ask(j, Remaining(j))
    <3> DEFINE s == todo[j]
               rest == Remaining(j)
    <3>1. /\ s \in Seq(Locations) /\ s # <<>>
          /\ \A i \in DOMAIN s : ~Foreign(url[j]) => s[i] = Here(url[j])
          /\ s[Len(s)] = Here(url[j])
      BY <2>1, JobTyped DEF Trying
    <3>2. rest = Tail(s)
      BY DEF Remaining
    <3>3. /\ rest \in Seq(Locations) /\ rest[Len(rest)] = s[Len(s)]
          /\ \A i \in DOMAIN rest : i + 1 \in DOMAIN s /\ rest[i] = s[i + 1]
      BY <2>2, <3>1, <3>2, RestOfList
    <3>4. \A i \in DOMAIN rest : ~Foreign(url[j]) => rest[i] = Here(url[j])
      BY <3>1, <3>3
    <3> QED BY <2>1, <2>2, <3>1, <3>3, <3>4, AskKeeps
  <2>3. CASE GoTo(j, "failed") /\ UNCHANGED <<todo, asked>>
    BY <2>1, <2>3, GivesUp
  <2> QED BY <2>1, <2>2, <2>3
<1> QED BY <1>1, <1>2, <1>3

\* The file is made empty, and filled from the present location.
LEMMA WriteKeeps ==
  ASSUME SourceInv, NEW j \in Jobs, Answered(j) \/ Copy(j) PROVE SourceInv'
<1>1. /\ UNCHANGED <<config, url, todo, asked, ctxDone>>
      /\ pc[j] \in {"request", "copy"} /\ pc'[j] = "copy" /\ "copy" \in Steps
      /\ pc' = [pc EXCEPT ![j] = pc'[j]] /\ file' = [file EXCEPT ![j] = file'[j]]
      /\ todo' = [todo EXCEPT ![j] = todo'[j]] /\ asked' = [asked EXCEPT ![j] = asked'[j]]
      /\ ctxDone' = [ctxDone EXCEPT ![j] = ctxDone'[j]]
  BY DEF Answered, Copy, GoTo, Dir, SourceInv, Typed, Steps
<1>2. /\ Trying(j) /\ Copied(j) /\ InTime(j) /\ todo[j] # <<>>
      /\ Source(j) \in Locations /\ Size[Source(j)] \in Nat
  BY <1>1, JobTyped DEF Trying
<1>3. Trying(j)' /\ InTime(j)'
  BY <1>1, <1>2 DEF Trying, InTime, Source, Foreign, SourceType, Here
<1> DEFINE l == Source(j)
<1>4. file'[j] \in Seq({l}) /\ Len(file'[j]) <= Size[l]
  <2>1. CASE Answered(j)
    <3>1. file'[j] = <<>>
      BY <2>1 DEF Answered, Created, Dir, SourceInv, Typed
    <3> QED BY <1>2, <3>1, EmptySeq
  <2>2. CASE Copy(j)
    <3>1. file[j] \in Seq({l}) /\ Len(file[j]) \in Nat
      BY <1>2, <2>2, LenProperties DEF Copy, Copied
    <3>2. file[j] \in Seq(Locations)
      BY <1>2, <3>1
    <3>3. file[j] # NoFile
      BY <3>2, SourceAssumption DEF Locations
    <3>4. file'[j] = Append(file[j], l) /\ Len(file[j]) < Size[l]
      BY <2>2, <3>3 DEF Copy, Length, Dir, SourceInv, Typed
    <3> HIDE DEF l
    <3>5. Append(file[j], l) \in Seq({l}) /\ Len(Append(file[j], l)) = Len(file[j]) + 1
      BY <3>1, AppendProperties
    <3> QED BY <1>2, <3>1, <3>4, <3>5 DEF l
  <2> QED BY <2>1, <2>2
<1>5. Copied(j)'
  BY <1>1, <1>4 DEF Copied, Source
<1>6. file'[j] \in Seq(Locations)
  BY <1>2, <1>4
<1> QED BY <1>1, <1>3, <1>5, <1>6, JobTyped, OneJob

\* The file is taken for complete, and for a video's.
LEMMA AcceptKeeps ==
  ASSUME SourceInv, NEW j \in Jobs, CopyEnds(j) \/ Validate(j) PROVE SourceInv'
<1>1. UNCHANGED <<config, url, todo, file, asked, ctxDone>> /\ pc[j] \in {"copy", "validate"}
  BY DEF CopyEnds, Validate
<1>2. /\ Trying(j) /\ Copied(j) /\ InTime(j) /\ todo[j] # <<>>
      /\ Source(j) \in Locations /\ Size[Source(j)] \in Nat
  BY <1>1, JobTyped DEF Trying
<1>3. file[j] \in Seq({Source(j)}) /\ file[j] \in Seq(Locations) /\ Len(file[j]) \in Nat
  BY <1>1, <1>2, LenProperties DEF Copied
<1>4. file[j] # NoFile
  BY <1>3, SourceAssumption DEF Locations
<1>5. CASE GoTo(j, "failed")
  BY <1>1, <1>5, GivesUp
<1>6. CASE CopyEnds(j)
  <2>1. pc'[j] = "validate" /\ GoTo(j, "validate") /\ "validate" \in Steps /\ pc[j] = "copy"
    BY <1>6 DEF CopyEnds, GoTo, SourceInv, Typed, Steps
  <2>2. Source(j) \notin Unframed => Len(file[j]) = Size[Source(j)]
    BY <1>2, <1>3, <1>4, <1>6, <2>1 DEF CopyEnds, EndOfBody, Length, Dir, Copied
  <2>3. Copied(j)'
    BY <1>1, <1>3, <2>1, <2>2 DEF Copied, Source
  <2>4. Trying(j)' /\ InTime(j)'
    BY <1>1, <1>2, <2>1 DEF Trying, InTime, Source, Foreign, SourceType, Here
  <2> QED BY <1>1, <2>1, <2>3, <2>4, GoToKeeps
<1>7. CASE Validate(j) /\ Acceptable(j)
  <2>1. pc'[j] = "convert" /\ GoTo(j, "convert") /\ "convert" \in Steps /\ pc[j] = "validate"
    BY <1>7 DEF Validate, GoTo, SourceInv, Typed, Steps, Ended
  <2>2. file[j] # <<>>
    BY <1>4, <1>7, EmptySeq DEF Acceptable, Length, Dir
  <2>3. Copied(j)'
    BY <1>1, <1>2, <2>1, <2>2 DEF Copied, Source
  <2>4. Trying(j)' /\ InTime(j)'
    BY <1>1, <1>2, <2>1 DEF Trying, InTime, Source, Foreign, SourceType, Here
  <2> QED BY <1>1, <2>1, <2>3, <2>4, GoToKeeps
<1> QED BY <1>5, <1>6, <1>7 DEF Validate

LEMMA ContextKeeps ==
  ASSUME SourceInv, NEW j \in Jobs, ContextEnds(j) PROVE SourceInv'
<1>1. /\ UNCHANGED <<config, url, pc, todo, file, asked>>
      /\ ctxDone'[j] = TRUE /\ ctxDone' = [ctxDone EXCEPT ![j] = ctxDone'[j]]
      /\ pc' = [pc EXCEPT ![j] = pc'[j]] /\ file' = [file EXCEPT ![j] = file'[j]]
      /\ todo' = [todo EXCEPT ![j] = todo'[j]] /\ asked' = [asked EXCEPT ![j] = asked'[j]]
  BY DEF ContextEnds, SourceInv, Typed
<1>2. Trying(j)'
  <2>1. Foreign(url[j])' = Foreign(url[j])
    BY <1>1 DEF Foreign, SourceType
  <2> QED BY <1>1, <2>1 DEF SourceInv, Trying, Source, Here
<1>3. Copied(j)' /\ InTime(j)'
  BY <1>1, JobTyped DEF Copied, Source, InTime, SourceType
<1> QED BY <1>1, <1>2, <1>3, JobTyped, OneJob

LEMMA NextKeepsSourceInv == SourceInv /\ [Next]_vars => SourceInv'
<1> SUFFICES ASSUME SourceInv, [Next]_vars PROVE SourceInv'
  OBVIOUS
<1>1. CASE UNCHANGED vars
  <2>1. Typed'
    BY <1>1 DEF vars, SourceInv, Typed
  <2>2. \A k \in Jobs : (Trying(k) /\ Copied(k) /\ InTime(k))'
    BY <1>1, OthersStay DEF vars, SourceInv
  <2> QED BY <2>1, <2>2 DEF SourceInv
<1>2. ASSUME NEW j \in Jobs, Download(j) \/ ContextEnds(j) PROVE SourceInv'
  BY <1>2, AttemptKeeps, WriteKeeps, AcceptKeeps, ContextKeeps DEF Download
<1> QED BY <1>1, <1>2 DEF Next, AllEnded

\* What holds of every reachable state of the downloads: the file is filled
\* from the location that is being asked, and the list leads to the URL.
THEOREM SourceInvariant == Spec => []SourceInv
  BY InitSourceInv, NextKeepsSourceInv, PTL DEF Spec

-------------------------------------------------------------------------------
(* Files and the disk.                                                     *)

\* Before its download starts a job has no file, and once one is complete it
\* has.
FileByStage ==
    \A j \in Jobs : /\ pc[j] = "fetch" => file[j] = NoFile
                    /\ pc[j] \in {"copy", "validate", "convert"} => file[j] # NoFile

LEMMA NextKeepsFileByStage == SourceInv /\ FileByStage /\ [Next]_vars => FileByStage'
<1> SUFFICES ASSUME SourceInv, FileByStage, [Next]_vars, NEW k \in Jobs
             PROVE  /\ pc'[k] = "fetch" => file'[k] = NoFile
                    /\ pc'[k] \in {"copy", "validate", "convert"} => file'[k] # NoFile
  BY DEF FileByStage
<1> USE DEF FileByStage, SourceInv, Typed
<1> DEFINE Goal == /\ pc'[k] = "fetch" => file'[k] = NoFile
                   /\ pc'[k] \in {"copy", "validate", "convert"} => file'[k] # NoFile
<1>1. CASE UNCHANGED vars \/ AllEnded
  BY <1>1 DEF vars, AllEnded
<1>2. ASSUME NEW j \in Jobs, ContextEnds(j) PROVE Goal
  BY <1>2 DEF ContextEnds
<1>3. ASSUME NEW j \in Jobs, Answered(j) \/ Copy(j) PROVE Goal
  <2>1. file'[k] \in Seq(Locations) \/ (file'[k] = file[k] /\ pc'[k] = pc[k])
    <3>1. <<>> \in Seq(Locations)
      BY NoLocation
    <3>2. CASE Answered(j)
      BY <3>1, <3>2 DEF Answered, GoTo, Dir, Created
    <3>3. CASE Copy(j)
      <4>1. pc' = pc /\ file' = [file EXCEPT ![j] = Append(@, Source(j))]
            /\ file[j] \in Seq(Locations) /\ Source(j) \in Locations
        BY <3>3, JobTyped DEF Copy, Dir, Trying
      <4>2. Append(file[j], Source(j)) \in Seq(Locations)
        BY <4>1, AppendProperties
      <4> QED BY <4>1, <4>2
    <3> QED BY <1>3, <3>2, <3>3
  <2>2. pc'[k] = "fetch" => pc[k] = "fetch" /\ k # j /\ file'[k] = file[k]
    BY <1>3 DEF Answered, Copy, GoTo, Dir
  <2> QED BY <2>1, <2>2, SourceAssumption DEF Locations
<1>4. ASSUME NEW j \in Jobs,
             \/ StartDownload(j) \/ RefuseDownload(j) \/ NoDirectory(j)
             \/ CopyEnds(j) \/ AttemptFails(j) \/ Validate(j)
      PROVE  Goal
  <2>1. file' = file
    BY <1>4 DEF StartDownload, RefuseDownload, NoDirectory, CopyEnds, AttemptFails, Validate
  <2>2. \/ pc'[k] = pc[k] \/ pc'[k] \in {"request", "failed", "nodir"}
        \/ pc'[k] \in {"validate", "convert"} /\ pc[k] \in {"copy", "validate"}
    BY <1>4 DEF StartDownload, RefuseDownload, NoDirectory, CopyEnds, AttemptFails, Validate,
       Ask, GoTo
  <2> QED BY <2>1, <2>2
<1> QED BY <1>1, <1>2, <1>3, <1>4 DEF Next, Download

\* The disk holds no more than it can: what is counted when the jobs' files
\* are taken together.
DiskFits == IsFiniteSet(OnDisk) /\ DiskUsed <= DiskRoom

\* Files that grow nowhere take no more of the disk.
LEMMA NothingGrows ==
  ASSUME SourceInv, SourceInv', DiskFits,
         \A k \in Jobs : Length(k)' = Length(k) \/ Length(k)' = 0
  PROVE  DiskFits'
<1>1. OnDisk' \in SUBSET OnDisk
  <2> SUFFICES ASSUME NEW k \in Jobs, NEW i \in 1 .. Length(k)'
               PROVE  i \in 1 .. Length(k)
    BY DEF OnDisk
  <2>1. Length(k)' = Length(k) \/ Length(k)' = 0
    OBVIOUS
  <2> QED BY <2>1
<1>2. IsFiniteSet(OnDisk') /\ Cardinality(OnDisk') <= Cardinality(OnDisk)
  BY <1>1, FS_Subset DEF DiskFits
<1>3. Cardinality(OnDisk') \in Nat /\ Cardinality(OnDisk) \in Nat /\ DiskRoom \in Nat
  BY <1>2, FS_CardinalityType, SourceAssumption DEF DiskFits
<1> QED BY <1>2, <1>3 DEF DiskFits, DiskUsed

\* A unit is copied only while there is room, whichever job writes it.
LEMMA CopyFits ==
  ASSUME SourceInv, SourceInv', DiskFits, NEW j \in Jobs, Copy(j)
  PROVE  DiskFits'
<1>1. /\ DiskUsed < DiskRoom /\ file' = [file EXCEPT ![j] = Append(file[j], Source(j))]
      /\ file[j] \in Seq(Locations) /\ Source(j) \in Locations
      /\ file \in [Jobs -> Seq(Locations) \cup {NoFile}]
  <2>1. todo[j] # <<>> /\ file[j] \in Seq({Source(j)}) /\ Source(j) \in Locations
    BY JobTyped DEF Copy, Trying, Copied
  <2> QED BY <2>1 DEF Copy, Dir, SourceInv, Typed
<1>2. /\ Length(j) = Len(file[j]) /\ Len(file[j]) \in Nat /\ Length(j)' = Len(file[j]) + 1
      /\ \A k \in Jobs : k # j => Length(k)' = Length(k)
  <2>1. /\ Append(file[j], Source(j)) \in Seq(Locations)
        /\ Len(Append(file[j], Source(j))) = Len(file[j]) + 1 /\ Len(file[j]) \in Nat
    BY <1>1, AppendProperties, LenProperties
  <2>2. file[j] # NoFile /\ file'[j] # NoFile /\ file'[j] = Append(file[j], Source(j))
    BY <1>1, <2>1, SourceAssumption DEF Locations
  <2> QED BY <1>1, <2>1, <2>2 DEF Length
<1>3. OnDisk' = OnDisk \cup {<<j, Length(j) + 1>>}
  <2>1. ASSUME NEW k \in Jobs
        PROVE  \A i : i \in 1 .. Length(k)' <=>
                      i \in 1 .. Length(k) \/ (k = j /\ i = Length(j) + 1)
    <3>1. CASE k = j
      BY <1>2, <3>1
    <3>2. CASE k # j
      BY <1>2, <3>2
    <3> QED BY <3>1, <3>2
  <2> QED BY <2>1 DEF OnDisk
<1>4. IsFiniteSet(OnDisk') /\ Cardinality(OnDisk') <= Cardinality(OnDisk) + 1
  <2>1. Cardinality(OnDisk) \in Nat /\ IsFiniteSet(OnDisk)
    BY FS_CardinalityType DEF DiskFits
  <2>2. /\ IsFiniteSet(OnDisk \cup {<<j, Length(j) + 1>>})
        /\ Cardinality(OnDisk \cup {<<j, Length(j) + 1>>}) =
             IF <<j, Length(j) + 1>> \in OnDisk THEN Cardinality(OnDisk) ELSE Cardinality(OnDisk) + 1
    BY <2>1, FS_AddElement
  <2> QED BY <1>3, <2>1, <2>2
<1>5. Cardinality(OnDisk') \in Nat /\ Cardinality(OnDisk) \in Nat /\ DiskRoom \in Nat
  BY <1>4, FS_CardinalityType, SourceAssumption DEF DiskFits
<1> QED BY <1>1, <1>4, <1>5 DEF DiskFits, DiskUsed

LEMMA NextKeepsDiskFits ==
  ASSUME SourceInv, SourceInv', DiskFits, [Next]_vars PROVE DiskFits'
<1>1. CASE file' = file
  <2>1. \A k \in Jobs : Length(k)' = Length(k)
    BY <1>1 DEF Length
  <2> QED BY <2>1, NothingGrows
<1>2. ASSUME NEW j \in Jobs, Answered(j) PROVE DiskFits'
  <2>1. file' = [file EXCEPT ![j] = <<>>] /\ file \in [Jobs -> Seq(Locations) \cup {NoFile}]
    BY <1>2 DEF Answered, Dir, Created, SourceInv, Typed
  <2>2. Len(<<>>) = 0
    BY EmptySeq
  <2>3. ASSUME NEW k \in Jobs PROVE Length(k)' = Length(k) \/ Length(k)' = 0
    <3>1. CASE k = j
      BY <2>1, <2>2, <3>1 DEF Length
    <3>2. CASE k # j
      BY <2>1, <3>2 DEF Length
    <3> QED BY <3>1, <3>2
  <2> QED BY <2>3, NothingGrows
<1>3. ASSUME NEW j \in Jobs, Copy(j) PROVE DiskFits'
  BY <1>3, CopyFits
<1> QED
  BY <1>1, <1>2, <1>3 DEF Next, Download, ContextEnds, AllEnded, vars, StartDownload,
     RefuseDownload, NoDirectory, CopyEnds, AttemptFails, Validate

\* Everything a download leaves on the disk fits there, whoever writes at the
\* same time, and each variable has its type.
THEOREM TypeCorrect == Spec => []TypeOK
<1> DEFINE Sound == SourceInv /\ FileByStage /\ DiskFits /\ config.timeout \in Timeouts
<1>1. Init => Sound
  <2> SUFFICES ASSUME Init PROVE Sound
    OBVIOUS
  <2>1. SourceInv
    BY InitSourceInv
  <2>2. FileByStage /\ config.timeout \in Timeouts
    BY DEF Init, FileByStage
  <2>3. OnDisk = {}
    <3>1. \A k \in Jobs : Length(k) = 0
      BY DEF Init, Length
    <3> QED BY <3>1 DEF OnDisk
  <2>4. DiskFits
    BY <2>3, FS_EmptySet, SourceAssumption DEF DiskFits, DiskUsed
  <2> QED BY <2>1, <2>2, <2>4
<1>2. Sound /\ [Next]_vars => Sound'
  <2> SUFFICES ASSUME Sound, [Next]_vars PROVE Sound'
    OBVIOUS
  <2>1. SourceInv' /\ FileByStage'
    BY NextKeepsSourceInv, NextKeepsFileByStage
  <2>2. DiskFits'
    BY <2>1, NextKeepsDiskFits
  <2>3. config' = config
    BY DEF Next, Download, ContextEnds, AllEnded, vars, StartDownload, RefuseDownload,
       NoDirectory, Answered, Copy, CopyEnds, AttemptFails, Validate
  <2> QED BY <2>1, <2>2, <2>3
<1>3. Sound => TypeOK
  <2> SUFFICES ASSUME Sound PROVE TypeOK
    OBVIOUS
  <2>1. \A j \in Jobs : todo[j] \in Seq(Locations) /\ asked[j] \subseteq Locations
    BY DEF SourceInv, Typed
  <2>2. \A j \in Jobs : file[j] # NoFile => file[j] \in Seq(Locations)
    BY DEF SourceInv, Typed
  <2>3. pc \in [Jobs -> {"fetch", "request", "copy", "validate"} \cup Ended]
    BY DEF SourceInv, Typed, Steps
  <2> QED BY <2>1, <2>2, <2>3 DEF TypeOK, SourceInv, Typed, FileByStage, DiskFits
<1> HIDE DEF Sound
<1> QED BY <1>1, <1>2, <1>3, PTL DEF Spec

-------------------------------------------------------------------------------
(* The properties.                                                         *)

\* However attempts fail, break off or follow each other, and however the
\* disk and the timeouts are, what is converted is whole and from one answer.
THEOREM ConvertedIsWhole == Spec => []ConvertedSourceIsWhole
<1>1. ASSUME SourceInv, NEW j \in Jobs, pc[j] = "convert"
      PROVE  \E l \in Locations : /\ Got(j) \in Seq({l}) \ {<<>>}
                                  /\ l \notin Unframed => Len(Got(j)) = Size[l]
  <2>1. Trying(j) /\ Copied(j) /\ (todo[j] # <<>> => Source(j) \in Locations)
    BY <1>1, JobTyped
  <2>2. /\ Source(j) \in Locations /\ file[j] \in Seq({Source(j)}) /\ file[j] # <<>>
        /\ Source(j) \notin Unframed => Len(file[j]) = Size[Source(j)]
    BY <1>1, <2>1 DEF Trying, Copied
  <2> QED BY <2>2 DEF Got, Dir
<1>2. SourceInv => ConvertedSourceIsWhole
  BY <1>1 DEF ConvertedSourceIsWhole
<1> QED BY <1>2, SourceInvariant, PTL

\* What is converted is what the job's URL names, unless it names another
\* account than the configured one.
THEOREM ConvertedIsNamed == Spec => []ConvertedSourceIsNamed
<1>1. ASSUME SourceInv, NEW j \in Jobs, pc[j] = "convert", ~Foreign(url[j])
      PROVE  Got(j) \in Seq({Here(url[j])})
  <2>1. Trying(j) /\ Copied(j) /\ todo[j] \in Seq(Locations)
    BY <1>1, JobTyped
  <2>2. todo[j] # <<>> /\ file[j] \in Seq({Source(j)})
    BY <1>1, <2>1 DEF Trying, Copied
  <2>3. Source(j) = todo[j][1] /\ 1 \in DOMAIN todo[j]
    BY <2>1, <2>2 DEF Source
  <2>4. Source(j) = Here(url[j])
    BY <1>1, <2>1, <2>3 DEF Trying
  <2> QED BY <2>2, <2>4 DEF Got, Dir
<1>2. SourceInv => ConvertedSourceIsNamed
  BY <1>1 DEF ConvertedSourceIsNamed
<1> QED BY <1>2, SourceInvariant, PTL

\* A service with no time for its jobs converts local sources only.
THEOREM RemoteJobsNeedTime == Spec => []ZeroTimeoutFailsRemoteJobs
<1>1. SourceInv => ZeroTimeoutFailsRemoteJobs
  BY DEF SourceInv, InTime, ZeroTimeoutFailsRemoteJobs
<1> QED BY <1>1, SourceInvariant, PTL

\* Whatever the configured account answered, a download that has asked it does
\* not fail in its time before the job's own URL was asked, for any account,
\* URL and disk.
THEOREM FallbackIsReached == Spec => FallbackReachesURL
<1>1. ASSUME SourceInv, Next, NEW j \in Jobs, pc[j] \in {"request", "copy"},
             pc'[j] = "failed", ~ctxDone[j]
      PROVE  Here(url[j]) \in asked[j]
  <2>1. \A k \in Jobs : Download(k) => k = j
    BY <1>1 DEF Download, StartDownload, RefuseDownload, NoDirectory, Answered, Copy, CopyEnds,
       AttemptFails, Validate, Ask, GoTo, SourceInv, Typed
  <2>2. Download(j)
    BY <1>1, <2>1 DEF Next, ContextEnds, AllEnded, vars
  <2>3. /\ todo[j] \in Seq(Locations) /\ todo[j] # <<>> /\ MayAsk(j)
        /\ Source(j) \in asked[j] /\ todo[j][Len(todo[j])] = Here(url[j])
    BY <1>1, JobTyped DEF MayAsk, Trying
  <2>4. Remaining(j) = <<>>
    BY <1>1, <2>2, <2>3 DEF Download, StartDownload, RefuseDownload, NoDirectory, Answered, Copy,
       CopyEnds, AttemptFails, Validate, Ask, GoTo, SourceInv, Typed
  <2>5. Len(todo[j]) = 1
    <3>1. Len(Tail(todo[j])) = 0 /\ Len(Tail(todo[j])) = Len(todo[j]) - 1 /\ Len(todo[j]) \in Nat
      BY <2>3, <2>4, HeadTailProperties, EmptySeq, LenProperties DEF Remaining
    <3> QED BY <3>1
  <2> QED BY <2>3, <2>5 DEF Source
<1>2. SourceInv /\ [Next]_vars =>
        [\A j \in Jobs :
          pc[j] \in {"request", "copy"} /\ pc'[j] = "failed" /\ ~ctxDone[j]
          => Here(url[j]) \in asked[j]]_vars
  BY <1>1
<1> QED BY <1>2, SourceInvariant, PTL DEF Spec, FallbackReachesURL

-------------------------------------------------------------------------------
(* A download comes nearer to its end.                                     *)

Rank(step) ==
    CASE step = "fetch"               -> 0
      [] step \in {"request", "copy"} -> 1
      [] step = "validate"            -> 2
      [] step \in Ended               -> 3

\* A stage on; or a location fewer to try; or the answer to the request; or a
\* unit more of a content that is not yet complete.
GetsOn(j) ==
    \/ Rank(pc[j]) < Rank(pc'[j])
    \/ /\ pc[j] \in {"request", "copy"} /\ pc'[j] = "request"
       /\ Len(todo'[j]) < Len(todo[j])
    \/ /\ pc[j] = "request" /\ pc'[j] = "copy"
       /\ todo'[j] = todo[j]
    \/ /\ pc[j] = "copy" /\ pc'[j] = "copy" /\ todo'[j] = todo[j]
       /\ Len(file[j]) < Len(file'[j]) /\ Len(file'[j]) <= Size[Source(j)]

\* A download goes on for ever only by waiting: each step brings its job
\* nearer to its end, no attempt is made again and no file grows past its
\* source, and what one job does sets no other back.
DownloadsGetOn ==
    [][\E j \in Jobs :
          /\ \/ GetsOn(j)
             \/ ~ctxDone[j] /\ ctxDone'[j] /\ UNCHANGED <<pc, todo, file>>
          /\ \A k \in Jobs \ {j} :
                UNCHANGED <<pc[k], todo[k], file[k], ctxDone[k]>>]_vars

LEMMA RanksOrdered ==
  /\ \A step \in Steps : Rank(step) \in 0 .. 3
  /\ \A step \in Steps \ {"fetch"} : Rank("fetch") < Rank(step)
  /\ Rank("request") < Rank("validate") /\ Rank("copy") < Rank("validate")
  /\ \A step \in Steps \ Ended, last \in Ended : Rank(step) < Rank(last)
  BY DEF Rank, Steps, Ended

LEMMA DownloadGetsOn ==
  ASSUME SourceInv, NEW j \in Jobs, Download(j) PROVE GetsOn(j)
<1>1. /\ todo[j] \in Seq(Locations) /\ Trying(j) /\ Copied(j)
      /\ j \in DOMAIN pc /\ j \in DOMAIN todo /\ j \in DOMAIN file
      /\ todo[j] # <<>> => Source(j) \in Locations /\ Size[Source(j)] \in Nat
  BY JobTyped DEF SourceInv, Typed
<1>2. CASE StartDownload(j) \/ RefuseDownload(j) \/ NoDirectory(j)
  <2>1. pc[j] = "fetch" /\ pc'[j] \in {"request", "failed", "nodir"}
    BY <1>1, <1>2 DEF StartDownload, RefuseDownload, NoDirectory, Ask, GoTo
  <2>2. pc'[j] \in Steps \ {"fetch"}
    BY <2>1 DEF Steps, Ended
  <2> QED BY <2>1, <2>2, RanksOrdered DEF GetsOn
<1>3. CASE CopyEnds(j)
  <2>1. pc[j] = "copy" /\ pc'[j] = "validate"
    BY <1>1, <1>3 DEF CopyEnds, GoTo
  <2> QED BY <2>1, RanksOrdered DEF GetsOn
<1>4. CASE Validate(j)
  <2>1. pc[j] = "validate" /\ pc'[j] \in Ended
    BY <1>1, <1>4 DEF Validate, GoTo, Ended
  <2>2. "validate" \in Steps \ Ended
    BY DEF Steps, Ended
  <2> QED BY <2>1, <2>2, RanksOrdered DEF GetsOn
<1>5. CASE Answered(j)
  <2>1. pc[j] = "request" /\ pc'[j] = "copy" /\ todo'[j] = todo[j]
    BY <1>1, <1>5 DEF Answered, GoTo
  <2> QED BY <2>1 DEF GetsOn
<1>6. CASE Copy(j)
  <2>1. /\ pc[j] = "copy" /\ pc'[j] = "copy" /\ todo'[j] = todo[j]
        /\ file'[j] = Append(file[j], Source(j)) /\ Length(j) < Size[Source(j)]
    BY <1>1, <1>6 DEF Copy, Dir
  <2>2. file[j] \in Seq(Locations) /\ Source(j) \in Locations /\ Size[Source(j)] \in Nat
    BY <1>1, <2>1 DEF Trying, Copied
  <2>3. file[j] # NoFile
    BY <2>2, SourceAssumption DEF Locations
  <2>4. Len(file[j]) \in Nat /\ Len(file'[j]) = Len(file[j]) + 1
    BY <2>1, <2>2, AppendProperties, LenProperties
  <2>5. Len(file[j]) < Size[Source(j)]
    BY <2>1, <2>3 DEF Length
  <2>6. Len(file[j]) < Len(file'[j]) /\ Len(file'[j]) <= Size[Source(j)]
    BY <2>2, <2>4, <2>5
  <2> QED BY <2>1, <2>6 DEF GetsOn
<1>7. CASE AttemptFails(j)
  <2>1. pc[j] \in {"request", "copy"} /\ todo[j] # <<>>
    BY <1>1, <1>7 DEF AttemptFails, Trying
  <2>2. CASE pc'[j] = "failed"
    <3>1. pc[j] \in Steps \ Ended /\ pc'[j] \in Ended
      BY <2>1, <2>2 DEF Steps, Ended
    <3> QED BY <3>1, RanksOrdered DEF GetsOn
  <2>3. CASE pc'[j] # "failed"
    <3>1. pc'[j] = "request" /\ todo'[j] = Tail(todo[j])
      BY <1>1, <1>7, <2>3 DEF AttemptFails, Ask, GoTo, Remaining
    <3>2. Len(Tail(todo[j])) = Len(todo[j]) - 1 /\ Len(todo[j]) \in Nat
      BY <1>1, <2>1, HeadTailProperties, LenProperties
    <3>3. Len(todo'[j]) < Len(todo[j])
      BY <3>1, <3>2
    <3> QED BY <2>1, <3>1, <3>3 DEF GetsOn
  <2> QED BY <2>2, <2>3
<1> QED BY <1>2, <1>3, <1>4, <1>5, <1>6, <1>7 DEF Download

\* A job's step touches nothing of another's.
LEMMA DownloadsApart ==
  ASSUME SourceInv, NEW j \in Jobs, Download(j) \/ ContextEnds(j), NEW k \in Jobs \ {j}
  PROVE  UNCHANGED <<pc[k], todo[k], file[k], ctxDone[k]>>
<1>1. k \in DOMAIN pc /\ k \in DOMAIN todo /\ k \in DOMAIN file /\ k \in DOMAIN ctxDone /\ k # j
  BY DEF SourceInv, Typed
<1>2. pc'[k] = pc[k] /\ todo'[k] = todo[k]
  BY <1>1 DEF Download, ContextEnds, StartDownload, RefuseDownload, NoDirectory, Answered, Copy,
     CopyEnds, AttemptFails, Validate, Ask, GoTo
<1>3. file'[k] = file[k] /\ ctxDone'[k] = ctxDone[k]
  BY <1>1 DEF Download, ContextEnds, StartDownload, RefuseDownload, NoDirectory, Answered, Copy,
     CopyEnds, AttemptFails, Validate, Dir
<1> QED BY <1>2, <1>3

\* DownloadsGetOn, for any jobs and any URLs: the safety half of DownloadEnds.
\* Only a peer or a disk that is waited for keeps a download from its end.
THEOREM DownloadsComeToAnEnd == Spec => DownloadsGetOn
<1>1. ASSUME SourceInv, Next, ~UNCHANGED vars
      PROVE  \E j \in Jobs :
                /\ \/ GetsOn(j)
                   \/ ~ctxDone[j] /\ ctxDone'[j] /\ UNCHANGED <<pc, todo, file>>
                /\ \A k \in Jobs \ {j} :
                      UNCHANGED <<pc[k], todo[k], file[k], ctxDone[k]>>
  <2>1. PICK j \in Jobs : Download(j) \/ ContextEnds(j)
    BY <1>1 DEF Next, AllEnded
  <2>2. ContextEnds(j) => ~ctxDone[j] /\ ctxDone'[j] /\ UNCHANGED <<pc, todo, file>>
    BY <1>1 DEF ContextEnds, SourceInv, Typed
  <2>3. Download(j) => GetsOn(j)
    BY <1>1, DownloadGetsOn
  <2>4. \A k \in Jobs \ {j} : UNCHANGED <<pc[k], todo[k], file[k], ctxDone[k]>>
    BY <1>1, <2>1, DownloadsApart
  <2> QED BY <2>1, <2>2, <2>3, <2>4
<1>2. SourceInv /\ [Next]_vars =>
        [\E j \in Jobs :
          /\ \/ GetsOn(j)
             \/ ~ctxDone[j] /\ ctxDone'[j] /\ UNCHANGED <<pc, todo, file>>
          /\ \A k \in Jobs \ {j} :
                UNCHANGED <<pc[k], todo[k], file[k], ctxDone[k]>>]_vars
  BY <1>1
<1> QED BY <1>2, SourceInvariant, PTL DEF Spec, DownloadsGetOn
===============================================================================
