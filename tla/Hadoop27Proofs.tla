--------------------------- MODULE Hadoop27Proofs ---------------------------
(***************************************************************************)
(* Theorems of Hadoop27: for every manifest, every number of jobs and      *)
(* every length of the log, whatever breaks off.                           *)
(***************************************************************************)
EXTENDS Hadoop27, FiniteFolds

LEMMA LayerTyped ==
    ASSUME NEW i \in 1 .. Len(Layers)
    PROVE  /\ i \in DOMAIN Layers
           /\ Layers[i].id \in Ids
           /\ Layers[i].blob \in Digests
           /\ Layers[i].blob \notin {None, Torn}
<1>1. DOMAIN Layers = 1 .. Len(Layers)
  BY LayersAssumption
<1> QED BY <1>1, LayersAssumption DEF Ids, Digests

LEMMA DigestIsNoMark ==
    ASSUME NEW d \in Digests
    PROVE  d \notin {None, Torn}
BY LayersAssumption DEF Digests

-----------------------------------------------------------------------------
(* The download.                                                           *)

\* The digests that the loop has left behind are on the disk.
Downloaded ==
    /\ at \in {"blobs", "receive", "verify"} => n = 1
    /\ at = "blobs" => \A d \in Digests \ todo : blob[d] # None
    /\ at \in {"receive", "verify"} =>
          /\ digest \in Digests
          /\ \A d \in Digests \ (todo \cup {digest}) : blob[d] # None

Staging == {"stage", "copy", "pack", "clean"}

\* The stage holds the layers before n, the first of each id, and nothing else.
Staged ==
    at \in Staging =>
        /\ \A d \in Digests : blob[d] = d
        /\ \A i \in 1 .. n - 1 : stage[Layers[i].id] # None
        /\ \A i \in 1 .. n - 1 : First(i) => stage[Layers[i].id] = Layers[i].blob
        /\ at = "stage" => \A id \in Ids : \/ stage[id] = None
                                           \/ \E i \in 1 .. n - 1 : Layers[i].id = id
        /\ at = "copy" =>
              /\ n <= Len(Layers) /\ First(n)
              /\ stage[Layers[n].id] # None
              /\ \A id \in Ids \ {Layers[n].id} :
                    \/ stage[id] = None
                    \/ \E i \in 1 .. n - 1 : Layers[i].id = id
        /\ at \in {"pack", "clean"} => n = Len(Layers) + 1

TarFaithful == tar \in {None, Torn} \/ Faithful(tar)

\* The inductive invariant of the download.
FetchInv ==
    FetchTypeOK /\ BlobsVerified /\ ImageFaithful /\ Downloaded /\ Staged /\ TarFaithful

LEMMA FetchInitInv == FetchInit => FetchInv
<1> SUFFICES ASSUME FetchInit PROVE FetchInv
  OBVIOUS
<1>1. Len(Layers) \in Nat
  BY LayersAssumption
<1>2. FetchTypeOK
  <2>1. n \in 1 .. Len(Layers) + 1
    BY <1>1 DEF FetchInit
  <2>2. stage \in [Ids -> Contents]
    BY DEF FetchInit, Contents, Empty
  <2>3. part \in [Digests -> Contents] /\ blob \in [Digests -> Contents]
    BY DEF FetchInit, Contents
  <2> QED BY <2>1, <2>2, <2>3 DEF FetchInit, FetchTypeOK, Ended
<1> QED BY <1>2 DEF FetchInit, FetchInv, BlobsVerified, ImageFaithful, Downloaded, Staged,
                    Staging, TarFaithful

\* The steps of the download loop.
LEMMA DownloadKeeps ==
    ASSUME FetchInv,
           \/ \E d \in Digests : SkipBlob(d) \/ OpenPart(d)
           \/ Receive \/ Rename \/ Mismatch
    PROVE  FetchInv'
<1> USE DEF FetchInv
<1>1. ASSUME NEW d \in Digests, SkipBlob(d) PROVE FetchInv'
  BY <1>1 DEF SkipBlob, disk, FetchTypeOK, BlobsVerified, ImageFaithful, Downloaded,
              Staged, Staging, TarFaithful
<1>2. ASSUME NEW d \in Digests, OpenPart(d) PROVE FetchInv'
  <2>1. FetchTypeOK'
    BY <1>2 DEF OpenPart, FetchTypeOK, Contents, Ended
  <2> QED BY <2>1, <1>2 DEF OpenPart, BlobsVerified, ImageFaithful, Downloaded, Staged,
                            Staging, TarFaithful
<1>3. CASE Receive
  <2>1. FetchTypeOK'
    BY <1>3 DEF Receive, locals, Downloaded, FetchTypeOK, Contents, Ended
  <2> QED BY <2>1, <1>3 DEF Receive, locals, BlobsVerified, ImageFaithful, Downloaded,
                            Staged, Staging, TarFaithful
<1>4. CASE Rename
  <2>1. digest \in Digests /\ digest # None
    BY <1>4, DigestIsNoMark DEF Rename, Downloaded
  <2>2. blob' = [blob EXCEPT ![digest] = digest]
    BY <1>4 DEF Rename
  <2>3. FetchTypeOK'
    BY <1>4, <2>1, <2>2 DEF Rename, locals, FetchTypeOK, Contents, Ended
  <2>4. BlobsVerified' /\ Downloaded'
    BY <1>4, <2>1, <2>2 DEF Rename, locals, FetchTypeOK, BlobsVerified, Downloaded
  <2> QED BY <2>3, <2>4, <1>4 DEF Rename, ImageFaithful, Staged, Staging, TarFaithful
<1>5. CASE Mismatch
  BY <1>5 DEF Mismatch, locals, disk, FetchTypeOK, Ended, BlobsVerified, ImageFaithful,
              Downloaded, Staged, Staging, TarFaithful
<1> QED BY <1>1, <1>2, <1>3, <1>4, <1>5

\* The stage directory is emptied and filled again.
LEMMA StageKeeps ==
    ASSUME FetchInv, ClearStage \/ SkipLayer \/ OpenLayer \/ CopyLayer
    PROVE  FetchInv'
<1> USE DEF FetchInv
<1>0. Len(Layers) \in Nat
  BY LayersAssumption
<1>1. CASE ClearStage
  <2>1. FetchTypeOK'
    BY <1>1 DEF ClearStage, locals, FetchTypeOK, Contents, Ended, Empty
  <2>2. \A d \in Digests : blob'[d] = d
    BY <1>1 DEF ClearStage, Downloaded, BlobsVerified
  <2> QED BY <1>1, <2>1, <2>2 DEF ClearStage, locals, BlobsVerified, ImageFaithful,
                                  Downloaded, Staged, Staging, Empty, TarFaithful
<1>2. CASE SkipLayer
  <2>1. FetchTypeOK'
    BY <1>0, <1>2 DEF SkipLayer, disk, FetchTypeOK
  <2>2. n \in 1 .. Len(Layers) /\ n' = n + 1
    BY <1>0, <1>2 DEF SkipLayer, FetchTypeOK
  <2>3. Layers[n].id \in Ids
    BY <2>2, LayerTyped
  <2>4. ~First(n)
    BY <1>2, <2>3 DEF SkipLayer, Staged, Staging, First
  <2>5. \A i \in 1 .. n' - 1 : i \in 1 .. n - 1 \/ i = n
    BY <2>2
  <2>6. 1 .. n - 1 \subseteq 1 .. n' - 1
    BY <2>2
  <2>7. Staged'
    BY <1>2, <2>4, <2>5, <2>6 DEF SkipLayer, disk, Staged, Staging, First
  <2> QED BY <1>2, <2>1, <2>7 DEF SkipLayer, disk, BlobsVerified, ImageFaithful,
                                  Downloaded, TarFaithful
<1>3. CASE OpenLayer
  <2>1. n \in 1 .. Len(Layers)
    BY <1>0, <1>3 DEF OpenLayer, FetchTypeOK
  <2>2. Layers[n].id \in Ids
    BY <2>1, LayerTyped
  <2>3. FetchTypeOK'
    BY <1>3, <2>2 DEF OpenLayer, locals, FetchTypeOK, Contents, Ended
  <2>4. First(n)
    BY <1>3 DEF OpenLayer, Staged, Staging, First
  <2>5. \A i \in 1 .. n - 1 : Layers[i].id # Layers[n].id
    BY <2>4 DEF First
  <2>6. \A id \in Ids : stage'[id] = IF id = Layers[n].id THEN Torn ELSE stage[id]
    BY <1>3 DEF OpenLayer, FetchTypeOK
  <2>7. \A i \in 1 .. n - 1 : Layers[i].id \in Ids
    BY <2>1, LayerTyped
  <2>8. n <= Len(Layers) /\ First(n) /\ n' = n /\ at' = "copy" /\ blob' = blob
    BY <1>3, <2>4 DEF OpenLayer, locals
  <2>9. stage'[Layers[n].id] # None
    BY <2>2, <2>6, LayersAssumption
  <2>10. \A i \in 1 .. n - 1 : stage'[Layers[i].id] = stage[Layers[i].id]
    BY <2>5, <2>6, <2>7
  <2>11. Staged'
    BY <1>3, <2>6, <2>8, <2>9, <2>10 DEF OpenLayer, Staged, Staging, First
  <2> QED BY <1>3, <2>3, <2>11 DEF OpenLayer, locals, BlobsVerified, ImageFaithful,
                                  Downloaded, TarFaithful
<1>4. CASE CopyLayer
  <2>1. n \in 1 .. Len(Layers) /\ n' = n + 1
    BY <1>0, <1>4 DEF CopyLayer, FetchTypeOK, Staged, Staging
  <2>2. Layers[n].id \in Ids /\ Layers[n].blob \in Digests /\ Layers[n].blob # None
    BY <2>1, LayerTyped
  <2>3. blob[Layers[n].blob] = Layers[n].blob
    BY <1>4, <2>2 DEF CopyLayer, Staged, Staging
  <2>4. FetchTypeOK'
    BY <1>0, <1>4, <2>1, <2>2, <2>3 DEF CopyLayer, FetchTypeOK, Contents, Ended
  <2>5. \A i \in 1 .. n - 1 : Layers[i].id # Layers[n].id
    BY <1>4 DEF CopyLayer, Staged, Staging, First
  <2>6. \A id \in Ids : stage'[id] = IF id = Layers[n].id THEN Layers[n].blob ELSE stage[id]
    BY <1>4, <2>3 DEF CopyLayer, FetchTypeOK
  <2>7. \A i \in 1 .. n - 1 : Layers[i].id \in Ids
    BY <2>1, LayerTyped
  <2>8. \A i \in 1 .. n' - 1 : i \in 1 .. n - 1 \/ i = n
    BY <2>1
  <2>9. n \in 1 .. n' - 1 /\ 1 .. n - 1 \subseteq 1 .. n' - 1
    BY <2>1
  <2>10. Staged'
    BY <1>4, <2>2, <2>5, <2>6, <2>7, <2>8, <2>9 DEF CopyLayer, Staged, Staging
  <2> QED BY <1>4, <2>4, <2>10 DEF CopyLayer, BlobsVerified, ImageFaithful, Downloaded,
                                   TarFaithful
<1> QED BY <1>1, <1>2, <1>3, <1>4

\* The stage is packed.
LEMMA PackKeeps ==
    ASSUME FetchInv, OpenTar \/ CloseTar \/ Clean
    PROVE  FetchInv'
<1> USE DEF FetchInv
<1>0. Len(Layers) \in Nat /\ DOMAIN Layers = 1 .. Len(Layers)
  BY LayersAssumption
<1>1. CASE OpenTar
  <2>1. n = Len(Layers) + 1
    BY <1>0, <1>1 DEF OpenTar, FetchTypeOK
  <2>2. FetchTypeOK'
    BY <1>1 DEF OpenTar, locals, FetchTypeOK, Ended
  <2> QED BY <1>1, <2>1, <2>2 DEF OpenTar, locals, BlobsVerified, ImageFaithful, Downloaded,
                                  Staged, Staging, TarFaithful
<1>2. CASE CloseTar
  <2>1. n - 1 = Len(Layers)
    BY <1>0, <1>2 DEF CloseTar, Staged, Staging
  <2>2. Faithful(stage)
    BY <1>0, <1>2, <2>1 DEF CloseTar, Staged, Staging, Faithful
  <2>3. FetchTypeOK'
    BY <1>2 DEF CloseTar, locals, FetchTypeOK, Ended
  <2>4. TarFaithful'
    BY <1>2, <2>2 DEF CloseTar, TarFaithful, Faithful
  <2> QED BY <1>2, <2>3, <2>4 DEF CloseTar, locals, BlobsVerified, ImageFaithful, Downloaded,
                                  Staged, Staging
<1>3. CASE Clean
  <2>1. FetchTypeOK'
    BY <1>3 DEF Clean, locals, FetchTypeOK, Contents, Ended, Empty
  <2> QED BY <1>3, <2>1 DEF Clean, locals, BlobsVerified, ImageFaithful, Downloaded, Staged,
                            Staging, TarFaithful
<1> QED BY <1>1, <1>2, <1>3

\* Failures, new runs and docker load.
LEMMA FetchOutsideKeeps ==
    ASSUME FetchInv, BreakOff \/ Recover \/ Run \/ RunAgain \/ Load
    PROVE  FetchInv'
<1> USE DEF FetchInv
<1>0. Len(Layers) \in Nat
  BY LayersAssumption
<1>1. CASE BreakOff
  BY <1>1 DEF BreakOff, locals, disk, FetchTypeOK, Ended, BlobsVerified, ImageFaithful,
              Downloaded, Staged, Staging, TarFaithful
<1>2. CASE Recover
  BY <1>2 DEF Recover, locals, disk, FetchTypeOK, BlobsVerified, ImageFaithful, Downloaded,
              Staged, Staging, TarFaithful
<1>3. CASE Run \/ RunAgain
  <2>1. Manifest
    BY <1>3 DEF Run, RunAgain
  <2>2. FetchTypeOK'
    BY <1>0, <2>1 DEF Manifest, disk, FetchTypeOK
  <2> QED BY <2>1, <2>2 DEF Manifest, disk, BlobsVerified, ImageFaithful, Downloaded, Staged,
                            Staging, TarFaithful
<1>4. CASE Load
  <2>1. FetchTypeOK'
    BY <1>4 DEF Load, locals, disk, FetchTypeOK
  <2> QED BY <1>4, <2>1 DEF Load, locals, disk, BlobsVerified, ImageFaithful, Downloaded,
                            Staged, Staging, TarFaithful, Faithful
<1> QED BY <1>1, <1>2, <1>3, <1>4

LEMMA FetchKeeps ==
    ASSUME FetchInv, FetchNext \/ UNCHANGED fetch
    PROVE  FetchInv'
<1>1. CASE FetchStep
  BY <1>1, DownloadKeeps, StageKeeps, PackKeeps DEF FetchStep
<1>2. CASE UNCHANGED fetch
  BY <1>2 DEF FetchInv, fetch, locals, disk, FetchTypeOK, BlobsVerified, ImageFaithful,
              Downloaded, Staged, Staging, TarFaithful
<1> QED BY <1>1, <1>2, FetchOutsideKeeps DEF FetchNext

-----------------------------------------------------------------------------
(* The jobs.                                                               *)

\* A job has an id once it has been given one, all ids are among those given,
\* and with interval 0 only the last job may be without.
IdsInv ==
    /\ pc = "idle" => k = 0
    /\ pc = "gap" => k \in 1 .. N - 1
    /\ \A j \in Jobs : /\ app[j] <= ids
                       /\ j > k => app[j] = 0 /\ phase[j] = "none"
                       /\ phase[j] = "starting" => app[j] = 0
    /\ interval0 => \A j \in Jobs : j < k => app[j] # 0

\* The inductive invariant of the jobs.
JobsInv == Fig6aTypeOK /\ IdsInv /\ AppIdsInOrder

LEMMA JobsInitInv == Fig6aInit => JobsInv
<1> SUFFICES ASSUME Fig6aInit PROVE JobsInv
  OBVIOUS
<1>1. log \in Seq(Line)
  <2>1. log \in Seq({line \in Line : line.old})
    BY Fig6aAssumption DEF Fig6aInit
  <2> QED BY <2>1, {line \in Line : line.old} \subseteq Line
<1>2. Fig6aTypeOK
  BY <1>1, Fig6aAssumption DEF Fig6aInit, Fig6aTypeOK
<1> QED BY <1>2, Fig6aAssumption DEF Fig6aInit, JobsInv, IdsInv, AppIdsInOrder, Jobs

LEMMA SubmitKeeps ==
    ASSUME JobsInv, StartRun \/ GapOver
    PROVE  JobsInv'
<1> USE Fig6aAssumption DEF JobsInv
<1>1. k \in 0 .. N - 1 /\ (interval0 /\ k > 0 => app[k] # 0)
  BY DEF StartRun, GapOver, IdsInv, Fig6aTypeOK
<1>2. /\ Submit /\ k' = k + 1 /\ k' \in Jobs
      /\ UNCHANGED <<app, ids, ends, log, interval0, apps>>
      /\ phase' = [phase EXCEPT ![k'] = "starting"]
      /\ pc' = IF k' < N THEN "gap" ELSE "wait"
  BY <1>1 DEF StartRun, GapOver, Submit, Jobs
<1>3. nm0' \in Nat
  BY DEF StartRun, GapOver, Fig6aTypeOK
<1>4. Fig6aTypeOK'
  BY <1>1, <1>2, <1>3 DEF Fig6aTypeOK, Jobs
<1>5. IdsInv'
  BY <1>1, <1>2 DEF IdsInv, Fig6aTypeOK, Jobs
<1>6. AppIdsInOrder'
  BY <1>2 DEF AppIdsInOrder
<1> QED BY <1>4, <1>5, <1>6

LEMMA GetIdKeeps ==
    ASSUME JobsInv, NEW j \in Jobs, GetId(j)
    PROVE  JobsInv'
<1> USE Fig6aAssumption DEF JobsInv
<1>1. /\ ids' = ids + 1 /\ ids \in Nat
      /\ \A i \in Jobs : app'[i] = IF i = j THEN ids' ELSE app[i]
      /\ \A i \in Jobs : phase'[i] = IF i = j THEN "uploading" ELSE phase[i]
      /\ UNCHANGED <<script, ends, log>>
  BY DEF GetId, Fig6aTypeOK
<1>2. Fig6aTypeOK'
  BY DEF GetId, Fig6aTypeOK, script, Jobs
<1>3. j <= k /\ app[j] = 0
  BY DEF GetId, IdsInv, Fig6aTypeOK, Jobs
<1>4. interval0 => j = k
  BY <1>3 DEF IdsInv, Fig6aTypeOK, Jobs
<1>5. \A i \in Jobs : app[i] \in Nat /\ app[i] <= ids /\ (i > k => app[i] = 0)
  BY DEF IdsInv, Fig6aTypeOK
<1>6. IdsInv'
  <2>1. UNCHANGED <<pc, k, interval0>>
    BY <1>1 DEF script
  <2>2. ASSUME NEW i \in Jobs
        PROVE  /\ app'[i] <= ids'
               /\ i > k => app'[i] = 0 /\ phase'[i] = "none"
               /\ phase'[i] = "starting" => app'[i] = 0
    <3>1. CASE i = j
      <4>1. ~(i > k)
        BY <1>3, <3>1 DEF Jobs, Fig6aTypeOK
      <4>2. app'[i] = ids' /\ phase'[i] = "uploading"
        BY <1>1, <3>1
      <4> QED BY <1>1, <4>1, <4>2
    <3>2. CASE i # j
      <4>1. app'[i] = app[i] /\ phase'[i] = phase[i]
        BY <1>1, <3>2
      <4>2. app[i] <= ids'
        BY <1>1, <1>5
      <4> QED BY <4>1, <4>2 DEF IdsInv
    <3> QED BY <3>1, <3>2
  <2>3. interval0 => \A i \in Jobs : i < k => app'[i] # 0
    BY <1>1, <1>4 DEF IdsInv, Jobs
  <2> QED BY <2>1, <2>2, <2>3 DEF IdsInv
<1>7. ASSUME interval0, NEW i \in Jobs, NEW l \in Jobs, i < l, app'[i] # 0, app'[l] # 0
      PROVE  app'[i] < app'[l]
  <2>1. i # j
    BY <1>1, <1>4, <1>5, <1>7 DEF Jobs
  <2>2. CASE l = j
    BY <1>1, <1>5, <2>1, <2>2
  <2>3. CASE l # j
    BY <1>1, <1>7, <2>1, <2>3 DEF AppIdsInOrder
  <2> QED BY <2>2, <2>3
<1>8. AppIdsInOrder'
  BY <1>1, <1>7 DEF AppIdsInOrder, script
<1> QED BY <1>2, <1>6, <1>8

LEMMA WrittenTyped ==
    ASSUME JobsInv
    PROVE  Written \subseteq Line
<1>1. ASSUME NEW j \in Jobs, NEW e \in Events
      PROVE  [old |-> FALSE, app |-> app[j], box |-> e[1], what |-> e[2]] \in Line
  <2>1. e[1] \in Boxes /\ e[2] \in OfContainer
    BY Fig6aAssumption
  <2>2. app[j] \in Nat
    BY DEF JobsInv, Fig6aTypeOK
  <2> QED BY <2>1, <2>2 DEF Line
<1>2. Stop \in Line
  BY DEF Stop, Line
<1> QED BY <1>1, <1>2 DEF Written

LEMMA JobsKeep ==
    ASSUME JobsInv, Fig6aNext \/ UNCHANGED fig6a
    PROVE  JobsInv'
<1> USE Fig6aAssumption DEF JobsInv
<1>1. CASE Collect
  BY <1>1 DEF Collect, spark, Fig6aTypeOK, IdsInv, AppIdsInOrder, Jobs
<1>2. CASE Write
  <2>1. PICK line \in Line : log' = Append(log, line)
    BY <1>2, WrittenTyped DEF Write
  <2>2. log' \in Seq(Line)
    BY <2>1 DEF Fig6aTypeOK
  <2> QED BY <1>2, <2>2 DEF Write, script, spark, Fig6aTypeOK, IdsInv, AppIdsInOrder
<1>3. ASSUME NEW j \in Jobs, Accept(j) \/ JobEnds(j) PROVE JobsInv'
  <2>1. Fig6aTypeOK'
    BY <1>3 DEF Accept, JobEnds, script, Fig6aTypeOK
  <2>2. \A i \in Jobs : /\ phase'[i] \in {phase[i], "running", "over"}
                        /\ phase[i] = "none" => phase'[i] = "none"
    BY <1>3 DEF Accept, JobEnds, Fig6aTypeOK
  <2>3. UNCHANGED <<script, app, ids>>
    BY <1>3 DEF Accept, JobEnds
  <2>4. IdsInv'
    BY <2>2, <2>3 DEF IdsInv, script
  <2>5. AppIdsInOrder'
    BY <2>3 DEF AppIdsInOrder, script
  <2> QED BY <2>1, <2>4, <2>5
<1>4. CASE UNCHANGED fig6a
  BY <1>4 DEF fig6a, script, spark, Fig6aTypeOK, IdsInv, AppIdsInOrder
<1> QED BY <1>1, <1>2, <1>3, <1>4, SubmitKeeps, GetIdKeeps DEF Fig6aNext, Script, Job

-----------------------------------------------------------------------------
(* The log.                                                                *)

\* Application ids are given once; a job has one as soon as it runs, and gets
\* none after its end.
AppsDistinct ==
    /\ \A i, j \in Jobs : i # j /\ app[i] # 0 => app[i] # app[j]
    /\ \A j \in Jobs : phase[j] \in {"uploading", "running"} => app[j] # 0
    /\ \A j \in ends : phase[j] = "over"
    /\ pc = "done" => ends = Jobs /\ apps = app

IsOld(line) == line.old

IsOfRun(line) == /\ ~line.old
                 /\ \/ line.app = 0 /\ line.what = "stop"
                    \/ /\ line.what \in OfContainer
                       /\ \E j \in Jobs : app[j] # 0 /\ line.app = app[j]

\* Up to nm0 the log is of earlier runs, behind it of the applications of this one.
LogOfRun ==
    IF pc = "idle" THEN \A i \in DOMAIN log : IsOld(log[i])
    ELSE /\ nm0 <= Len(log)
         /\ \A i \in DOMAIN log : IF i <= nm0 THEN IsOld(log[i]) ELSE IsOfRun(log[i])

\* The inductive invariant of the log.
LogInv == AppsDistinct /\ LogOfRun

LEMMA LogInitInv == Fig6aInit => LogInv
<1> SUFFICES ASSUME Fig6aInit PROVE LogInv
  OBVIOUS
<1>1. LogOfRun
  <2>1. log \in Seq({line \in Line : line.old})
    BY Fig6aAssumption DEF Fig6aInit
  <2>2. \A i \in DOMAIN log : log[i] \in {line \in Line : line.old}
    BY <2>1
  <2> QED BY <2>2 DEF Fig6aInit, LogOfRun, IsOld
<1> QED BY <1>1 DEF Fig6aInit, LogInv, AppsDistinct

LEMMA LogKeeps ==
    ASSUME JobsInv, LogInv, Fig6aNext \/ UNCHANGED fig6a
    PROVE  LogInv'
<1> USE DEF LogInv
<1>1. CASE StartRun
  <2>1. nm0' = Len(log) /\ UNCHANGED <<app, ends, log, apps>> /\ pc' \in {"gap", "wait"}
    BY <1>1 DEF StartRun, Submit
  <2>2. LogOfRun'
    BY <1>1, <2>1 DEF StartRun, LogOfRun, IsOld, JobsInv, Fig6aTypeOK
  <2>3. ends = {}
    BY <1>1 DEF StartRun, JobsInv, Fig6aTypeOK, IdsInv, AppsDistinct, Jobs
  <2>4. \A j \in Jobs : phase'[j] \in {phase[j], "starting"}
    BY <1>1 DEF StartRun, Submit, JobsInv, Fig6aTypeOK
  <2> QED BY <2>1, <2>2, <2>3, <2>4 DEF AppsDistinct
<1>2. CASE GapOver
  <2>1. UNCHANGED <<app, ends, log, apps, nm0>> /\ pc' \in {"gap", "wait"} /\ pc = "gap" /\ k' = k + 1
    BY <1>2 DEF GapOver, Submit
  <2>2. LogOfRun'
    BY <2>1 DEF LogOfRun, IsOld, IsOfRun
  <2>3. \A j \in Jobs : phase'[j] = IF j = k' THEN "starting" ELSE phase[j]
    BY <1>2 DEF GapOver, Submit, JobsInv, Fig6aTypeOK
  <2>4. \A j \in ends : j # k' /\ j \in Jobs
    BY <2>1 DEF JobsInv, Fig6aTypeOK, IdsInv, AppsDistinct, Jobs
  <2> QED BY <2>1, <2>2, <2>3, <2>4 DEF AppsDistinct
<1>3. CASE Collect
  BY <1>3 DEF Collect, spark, AppsDistinct, LogOfRun, IsOld, IsOfRun
<1>4. ASSUME NEW j \in Jobs, GetId(j) PROVE LogInv'
  <2>1. /\ UNCHANGED <<pc, nm0, apps, ends, log>> /\ phase[j] = "starting" /\ pc # "done"
        /\ app[j] = 0
    BY <1>4 DEF GetId, script, AppsDistinct, JobsInv, IdsInv
  <2>2. \A i \in Jobs : app'[i] = IF i = j THEN ids + 1 ELSE app[i]
    BY <1>4 DEF GetId, JobsInv, Fig6aTypeOK
  <2>3. \A i \in Jobs : phase'[i] = IF i = j THEN "uploading" ELSE phase[i]
    BY <1>4 DEF GetId, JobsInv, Fig6aTypeOK
  <2>4. \A i \in Jobs : app[i] \in Nat /\ app[i] <= ids /\ ids \in Nat
    BY DEF JobsInv, IdsInv, Fig6aTypeOK
  <2>5. \A i \in Jobs : app[i] # 0 => app'[i] = app[i]
    BY <2>1, <2>2
  <2>6. LogOfRun'
    <3>1. \A line : IsOfRun(line) => IsOfRun(line)'
      BY <2>5 DEF IsOfRun
    <3> QED BY <2>1, <3>1 DEF LogOfRun, IsOld
  <2>7. \A h, i \in Jobs : h # i /\ app'[h] # 0 => app'[h] # app'[i]
    BY <2>2, <2>4 DEF AppsDistinct
  <2>8. \A i \in Jobs : phase'[i] \in {"uploading", "running"} => app'[i] # 0
    BY <2>2, <2>3, <2>4 DEF AppsDistinct
  <2>9. \A i \in ends : phase'[i] = "over"
    BY <2>1, <2>3 DEF AppsDistinct, JobsInv, Fig6aTypeOK
  <2> QED BY <2>1, <2>6, <2>7, <2>8, <2>9 DEF AppsDistinct
<1>5. ASSUME NEW j \in Jobs, Accept(j) \/ JobEnds(j) PROVE LogInv'
  <2>1. UNCHANGED <<script, app, log>>
    BY <1>5 DEF Accept, JobEnds
  <2>2. LogOfRun'
    BY <2>1 DEF LogOfRun, IsOld, IsOfRun, script
  <2>3. CASE Accept(j)
    BY <2>1, <2>2, <2>3 DEF Accept, AppsDistinct, JobsInv, Fig6aTypeOK, script
  <2>4. CASE JobEnds(j)
    BY <2>1, <2>2, <2>4 DEF JobEnds, AppsDistinct, JobsInv, Fig6aTypeOK, script
  <2> QED BY <1>5, <2>3, <2>4
<1>6. CASE Write
  <2>1. PICK line \in Written : log' = Append(log, line)
    BY <1>6 DEF Write
  <2>2. IsOfRun(line)
    <3>1. CASE line = Stop
      BY <3>1 DEF Stop, IsOfRun
    <3>2. CASE line # Stop
      <4>1. PICK j \in Jobs, e \in Events :
                /\ phase[j] = "running"
                /\ line = [old |-> FALSE, app |-> app[j], box |-> e[1], what |-> e[2]]
        BY <2>1, <3>2 DEF Written
      <4>2. e[2] \in OfContainer
        BY Fig6aAssumption
      <4> QED BY <4>1, <4>2 DEF IsOfRun, AppsDistinct
    <3> QED BY <3>1, <3>2
  <2>3. UNCHANGED <<pc, nm0, apps, phase, app, ends>> /\ pc # "idle"
    BY <1>6 DEF Write, script, spark
  <2>4. log \in Seq(Line) /\ nm0 \in Nat
    BY DEF JobsInv, Fig6aTypeOK
  <2>5. /\ Len(log') = Len(log) + 1 /\ DOMAIN log' = 1 .. Len(log) + 1
        /\ \A i \in DOMAIN log' : log'[i] = IF i <= Len(log) THEN log[i] ELSE line
    BY <2>1, <2>4
  <2>6. \A l : IsOfRun(l)' <=> IsOfRun(l)
    BY <2>3 DEF IsOfRun
  <2>7. LogOfRun'
    BY <2>2, <2>3, <2>4, <2>5, <2>6 DEF LogOfRun, IsOld
  <2> QED BY <2>3, <2>7 DEF AppsDistinct
<1>7. CASE UNCHANGED fig6a
  BY <1>7 DEF fig6a, script, spark, AppsDistinct, LogOfRun, IsOld, IsOfRun
<1> QED BY <1>1, <1>2, <1>3, <1>4, <1>5, <1>6, <1>7 DEF Fig6aNext, Script, Job

-----------------------------------------------------------------------------
(* What the two readers hold after the lines of nm.log with an index in s. *)

What(i) == nmLog[i].what
Owner(i) == JobOf(nmLog[i].app)
Box(i) == Container(nmLog[i])
Initial(i) == nmLog[i].box \in FirstAttempt

\* How many of the lines s each job has.
Tally(s) == [j \in Named |-> Cardinality({i \in s : Owner(i) = j})]

Among(s, whats) == {i \in s : What(i) \in whats}

AmongEarly(s, whats) == {i \in Among(s, whats) : \A t \in s : What(t) = "stop" => i < t}

CountsOf(s) ==
    [stop   |-> \E i \in s : What(i) = "stop",
     kill   |-> Tally(Among(s, {"kill"})),
     ocm    |-> Tally(AmongEarly(s, {"ocm"})),
     puff   |-> Tally(AmongEarly(s, {"grow"})),
     shrink |-> Tally(AmongEarly(s, {"same", "cut"}))]

\* A slacking line of container b in s that no update before line i has used up.
SlackBefore(s, b, i) ==
    \E t \in s : /\ t < i /\ What(t) = "slack" /\ Box(t) = b
                 /\ \A u \in s : t < u /\ u < i /\ Box(u) = b => What(u) \notin Resizes

ShrinksIn(s) ==
    {i \in Among(s, {"cut"}) : Initial(i) /\ Owner(i) # 0 /\ SlackBefore(s, Box(i), i)}

SlackOf(s) == {Box(t) : t \in {t \in Among(s, {"slack"}) :
                  /\ Initial(t)
                  /\ \A u \in s : t < u /\ Box(u) = Box(t) => What(u) \notin Resizes}}

PairsOf(s) == [slack |-> SlackOf(s), shrinks |-> Tally(ShrinksIn(s))]

JobKills(s) == {i \in Among(s, {"kill"}) : Initial(i) /\ Owner(i) # 0}

\* A container is of a first attempt or not, whichever line names it.
LEMMA BoxInitial ==
    ASSUME NEW i, NEW t, Box(t) = Box(i)
    PROVE  Initial(t) <=> Initial(i)
BY DEF Box, Container, Initial

LEMMA OwnerNamed == \A i : Owner(i) \in Named
BY DEF Owner, JobOf, Named

\* One line more is one more for its job.
LEMMA TallyAdd ==
    ASSUME NEW s, IsFiniteSet(s), NEW i, i \notin s
    PROVE  Tally(s \cup {i}) = Plus(Tally(s), Owner(i))
<1>1. ASSUME NEW j \in Named
      PROVE  Cardinality({h \in s \cup {i} : Owner(h) = j})
             = Cardinality({h \in s : Owner(h) = j}) + (IF Owner(i) = j THEN 1 ELSE 0)
  <2> DEFINE T == {h \in s : Owner(h) = j}
  <2>1. IsFiniteSet(T) /\ i \notin T /\ Cardinality(T) \in Nat
    BY FS_Subset, FS_CardinalityType
  <2>2. CASE Owner(i) = j
    <3>1. {h \in s \cup {i} : Owner(h) = j} = T \cup {i}
      BY <2>2
    <3>2. Cardinality(T \cup {i}) = Cardinality(T) + 1
      BY <2>1, FS_AddElement
    <3> QED BY <2>2, <3>1, <3>2
  <2>3. CASE Owner(i) # j
    <3>1. {h \in s \cup {i} : Owner(h) = j} = T
      BY <2>3
    <3> QED BY <2>1, <2>3, <3>1
  <2> QED BY <2>2, <2>3
<1>2. \A j \in Named : Cardinality({h \in s : Owner(h) = j}) \in Nat
  BY FS_Subset, FS_CardinalityType
<1> DEFINE Old(j) == Cardinality({h \in s : Owner(h) = j})
           New(j) == Cardinality({h \in s \cup {i} : Owner(h) = j})
<1>3. \A j \in Named : Old(j) \in Nat /\ New(j) = Old(j) + (IF Owner(i) = j THEN 1 ELSE 0)
  BY <1>1, <1>2
<1> HIDE DEF Old, New
<1>4. [j \in Named |-> New(j)] = [[j \in Named |-> Old(j)] EXCEPT ![Owner(i)] = @ + 1]
  BY <1>3, OwnerNamed
<1> QED BY <1>4 DEF Tally, Plus, Old, New

LEMMA TallyNone == Tally({}) = Zero
<1>1. \A j \in Named : {h \in {} : Owner(h) = j} = {}
  OBVIOUS
<1> QED BY <1>1, FS_EmptySet DEF Tally, Zero

\* What the next line adds to the selections.
LEMMA AmongAdd ==
    ASSUME NEW s, NEW x, NEW whats
    PROVE  Among(s \cup {x}, whats)
           = IF What(x) \in whats THEN Among(s, whats) \cup {x} ELSE Among(s, whats)
BY DEF Among

LEMMA AmongEarlyAdd ==
    ASSUME NEW s \in SUBSET Nat, NEW x \in Nat, \A i \in s : i < x,
           NEW whats, "stop" \notin whats
    PROVE  AmongEarly(s \cup {x}, whats)
           = IF What(x) \in whats /\ ~\E t \in s : What(t) = "stop"
             THEN AmongEarly(s, whats) \cup {x} ELSE AmongEarly(s, whats)
<1>1. \A i \in s : i \in AmongEarly(s \cup {x}, whats) <=> i \in AmongEarly(s, whats)
  BY DEF AmongEarly, Among
<1>2. x \in AmongEarly(s \cup {x}, whats) <=> What(x) \in whats /\ ~\E t \in s : What(t) = "stop"
  BY DEF AmongEarly, Among
<1>3. AmongEarly(s \cup {x}, whats) \subseteq s \cup {x} /\ AmongEarly(s, whats) \subseteq s
  BY DEF AmongEarly, Among
<1>4. x \notin s
  OBVIOUS
<1> DEFINE New == AmongEarly(s \cup {x}, whats)
           Old == AmongEarly(s, whats)
<1> HIDE DEF New, Old
<1>5. CASE x \in New
  <2>1. New = Old \cup {x}
    BY <1>1, <1>3, <1>5 DEF New, Old
  <2> QED BY <1>2, <1>5, <2>1 DEF New, Old
<1>6. CASE x \notin New
  <2>1. New = Old
    BY <1>1, <1>3, <1>4, <1>6 DEF New, Old
  <2> QED BY <1>2, <1>6, <2>1 DEF New, Old
<1> QED BY <1>5, <1>6

\* fig6a-metrics.py counts as CountsOf says.
LEMMA CountsStep ==
    ASSUME NEW s \in SUBSET Nat, IsFiniteSet(s), NEW x \in Nat, \A i \in s : i < x
    PROVE  CountsOf(s \cup {x}) = CountLine(CountsOf(s), nmLog[x])
<1> DEFINE line == nmLog[x]
<1>0. x \notin s
  OBVIOUS
<1>1. \A whats : /\ IsFiniteSet(Among(s, whats)) /\ x \notin Among(s, whats)
                 /\ IsFiniteSet(AmongEarly(s, whats)) /\ x \notin AmongEarly(s, whats)
  <2> TAKE whats
  <2>1. Among(s, whats) \subseteq s /\ AmongEarly(s, whats) \subseteq s
    BY DEF Among, AmongEarly
  <2> QED BY <1>0, <2>1, FS_Subset
<1> DEFINE C == CountsOf(s)
           D == CountsOf(s \cup {x})
<1>2. D.stop = (C.stop \/ What(x) = "stop")
  BY DEF CountsOf
<1>3. D.kill = IF What(x) = "kill" THEN Plus(C.kill, Owner(x)) ELSE C.kill
  BY <1>1, AmongAdd, TallyAdd DEF CountsOf
<1>4. D.ocm = IF What(x) = "ocm" /\ ~C.stop THEN Plus(C.ocm, Owner(x)) ELSE C.ocm
  <2>1. AmongEarly(s \cup {x}, {"ocm"}) = IF What(x) \in {"ocm"} /\ ~\E t \in s : What(t) = "stop"
             THEN AmongEarly(s, {"ocm"}) \cup {x} ELSE AmongEarly(s, {"ocm"})
    BY AmongEarlyAdd
  <2> QED BY <1>1, <2>1, TallyAdd DEF CountsOf
<1>5. D.puff = IF What(x) = "grow" /\ ~C.stop THEN Plus(C.puff, Owner(x)) ELSE C.puff
  <2>1. AmongEarly(s \cup {x}, {"grow"}) = IF What(x) \in {"grow"} /\ ~\E t \in s : What(t) = "stop"
             THEN AmongEarly(s, {"grow"}) \cup {x} ELSE AmongEarly(s, {"grow"})
    BY AmongEarlyAdd
  <2> QED BY <1>1, <2>1, TallyAdd DEF CountsOf
<1>6. D.shrink = IF What(x) \in {"same", "cut"} /\ ~C.stop THEN Plus(C.shrink, Owner(x)) ELSE C.shrink
  <2>1. AmongEarly(s \cup {x}, {"same", "cut"}) = IF What(x) \in {"same", "cut"} /\ ~\E t \in s : What(t) = "stop"
             THEN AmongEarly(s, {"same", "cut"}) \cup {x} ELSE AmongEarly(s, {"same", "cut"})
    BY AmongEarlyAdd
  <2> QED BY <1>1, <2>1, TallyAdd DEF CountsOf
<1>7. C \in [stop : BOOLEAN, kill : {C.kill}, ocm : {C.ocm}, puff : {C.puff}, shrink : {C.shrink}]
  BY DEF CountsOf
<1>8. D = [stop |-> D.stop, kill |-> D.kill, ocm |-> D.ocm, puff |-> D.puff, shrink |-> D.shrink]
  BY DEF CountsOf
<1>9. What(x) = line.what /\ Owner(x) = JobOf(line.app)
  BY DEF What, Owner
<1> SUFFICES D = CountLine(C, line)
  OBVIOUS
<1> HIDE DEF C, D, line
<1>10. CASE line.what = "kill"
  BY <1>2, <1>3, <1>4, <1>5, <1>6, <1>7, <1>8, <1>9, <1>10 DEF CountLine
<1>11. CASE line.what = "stop"
  BY <1>2, <1>3, <1>4, <1>5, <1>6, <1>7, <1>8, <1>9, <1>11 DEF CountLine
<1>12. CASE line.what \notin {"kill", "stop"} /\ C.stop
  BY <1>2, <1>3, <1>4, <1>5, <1>6, <1>7, <1>8, <1>9, <1>12 DEF CountLine
<1>13. CASE line.what \notin {"kill", "stop"} /\ ~C.stop
  <2>1. CountLine(C, line) = CountResize(C, line)
    BY <1>13 DEF CountLine
  <2>2. CASE line.what = "ocm"
    BY <1>2, <1>3, <1>4, <1>5, <1>6, <1>7, <1>8, <1>9, <1>13, <2>1, <2>2 DEF CountResize
  <2>3. CASE line.what = "grow"
    BY <1>2, <1>3, <1>4, <1>5, <1>6, <1>7, <1>8, <1>9, <1>13, <2>1, <2>3 DEF CountResize
  <2>4. CASE line.what \in {"same", "cut"}
    BY <1>2, <1>3, <1>4, <1>5, <1>6, <1>7, <1>8, <1>9, <1>13, <2>1, <2>4 DEF CountResize
  <2>5. CASE line.what \notin {"ocm", "grow", "same", "cut"}
    BY <1>2, <1>3, <1>4, <1>5, <1>6, <1>7, <1>8, <1>9, <1>13, <2>1, <2>5 DEF CountResize
  <2> QED BY <2>2, <2>3, <2>4, <2>5
<1> QED BY <1>10, <1>11, <1>12, <1>13

LEMMA MetricsAre ==
    ASSUME NEW m \in Nat, DOMAIN nmLog = 1 .. m
    PROVE  metrics = CountsOf(1 .. m)
<1> DEFINE D == 1 .. m
           Goes(g) == g = [s \in SUBSET D |-> IF s = {} THEN NothingCounted
                                              ELSE CountLine(g[s \ {Max(s)}], nmLog[Max(s)])]
           g == CHOOSE g : Goes(g)
<1>1. metrics = g[D]
  BY DEF metrics, FoldLeft, MapThenFoldSet
<1>2. CountsOf({}) = NothingCounted
  <2>1. \A whats : Among({}, whats) = {} /\ AmongEarly({}, whats) = {}
    BY DEF Among, AmongEarly
  <2> QED BY <2>1, TallyNone DEF CountsOf, NothingCounted
<1>3. ASSUME NEW s \in SUBSET D, s # {}
      PROVE  CountsOf(s) = CountLine(CountsOf(s \ {Max(s)}), nmLog[Max(s)])
  <2>1. PICK x : /\ x = Max(s) /\ x \in Nat
                 /\ s \ {x} \in SUBSET Nat /\ IsFiniteSet(s \ {x})
                 /\ \A i \in s \ {x} : i < x
                 /\ s = (s \ {x}) \cup {x}
    BY <1>3, LastOf
  <2>2. CountsOf((s \ {x}) \cup {x}) = CountLine(CountsOf(s \ {x}), nmLog[x])
    BY <2>1, CountsStep
  <2> QED BY <2>1, <2>2
<1> DEFINE h == [s \in SUBSET D |-> CountsOf(s)]
<1>4. Goes(h)
  <2>1. \A s \in SUBSET D : s \ {Max(s)} \in SUBSET D
    OBVIOUS
  <2> QED BY <1>2, <1>3, <2>1
<1>5. Goes(g)
  BY <1>4
<1>6. ASSUME NEW s \in SUBSET D, s # {}, g[s \ {Max(s)}] = h[s \ {Max(s)}]
      PROVE  g[s] = h[s]
  <2>1. /\ g[s] = CountLine(g[s \ {Max(s)}], nmLog[Max(s)])
        /\ h[s] = CountLine(h[s \ {Max(s)}], nmLog[Max(s)])
    BY <1>4, <1>5, <1>6
  <2> QED BY <1>6, <2>1
<1>7. g[{}] = h[{}]
  BY <1>4, <1>5
<1>8. h[D] = CountsOf(D)
  OBVIOUS
<1> HIDE DEF g, h
<1>9. g[D] = h[D]
  BY <1>6, <1>7, FoldsAgree
<1> QED BY <1>1, <1>8, <1>9

\* plot-fig6a.py pairs as PairsOf says.
LEMMA SlackOfAdd ==
    ASSUME NEW s \in SUBSET Nat, NEW x \in Nat, \A i \in s : i < x
    PROVE  SlackOf(s \cup {x})
           = IF ~Initial(x) THEN SlackOf(s)
             ELSE IF What(x) = "slack" THEN SlackOf(s) \cup {Box(x)}
             ELSE IF What(x) \in Resizes THEN SlackOf(s) \ {Box(x)}
             ELSE SlackOf(s)
<1> DEFINE Open(r, t) == /\ What(t) = "slack" /\ Initial(t)
                         /\ \A u \in r : t < u /\ Box(u) = Box(t) => What(u) \notin Resizes
           r == s \cup {x}
<1>1. \A b : b \in SlackOf(s) <=> \E t \in s : Open(s, t) /\ Box(t) = b
  BY DEF SlackOf, Among
<1>2. \A b : b \in SlackOf(r) <=> \E t \in r : Open(r, t) /\ Box(t) = b
  BY DEF SlackOf, Among
<1>3. \A t \in s : Open(r, t) <=> Open(s, t) /\ (Box(x) = Box(t) => What(x) \notin Resizes)
  OBVIOUS
<1>4. Open(r, x) <=> What(x) = "slack" /\ Initial(x)
  OBVIOUS
<1>9. \A t \in s : Open(s, t) /\ Box(x) = Box(t) => Initial(x)
  BY BoxInitial
<1>5. "slack" \notin Resizes
  BY DEF Resizes
<1> HIDE DEF Open
<1>6. CASE Initial(x) /\ What(x) = "slack"
  <2>1. \A b : b \in SlackOf(r) <=> b \in SlackOf(s) \/ b = Box(x)
    BY <1>1, <1>2, <1>3, <1>4, <1>5, <1>6
  <2> QED BY <1>6, <2>1
<1>7. CASE Initial(x) /\ What(x) \in Resizes
  <2>1. What(x) # "slack"
    BY <1>5, <1>7
  <2>2. \A b : b \in SlackOf(r) <=> b \in SlackOf(s) /\ b # Box(x)
    BY <1>1, <1>2, <1>3, <1>4, <1>7, <2>1
  <2> QED BY <1>7, <2>1, <2>2
<1>8. CASE ~Initial(x) \/ (What(x) # "slack" /\ What(x) \notin Resizes)
  <2>1. \A b : b \in SlackOf(r) <=> b \in SlackOf(s)
    BY <1>1, <1>2, <1>3, <1>4, <1>8, <1>9
  <2> QED BY <1>8, <2>1
<1> QED BY <1>6, <1>7, <1>8

LEMMA ShrinksInAdd ==
    ASSUME NEW s \in SUBSET Nat, NEW x \in Nat, \A i \in s : i < x
    PROVE  ShrinksIn(s \cup {x})
           = IF What(x) = "cut" /\ Initial(x) /\ Owner(x) # 0 /\ Box(x) \in SlackOf(s)
             THEN ShrinksIn(s) \cup {x} ELSE ShrinksIn(s)
<1> DEFINE r == s \cup {x}
<1>1. \A a : \A i \in s : SlackBefore(r, a, i) <=> SlackBefore(s, a, i)
  BY DEF SlackBefore
<1>2. Initial(x) => (SlackBefore(r, Box(x), x) <=> Box(x) \in SlackOf(s))
  BY BoxInitial DEF SlackBefore, SlackOf, Among
<1>3. \A i \in s : i \in ShrinksIn(r) <=> i \in ShrinksIn(s)
  BY <1>1 DEF ShrinksIn, Among
<1>4. x \in ShrinksIn(r) <=> What(x) = "cut" /\ Initial(x) /\ Owner(x) # 0 /\ Box(x) \in SlackOf(s)
  BY <1>2 DEF ShrinksIn, Among
<1>5. ShrinksIn(r) \subseteq r /\ ShrinksIn(s) \subseteq s /\ x \notin s
  BY DEF ShrinksIn, Among
<1>6. CASE x \in ShrinksIn(r)
  <2>1. ShrinksIn(r) = ShrinksIn(s) \cup {x}
    BY <1>3, <1>5, <1>6
  <2> QED BY <1>4, <1>6, <2>1
<1>7. CASE x \notin ShrinksIn(r)
  <2>1. ShrinksIn(r) = ShrinksIn(s)
    BY <1>3, <1>5, <1>7
  <2> QED BY <1>4, <1>7, <2>1
<1> QED BY <1>6, <1>7

LEMMA PairsStep ==
    ASSUME NEW s \in SUBSET Nat, IsFiniteSet(s), NEW x \in Nat, \A i \in s : i < x
    PROVE  PairsOf(s \cup {x}) = Pair(PairsOf(s), nmLog[x])
<1> DEFINE line == nmLog[x]
           P == PairsOf(s)
           Q == PairsOf(s \cup {x})
<1>1. IsFiniteSet(ShrinksIn(s)) /\ x \notin ShrinksIn(s)
  <2>1. ShrinksIn(s) \subseteq s /\ x \notin s
    BY DEF ShrinksIn, Among
  <2> QED BY <2>1, FS_Subset
<1>2. Q.slack = IF line.box \notin FirstAttempt THEN P.slack
                ELSE IF line.what = "slack" THEN P.slack \cup {Container(line)}
                ELSE IF line.what \in Resizes THEN P.slack \ {Container(line)} ELSE P.slack
  BY SlackOfAdd DEF PairsOf, What, Initial, Box
<1>3. Q.shrinks = IF /\ line.what = "cut" /\ line.box \in FirstAttempt
                     /\ JobOf(line.app) # 0 /\ Container(line) \in P.slack
                  THEN Plus(P.shrinks, JobOf(line.app)) ELSE P.shrinks
  BY <1>1, ShrinksInAdd, TallyAdd DEF PairsOf, What, Owner, Initial, Box
<1>4. P = [slack |-> P.slack, shrinks |-> P.shrinks]
  BY DEF PairsOf
<1>5. Q = [slack |-> Q.slack, shrinks |-> Q.shrinks]
  BY DEF PairsOf
<1>6. "slack" \notin Resizes /\ "cut" \in Resizes
  BY DEF Resizes
<1> SUFFICES Q = Pair(P, line)
  OBVIOUS
<1> HIDE DEF P, Q, line
<1> DEFINE b == Container(line)
<1> HIDE DEF b
<1>7. CASE line.box \in FirstAttempt /\ line.what = "slack"
  BY <1>2, <1>3, <1>4, <1>5, <1>7 DEF Pair
<1>8. CASE line.box \in FirstAttempt /\ line.what \in Resizes /\ Container(line) \in P.slack
  BY <1>2, <1>3, <1>5, <1>6, <1>8 DEF Pair
<1>9. CASE line.box \in FirstAttempt /\ line.what \in Resizes /\ Container(line) \notin P.slack
  <2>1. Q.slack = P.slack /\ Q.shrinks = P.shrinks
    BY <1>2, <1>3, <1>6, <1>9
  <2>2. Pair(P, line) = P
    BY <1>6, <1>9 DEF Pair
  <2> QED BY <1>4, <1>5, <2>1, <2>2
<1>10. CASE line.box \notin FirstAttempt \/ (line.what # "slack" /\ line.what \notin Resizes)
  <2>1. Q.slack = P.slack /\ Q.shrinks = P.shrinks
    BY <1>2, <1>3, <1>6, <1>10
  <2>2. Pair(P, line) = P
    BY <1>10 DEF Pair
  <2> QED BY <1>4, <1>5, <2>1, <2>2
<1> QED BY <1>7, <1>8, <1>9, <1>10

LEMMA ShrinksAre ==
    ASSUME NEW m \in Nat, DOMAIN nmLog = 1 .. m
    PROVE  plotShrinks = Tally(ShrinksIn(1 .. m))
<1> DEFINE D == 1 .. m
           Goes(g) == g = [s \in SUBSET D |-> IF s = {} THEN NothingPaired
                                              ELSE Pair(g[s \ {Max(s)}], nmLog[Max(s)])]
           g == CHOOSE g : Goes(g)
           h == [s \in SUBSET D |-> PairsOf(s)]
<1>1. plotShrinks = g[D].shrinks
  BY DEF plotShrinks, FoldLeft, MapThenFoldSet
<1>2. PairsOf({}) = NothingPaired
  <2>1. SlackOf({}) = {} /\ ShrinksIn({}) = {}
    BY DEF SlackOf, ShrinksIn, Among
  <2> QED BY <2>1, TallyNone DEF PairsOf, NothingPaired
<1>3. ASSUME NEW s \in SUBSET D, s # {}
      PROVE  PairsOf(s) = Pair(PairsOf(s \ {Max(s)}), nmLog[Max(s)])
  <2>1. PICK x : /\ x = Max(s) /\ x \in Nat
                 /\ s \ {x} \in SUBSET Nat /\ IsFiniteSet(s \ {x})
                 /\ \A i \in s \ {x} : i < x
                 /\ s = (s \ {x}) \cup {x}
    BY <1>3, LastOf
  <2>2. PairsOf((s \ {x}) \cup {x}) = Pair(PairsOf(s \ {x}), nmLog[x])
    BY <2>1, PairsStep
  <2> QED BY <2>1, <2>2
<1>4. Goes(h)
  <2>1. \A s \in SUBSET D : s \ {Max(s)} \in SUBSET D
    OBVIOUS
  <2> QED BY <1>2, <1>3, <2>1
<1>5. Goes(g)
  BY <1>4
<1>6. ASSUME NEW s \in SUBSET D, s # {}, g[s \ {Max(s)}] = h[s \ {Max(s)}]
      PROVE  g[s] = h[s]
  <2>1. /\ g[s] = Pair(g[s \ {Max(s)}], nmLog[Max(s)])
        /\ h[s] = Pair(h[s \ {Max(s)}], nmLog[Max(s)])
    BY <1>4, <1>5, <1>6
  <2> QED BY <1>6, <2>1
<1>7. g[{}] = h[{}]
  BY <1>4, <1>5
<1>8. h[D].shrinks = Tally(ShrinksIn(D))
  BY DEF PairsOf
<1> HIDE DEF g, h
<1>9. g[D] = h[D]
  BY <1>6, <1>7, FoldsAgree
<1> QED BY <1>1, <1>8, <1>9

LEMMA KillsAre ==
    ASSUME NEW m \in Nat, DOMAIN nmLog = 1 .. m
    PROVE  plotKills = Tally(JobKills(1 .. m))
<1> DEFINE D == 1 .. m
           Goes(g) == g = [s \in SUBSET D |-> IF s = {} THEN Zero
                                              ELSE MarkKill(g[s \ {Max(s)}], nmLog[Max(s)])]
           g == CHOOSE g : Goes(g)
           h == [s \in SUBSET D |-> Tally(JobKills(s))]
<1>1. plotKills = g[D]
  BY DEF plotKills, FoldLeft, MapThenFoldSet
<1>2. Tally(JobKills({})) = Zero
  <2>1. JobKills({}) = {}
    BY DEF JobKills, Among
  <2> QED BY <2>1, TallyNone
<1>3. ASSUME NEW s \in SUBSET D, s # {}
      PROVE  Tally(JobKills(s)) = MarkKill(Tally(JobKills(s \ {Max(s)})), nmLog[Max(s)])
  <2>1. PICK x \in s : /\ x = Max(s) /\ IsFiniteSet(s \ {x}) /\ s = (s \ {x}) \cup {x}
    BY <1>3, LastOf
  <2>2. IsFiniteSet(JobKills(s \ {x})) /\ x \notin JobKills(s \ {x})
    <3>1. JobKills(s \ {x}) \subseteq s \ {x}
      BY DEF JobKills, Among
    <3> QED BY <2>1, <3>1, FS_Subset
  <2>3. JobKills(s) = IF What(x) = "kill" /\ Initial(x) /\ Owner(x) # 0
                      THEN JobKills(s \ {x}) \cup {x} ELSE JobKills(s \ {x})
    BY DEF JobKills, Among
  <2>4. Tally(JobKills(s)) = MarkKill(Tally(JobKills(s \ {x})), nmLog[x])
    BY <2>2, <2>3, TallyAdd DEF What, Owner, Initial, MarkKill
  <2> QED BY <2>1, <2>4
<1>4. Goes(h)
  <2>1. \A s \in SUBSET D : s \ {Max(s)} \in SUBSET D
    OBVIOUS
  <2> QED BY <1>2, <1>3, <2>1
<1>5. Goes(g)
  BY <1>4
<1>6. ASSUME NEW s \in SUBSET D, s # {}, g[s \ {Max(s)}] = h[s \ {Max(s)}]
      PROVE  g[s] = h[s]
  <2>1. /\ g[s] = MarkKill(g[s \ {Max(s)}], nmLog[Max(s)])
        /\ h[s] = MarkKill(h[s \ {Max(s)}], nmLog[Max(s)])
    BY <1>4, <1>5, <1>6
  <2> QED BY <1>6, <2>1
<1>7. g[{}] = h[{}]
  BY <1>4, <1>5
<1>8. h[D] = Tally(JobKills(D))
  OBVIOUS
<1> HIDE DEF g, h
<1>9. g[D] = h[D]
  BY <1>6, <1>7, FoldsAgree
<1> QED BY <1>1, <1>8, <1>9

-----------------------------------------------------------------------------
(* The counts at the end of a run.                                         *)

\* nm.log is the part of the log that LogOfRun says is of this run.
LEMMA NmLogLines ==
    ASSUME JobsInv, LogInv, pc = "done"
    PROVE  \E m \in Nat :
              /\ DOMAIN nmLog = 1 .. m /\ DOMAIN log = 1 .. nm0 + m
              /\ \A i \in 1 .. m : nmLog[i] = log[i + nm0] /\ IsOfRun(nmLog[i])
              /\ \A i \in DOMAIN log : i <= nm0 => IsOld(log[i])
<1> DEFINE m == Len(log) - nm0
<1>1. log \in Seq(Line) /\ nm0 \in Nat
  BY DEF JobsInv, Fig6aTypeOK
<1>2. m \in Nat /\ DOMAIN log = 1 .. nm0 + m
  BY <1>1 DEF LogInv, LogOfRun
<1>3. DOMAIN nmLog = 1 .. m /\ \A i \in 1 .. m : nmLog[i] = log[i + nm0]
  BY <1>1, <1>2 DEF nmLog
<1>4. \A i \in 1 .. m : i + nm0 \in DOMAIN log /\ ~(i + nm0 <= nm0)
  BY <1>1, <1>2
<1>5. \A i \in DOMAIN log : IF i <= nm0 THEN IsOld(log[i]) ELSE IsOfRun(log[i])
  BY DEF LogInv, LogOfRun
<1> HIDE DEF m
<1>6. \A i \in 1 .. m : nmLog[i] = log[i + nm0] /\ IsOfRun(nmLog[i])
  BY <1>3, <1>4, <1>5
<1> QED BY <1>2, <1>3, <1>5, <1>6

\* apps.txt tells whose the lines are.
LEMMA OwnerIs ==
    ASSUME JobsInv, LogInv, pc = "done", NEW i, IsOfRun(nmLog[i])
    PROVE  /\ \A j \in Jobs : Owner(i) = j <=> app[j] # 0 /\ nmLog[i].app = app[j]
           /\ Owner(i) = 0 <=> What(i) = "stop"
<1> DEFINE id == nmLog[i].app
<1>1. apps = app /\ 0 \notin Jobs /\ "stop" \notin OfContainer
  BY DEF LogInv, AppsDistinct, Jobs, OfContainer
<1>2. \A h, j \in Jobs : h # j /\ app[h] # 0 => app[h] # app[j]
  BY DEF LogInv, AppsDistinct
<1>3. Owner(i) = IF \E j \in Jobs : app[j] = id /\ id # 0
                 THEN CHOOSE j \in Jobs : app[j] = id ELSE 0
  BY <1>1 DEF Owner, JobOf
<1>4. ASSUME NEW j \in Jobs, app[j] # 0, id = app[j] PROVE Owner(i) = j
  <2>1. Owner(i) = CHOOSE h \in Jobs : app[h] = id
    BY <1>3, <1>4
  <2>2. Owner(i) \in Jobs /\ app[Owner(i)] = id
    BY <1>4, <2>1
  <2> QED BY <1>2, <1>4, <2>2
<1>5. ASSUME NEW j \in Jobs, Owner(i) = j PROVE app[j] # 0 /\ id = app[j]
  <2>1. \E h \in Jobs : app[h] = id /\ id # 0
    BY <1>1, <1>3, <1>5
  <2> QED BY <1>4, <1>5, <2>1
<1>6. Owner(i) = 0 <=> What(i) = "stop"
  <2>1. CASE What(i) = "stop"
    <3>1. id = 0
      BY <1>1, <2>1 DEF IsOfRun, What
    <3> QED BY <1>3, <2>1, <3>1
  <2>2. CASE What(i) # "stop"
    <3>1. PICK j \in Jobs : app[j] # 0 /\ id = app[j]
      BY <2>2 DEF IsOfRun, What
    <3> QED BY <1>1, <1>4, <2>2, <3>1
  <2> QED BY <2>1, <2>2
<1> QED BY <1>4, <1>5, <1>6

\* The indices of nm.log, moved by nm0, are those of the log.
LEMMA CountOfMoved ==
    ASSUME NEW m \in Nat, nm0 \in Nat, NEW A \in SUBSET (1 .. m), NEW j \in Named
    PROVE  Tally(A)[j] = Cardinality({i + nm0 : i \in {i \in A : Owner(i) = j}})
<1> DEFINE O == {i \in A : Owner(i) = j}
<1>1. IsFiniteSet(1 .. m)
  BY FS_Interval
<1>2. O \in SUBSET (1 .. m)
  OBVIOUS
<1>3. IsFiniteSet(O)
  BY <1>1, <1>2, FS_Subset
<1>4. \A i \in 1 .. m : i \in Nat
  OBVIOUS
<1>5. O \in SUBSET Nat
  BY <1>2, <1>4
<1>6. Tally(A)[j] = Cardinality(O)
  BY DEF Tally
<1> HIDE DEF O
<1>7. Cardinality({i + nm0 : i \in O}) = Cardinality(O)
  BY <1>3, <1>5, ShiftedSize, nm0 \in Nat
<1> QED BY <1>6, <1>7 DEF O

LEMMA MovedLines ==
    ASSUME JobsInv, LogInv, pc = "done", NEW m \in Nat,
           DOMAIN log = 1 .. nm0 + m,
           \A i \in 1 .. m : nmLog[i] = log[i + nm0] /\ IsOfRun(nmLog[i]),
           \A i \in DOMAIN log : i <= nm0 => IsOld(log[i]),
           NEW j \in Jobs
    PROVE  /\ \A whats : \A i \in 1 .. m :
                 i + nm0 \in Lines(j, whats) <=> What(i) \in whats /\ Owner(i) = j
           /\ \A whats : \A h \in Lines(j, whats) : h - nm0 \in 1 .. m /\ h \in Nat
           /\ \A i \in 1 .. m : BeforeStop(i + nm0) <=> \A t \in 1 .. m : What(t) = "stop" => i < t
           /\ \A i \in 1 .. m : InFirstAttempt(i + nm0) <=> Initial(i)
           /\ \A i \in 1 .. m : \A whats :
                 /\ \A t \in 1 .. m :
                       t + nm0 \in Alike(i + nm0, whats) <=> What(t) \in whats /\ Box(t) = Box(i)
                 /\ \A h \in Alike(i + nm0, whats) : h - nm0 \in 1 .. m /\ h \in Nat
<1>1. nm0 \in Nat
  BY DEF JobsInv, Fig6aTypeOK
<1>2. \A i \in 1 .. m : i + nm0 \in DOMAIN log /\ i + nm0 - nm0 = i
  BY <1>1
<1>3. \A h \in DOMAIN log : h <= nm0 \/ (h - nm0 \in 1 .. m /\ h = (h - nm0) + nm0)
  BY <1>1
<1>4. \A i \in 1 .. m : Owner(i) = j <=> app[j] # 0 /\ log[i + nm0].app = app[j]
  BY OwnerIs
<1>5. \A whats : \A i \in 1 .. m :
         i + nm0 \in Lines(j, whats) <=> What(i) \in whats /\ Owner(i) = j
  BY <1>2, <1>4 DEF Lines, NewLines, What, IsOfRun
<1>6. \A whats : \A h \in Lines(j, whats) : h - nm0 \in 1 .. m /\ h \in Nat
  <2> TAKE whats
  <2> TAKE h \in Lines(j, whats)
  <2>1. h \in DOMAIN log /\ ~log[h].old
    BY DEF Lines, NewLines
  <2>2. ~(h <= nm0)
    BY <2>1 DEF IsOld
  <2>3. h \in Nat
    BY <1>1, <2>1
  <2> QED BY <1>3, <2>1, <2>2, <2>3
<1>7. ASSUME NEW i \in 1 .. m
      PROVE  BeforeStop(i + nm0) <=> \A t \in 1 .. m : What(t) = "stop" => i < t
  <2>1. ASSUME BeforeStop(i + nm0), NEW t \in 1 .. m, What(t) = "stop" PROVE i < t
    <3>1. t + nm0 \in NewLines /\ log[t + nm0].what = "stop"
      BY <1>2, <2>1 DEF What, NewLines, IsOfRun
    <3>2. i + nm0 < t + nm0
      BY <2>1, <3>1 DEF BeforeStop
    <3> QED BY <1>1, <3>2
  <2>2. ASSUME \A t \in 1 .. m : What(t) = "stop" => i < t,
               NEW h \in NewLines, log[h].what = "stop"
        PROVE  i + nm0 < h
    <3>1. h \in DOMAIN log /\ ~(h <= nm0)
      BY <2>2 DEF NewLines, IsOld
    <3>2. h - nm0 \in 1 .. m /\ h = (h - nm0) + nm0
      BY <1>3, <3>1
    <3>3. What(h - nm0) = "stop"
      BY <2>2, <3>2 DEF What
    <3>4. i < h - nm0
      BY <2>2, <3>2, <3>3
    <3> QED BY <1>1, <3>2, <3>4
  <2> QED BY <2>1, <2>2 DEF BeforeStop
<1>8. ASSUME NEW i \in 1 .. m, NEW whats
      PROVE  /\ InFirstAttempt(i + nm0) <=> Initial(i)
             /\ \A t \in 1 .. m :
                    t + nm0 \in Alike(i + nm0, whats) <=> What(t) \in whats /\ Box(t) = Box(i)
             /\ \A h \in Alike(i + nm0, whats) : h - nm0 \in 1 .. m /\ h \in Nat
  <2>1. \A t \in 1 .. m : nmLog[t] = log[t + nm0] /\ t + nm0 \in NewLines
    BY <1>2 DEF NewLines, IsOfRun
  <2>2. ASSUME NEW h \in NewLines PROVE h - nm0 \in 1 .. m /\ h \in Nat
    <3>1. h \in DOMAIN log /\ ~(h <= nm0)
      BY <2>2 DEF NewLines, IsOld
    <3>2. h \in Nat
      BY <1>1, <3>1
    <3> QED BY <1>3, <3>1, <3>2
  <2> QED BY <2>1, <2>2 DEF InFirstAttempt, Initial, Alike, What, Box
<1> QED BY <1>5, <1>6, <1>7, <1>8

\* The shrinks of nm.log are those of the log.
LEMMA ShrinksMoved ==
    ASSUME JobsInv, LogInv, pc = "done", NEW m \in Nat,
           DOMAIN log = 1 .. nm0 + m,
           \A i \in 1 .. m : nmLog[i] = log[i + nm0] /\ IsOfRun(nmLog[i]),
           \A i \in DOMAIN log : i <= nm0 => IsOld(log[i]),
           NEW j \in Jobs
    PROVE  ShrinkLines(j) = {i + nm0 : i \in {i \in ShrinksIn(1 .. m) : Owner(i) = j}}
<1> DEFINE D == 1 .. m
<1>1. /\ \A whats : \A i \in D : i + nm0 \in Lines(j, whats) <=> What(i) \in whats /\ Owner(i) = j
      /\ \A whats : \A h \in Lines(j, whats) : h - nm0 \in D /\ h \in Nat
      /\ \A i \in D : InFirstAttempt(i + nm0) <=> Initial(i)
      /\ \A i \in D : \A whats :
            /\ \A t \in D :
                  t + nm0 \in Alike(i + nm0, whats) <=> What(t) \in whats /\ Box(t) = Box(i)
            /\ \A h \in Alike(i + nm0, whats) : h - nm0 \in D /\ h \in Nat
  BY MovedLines
<1>2. nm0 \in Nat /\ j # 0
  BY DEF JobsInv, Fig6aTypeOK, Jobs
<1>3. \A i \in D : i \in Nat
  OBVIOUS
<1> HIDE DEF D
\* Of the resizes of the container of i, none is between t and i, and i is one.
<1>5. ASSUME NEW i \in D, NEW t \in D, What(i) = "cut", What(t) = "slack", Box(t) = Box(i), t < i
      PROVE  Alike(i + nm0, Resizes) \cap (t + nm0) .. (i + nm0) = {i + nm0}
             <=> \A u \in D : t < u /\ u < i /\ Box(u) = Box(i) => What(u) \notin Resizes
  <2>1. i + nm0 \in Alike(i + nm0, Resizes) \cap (t + nm0) .. (i + nm0)
    <3>1. i + nm0 \in Alike(i + nm0, Resizes)
      BY <1>1, <1>5 DEF Resizes
    <3> QED BY <1>2, <1>3, <1>5, <3>1
  <2>2. ASSUME Alike(i + nm0, Resizes) \cap (t + nm0) .. (i + nm0) = {i + nm0},
               NEW u \in D, t < u, u < i, Box(u) = Box(i), What(u) \in Resizes
        PROVE  FALSE
    <3>1. u + nm0 \in Alike(i + nm0, Resizes)
      BY <1>1, <2>2
    <3>2. u + nm0 \in (t + nm0) .. (i + nm0) /\ u + nm0 # i + nm0
      BY <1>2, <1>3, <2>2
    <3> QED BY <2>2, <3>1, <3>2
  <2>3. ASSUME \A u \in D : t < u /\ u < i /\ Box(u) = Box(i) => What(u) \notin Resizes,
               NEW h \in Alike(i + nm0, Resizes), h \in (t + nm0) .. (i + nm0)
        PROVE  h = i + nm0
    <3>1. h - nm0 \in D /\ h \in Nat /\ h - nm0 + nm0 = h
      BY <1>1, <1>2
    <3>2. What(h - nm0) \in Resizes /\ Box(h - nm0) = Box(i)
      BY <1>1, <2>3, <3>1
    <3>3. h - nm0 # t
      BY <1>5, <3>2 DEF Resizes
    <3>4. ~(t < h - nm0 /\ h - nm0 < i)
      BY <2>3, <3>1, <3>2
    <3>5. t + nm0 <= h /\ h <= i + nm0
      BY <1>2, <1>3, <2>3
    <3> QED BY <1>2, <1>3, <3>1, <3>3, <3>4, <3>5
  <2> QED BY <2>1, <2>2, <2>3
<1>6. ASSUME NEW i \in D
      PROVE  i + nm0 \in ShrinkLines(j) <=> i \in ShrinksIn(D) /\ Owner(i) = j
  <2>1. ASSUME i + nm0 \in ShrinkLines(j) PROVE i \in ShrinksIn(D) /\ Owner(i) = j
    <3>1. What(i) = "cut" /\ Owner(i) = j /\ Initial(i)
      BY <1>1, <2>1 DEF ShrinkLines
    <3>2. PICK s \in Alike(i + nm0, {"slack"}) :
             s < i + nm0 /\ Alike(i + nm0, Resizes) \cap s .. (i + nm0) = {i + nm0}
      BY <2>1 DEF ShrinkLines
    <3>3. PICK t \in D : s = t + nm0
      BY <1>1, <1>2, <3>2
    <3>4. What(t) = "slack" /\ Box(t) = Box(i) /\ t < i
      <4>1. t + nm0 \in Alike(i + nm0, {"slack"}) /\ t + nm0 < i + nm0
        BY <3>2, <3>3
      <4>2. What(t) \in {"slack"} /\ Box(t) = Box(i)
        BY <1>1, <4>1
      <4>3. t < i
        BY <1>2, <1>3, <4>1
      <4> QED BY <4>2, <4>3
    <3>5. \A u \in D : t < u /\ u < i /\ Box(u) = Box(i) => What(u) \notin Resizes
      BY <1>5, <3>1, <3>2, <3>3, <3>4
    <3>6. SlackBefore(D, Box(i), i)
      BY <3>4, <3>5 DEF SlackBefore
    <3> QED BY <1>2, <3>1, <3>6 DEF ShrinksIn, Among
  <2>2. ASSUME i \in ShrinksIn(D), Owner(i) = j PROVE i + nm0 \in ShrinkLines(j)
    <3>1. What(i) = "cut" /\ Initial(i) /\ SlackBefore(D, Box(i), i)
      BY <2>2 DEF ShrinksIn, Among
    <3>2. PICK t \in D : /\ t < i /\ What(t) = "slack" /\ Box(t) = Box(i)
                         /\ \A u \in D : t < u /\ u < i /\ Box(u) = Box(i)
                                         => What(u) \notin Resizes
      BY <3>1 DEF SlackBefore
    <3>4. Alike(i + nm0, Resizes) \cap (t + nm0) .. (i + nm0) = {i + nm0}
      BY <1>5, <3>1, <3>2
    <3>5. /\ t + nm0 \in Alike(i + nm0, {"slack"})
          /\ i + nm0 \in Lines(j, {"cut"}) /\ InFirstAttempt(i + nm0)
      BY <1>1, <2>2, <3>1, <3>2
    <3>6. t + nm0 < i + nm0
      BY <1>2, <1>3, <3>2
    <3> QED BY <3>4, <3>5, <3>6 DEF ShrinkLines
  <2> QED BY <2>1, <2>2
<1>7. \A h \in ShrinkLines(j) : h - nm0 \in D /\ h = (h - nm0) + nm0
  BY <1>1, <1>2 DEF ShrinkLines
<1>8. ShrinksIn(D) \subseteq D
  BY DEF ShrinksIn, Among
<1>9. \A h : h \in ShrinkLines(j) <=> \E i \in D : h = i + nm0 /\ i \in ShrinksIn(D) /\ Owner(i) = j
  BY <1>6, <1>7
<1>10. ShrinkLines(j) = {i + nm0 : i \in {i \in ShrinksIn(D) : Owner(i) = j}}
  BY <1>8, <1>9
<1> QED BY <1>10 DEF D

\* Any selection by Lines and BeforeStop, too.
LEMMA LinesMoved ==
    ASSUME JobsInv, LogInv, pc = "done", NEW m \in Nat,
           DOMAIN log = 1 .. nm0 + m,
           \A i \in 1 .. m : nmLog[i] = log[i + nm0] /\ IsOfRun(nmLog[i]),
           \A i \in DOMAIN log : i <= nm0 => IsOld(log[i]),
           NEW j \in Jobs, NEW whats
    PROVE  /\ Lines(j, whats) = {i + nm0 : i \in {i \in Among(1 .. m, whats) : Owner(i) = j}}
           /\ Early(j, whats) = {i + nm0 : i \in {i \in AmongEarly(1 .. m, whats) : Owner(i) = j}}
           /\ {h \in Lines(j, {"kill"}) : InFirstAttempt(h)}
              = {i + nm0 : i \in {i \in JobKills(1 .. m) : Owner(i) = j}}
<1> DEFINE D == 1 .. m
<1>a. /\ \A i \in D : i + nm0 \in Lines(j, {"kill"}) <=> What(i) \in {"kill"} /\ Owner(i) = j
      /\ \A h \in Lines(j, {"kill"}) : h - nm0 \in D /\ h \in Nat
  BY MovedLines
<1>b. \A i \in D : InFirstAttempt(i + nm0) <=> Initial(i)
  BY MovedLines
<1>0. /\ \A i \in D : i + nm0 \in Lines(j, {"kill"}) <=> What(i) = "kill" /\ Owner(i) = j
      /\ \A h \in Lines(j, {"kill"}) : h - nm0 \in D /\ h \in Nat
      /\ \A i \in D : InFirstAttempt(i + nm0) <=> Initial(i)
  BY <1>a, <1>b
<1>1. /\ \A i \in D : i + nm0 \in Lines(j, whats) <=> What(i) \in whats /\ Owner(i) = j
      /\ \A h \in Lines(j, whats) : h - nm0 \in D /\ h \in Nat
      /\ \A i \in D : BeforeStop(i + nm0) <=> \A t \in D : What(t) = "stop" => i < t
  BY MovedLines
<1>2. nm0 \in Nat
  BY DEF JobsInv, Fig6aTypeOK
<1> HIDE DEF D
<1>3. \A h \in Lines(j, whats) : h = (h - nm0) + nm0
  BY <1>1, <1>2
<1>4. \A h : h \in Lines(j, whats) <=> \E i \in D : h = i + nm0 /\ What(i) \in whats /\ Owner(i) = j
  BY <1>1, <1>3
<1>5. Lines(j, whats) = {i + nm0 : i \in {i \in Among(D, whats) : Owner(i) = j}}
  BY <1>4 DEF Among
<1>6. \A h : h \in Early(j, whats) <=> \E i \in D : /\ h = i + nm0 /\ What(i) \in whats /\ Owner(i) = j
                                                    /\ \A t \in D : What(t) = "stop" => i < t
  BY <1>1, <1>4 DEF Early
<1>7. Early(j, whats) = {i + nm0 : i \in {i \in AmongEarly(D, whats) : Owner(i) = j}}
  BY <1>6 DEF Among, AmongEarly
<1>8. j # 0
  BY DEF Jobs
<1>9. \A h \in Lines(j, {"kill"}) : h = (h - nm0) + nm0
  BY <1>0, <1>2
<1> DEFINE K == {h \in Lines(j, {"kill"}) : InFirstAttempt(h)}
<1>10. \A h : h \in K <=> \E i \in D : /\ h = i + nm0 /\ What(i) = "kill" /\ Owner(i) = j
                                        /\ Initial(i)
  BY <1>0, <1>9
<1>11. \A i \in D : i \in JobKills(D) /\ Owner(i) = j <=> What(i) = "kill" /\ Owner(i) = j /\ Initial(i)
  BY <1>8 DEF JobKills, Among
<1>12. JobKills(D) \subseteq D
  BY DEF JobKills, Among
<1> HIDE DEF K
<1>13. K = {i + nm0 : i \in {i \in JobKills(D) : Owner(i) = j}}
  BY <1>10, <1>11, <1>12
<1> QED BY <1>5, <1>7, <1>13 DEF D, K

LEMMA CountsAtEnd ==
    ASSUME JobsInv, LogInv
    PROVE  MetricsCount /\ PlotFindsShrinks
<1> SUFFICES ASSUME pc = "done" PROVE MetricsCount /\ PlotFindsShrinks
  BY DEF MetricsCount, PlotFindsShrinks
<1>1. PICK m \in Nat :
         /\ DOMAIN nmLog = 1 .. m /\ DOMAIN log = 1 .. nm0 + m
         /\ \A i \in 1 .. m : nmLog[i] = log[i + nm0] /\ IsOfRun(nmLog[i])
         /\ \A i \in DOMAIN log : i <= nm0 => IsOld(log[i])
  BY NmLogLines
<1> DEFINE D == 1 .. m
<1>2. metrics = CountsOf(D) /\ plotShrinks = Tally(ShrinksIn(D)) /\ plotKills = Tally(JobKills(D))
  BY <1>1, MetricsAre, ShrinksAre, KillsAre
<1>3. nm0 \in Nat
  BY DEF JobsInv, Fig6aTypeOK
<1>4. /\ \A whats : Among(D, whats) \in SUBSET D /\ AmongEarly(D, whats) \in SUBSET D
      /\ ShrinksIn(D) \in SUBSET D /\ JobKills(D) \in SUBSET D
  BY DEF Among, AmongEarly, ShrinksIn, JobKills
<1>5. ASSUME NEW j \in Jobs, NEW whats
      PROVE  /\ Tally(Among(D, whats))[j] = Cardinality(Lines(j, whats))
             /\ Tally(AmongEarly(D, whats))[j] = Cardinality(Early(j, whats))
  <2> DEFINE A == Among(D, whats)
             E == AmongEarly(D, whats)
             LA == Lines(j, whats)
             LE == Early(j, whats)
  <2>1. /\ LA = {i + nm0 : i \in {i \in A : Owner(i) = j}}
        /\ LE = {i + nm0 : i \in {i \in E : Owner(i) = j}}
    BY <1>1, LinesMoved
  <2>2. j \in Named /\ A \in SUBSET (1 .. m) /\ E \in SUBSET (1 .. m)
    BY <1>4 DEF Named
  <2> HIDE DEF A, E, LA, LE
  <2>3. Tally(A)[j] = Cardinality({i + nm0 : i \in {i \in A : Owner(i) = j}})
    BY <1>3, <2>2, CountOfMoved
  <2>4. Tally(E)[j] = Cardinality({i + nm0 : i \in {i \in E : Owner(i) = j}})
    BY <1>3, <2>2, CountOfMoved
  <2> QED BY <2>1, <2>3, <2>4 DEF A, E, LA, LE
<1>6. ASSUME NEW j \in Jobs
      PROVE  Tally(ShrinksIn(D))[j] = Cardinality(ShrinkLines(j))
  <2>1. ShrinkLines(j) = {i + nm0 : i \in {i \in ShrinksIn(D) : Owner(i) = j}}
    BY <1>1, ShrinksMoved
  <2>2. j \in Named
    BY DEF Named
  <2> DEFINE A == ShrinksIn(D)
  <2>3. A \in SUBSET (1 .. m) /\ ShrinkLines(j) = {i + nm0 : i \in {i \in A : Owner(i) = j}}
    BY <1>4, <2>1
  <2> HIDE DEF A
  <2>4. Tally(A)[j] = Cardinality({i + nm0 : i \in {i \in A : Owner(i) = j}})
    BY <1>3, <2>2, <2>3, CountOfMoved
  <2> QED BY <2>3, <2>4 DEF A
<1>7. ASSUME NEW j \in Jobs
      PROVE  Tally(JobKills(D))[j] = Cardinality({h \in Lines(j, {"kill"}) : InFirstAttempt(h)})
  <2> DEFINE A == JobKills(D)
             K == {h \in Lines(j, {"kill"}) : InFirstAttempt(h)}
  <2>1. K = {i + nm0 : i \in {i \in A : Owner(i) = j}}
    BY <1>1, LinesMoved
  <2>2. j \in Named /\ A \in SUBSET (1 .. m)
    BY <1>4 DEF Named
  <2> HIDE DEF A, K
  <2>3. Tally(A)[j] = Cardinality({i + nm0 : i \in {i \in A : Owner(i) = j}})
    BY <1>3, <2>2, CountOfMoved
  <2> QED BY <2>1, <2>3 DEF A, K
\* Every kill is one of a job.
<1>8. Tally(Among(D, {"kill"}))[0] = 0
  <2>1. \A i \in D : Owner(i) = 0 => What(i) # "kill"
    BY <1>1, OwnerIs
  <2>2. {i \in Among(D, {"kill"}) : Owner(i) = 0} = {}
    BY <2>1 DEF Among
  <2>3. 0 \in Named
    BY DEF Named
  <2> QED BY <2>2, <2>3, FS_EmptySet DEF Tally
<1>9. /\ metrics.kill = Tally(Among(D, {"kill"}))
      /\ metrics.ocm = Tally(AmongEarly(D, {"ocm"}))
      /\ metrics.puff = Tally(AmongEarly(D, {"grow"}))
      /\ metrics.shrink = Tally(AmongEarly(D, {"same", "cut"}))
  BY <1>2 DEF CountsOf
<1> HIDE DEF D
<1>10. MetricsCount
  BY <1>5, <1>8, <1>9 DEF MetricsCount
<1>11. PlotFindsShrinks
  BY <1>2, <1>6, <1>7 DEF PlotFindsShrinks
<1> QED BY <1>10, <1>11

-----------------------------------------------------------------------------
LEMMA HadoopInvariant == Spec => [](FetchInv /\ JobsInv /\ LogInv)
<1>1. Init => FetchInv /\ JobsInv /\ LogInv
  BY FetchInitInv, JobsInitInv, LogInitInv DEF Init
<1>2. FetchInv /\ JobsInv /\ LogInv /\ [Next]_vars => (FetchInv /\ JobsInv /\ LogInv)'
  <2> SUFFICES ASSUME FetchInv, JobsInv, LogInv, [Next]_vars PROVE FetchInv' /\ JobsInv' /\ LogInv'
    OBVIOUS
  <2>1. FetchNext \/ UNCHANGED fetch
    BY DEF Next, vars
  <2>2. Fig6aNext \/ UNCHANGED fig6a
    BY DEF Next, vars
  <2> QED BY <2>1, <2>2, FetchKeeps, JobsKeep, LogKeeps
<1> QED BY <1>1, <1>2, PTL DEF Spec

\* Every variable keeps its type.
THEOREM HadoopTypeCorrect == Spec => []TypeOK
<1>1. FetchInv /\ JobsInv => TypeOK
  BY DEF FetchInv, JobsInv, TypeOK
<1> QED BY <1>1, HadoopInvariant, PTL

\* A blob that is skipped because it is there is the blob of its digest.
THEOREM BlobsAlwaysVerified == Spec => []BlobsVerified
<1>1. FetchInv => BlobsVerified
  BY DEF FetchInv
<1> QED BY <1>1, HadoopInvariant, PTL

\* Whatever manifest is fetched, and however often that breaks off, the image
\* that docker loads has for every id the first blob listed for it.
THEOREM ImageAlwaysFaithful == Spec => []ImageFaithful
<1>1. FetchInv => ImageFaithful
  BY DEF FetchInv
<1> QED BY <1>1, HadoopInvariant, PTL

\* With interval 0 any number of jobs get their ids in the order of submission.
THEOREM AppIdsAlwaysInOrder == Spec => []AppIdsInOrder
<1>1. JobsInv => AppIdsInOrder
  BY DEF JobsInv
<1> QED BY <1>1, HadoopInvariant, PTL

\* Whatever earlier runs left in the log and however long this run's part gets,
\* fig6a-metrics.py counts for every job the kills of this run and its OCMs,
\* puffs and shrinks before its first stop (fig6a-metrics.py:2-3).
THEOREM MetricsAlwaysCount == Spec => []MetricsCount
<1>1. JobsInv /\ LogInv => MetricsCount
  BY CountsAtEnd
<1> QED BY <1>1, HadoopInvariant, PTL

\* Whatever earlier runs left in the log and however long this run's part gets,
\* the shrinks from which plot-fig6a.py picks the one to label are, each once,
\* the cuts of a first attempt's container that was found slacking since its
\* last update, and it marks the kills of first attempts (plot-fig6a.py:44-66).
THEOREM PlotAlwaysFindsShrinks == Spec => []PlotFindsShrinks
<1>1. JobsInv /\ LogInv => PlotFindsShrinks
  BY CountsAtEnd
<1> QED BY <1>1, HadoopInvariant, PTL
=============================================================================
