----------------------------- MODULE FetchImage -----------------------------
(***************************************************************************)
(* original-hadoop2.7/setup/fetch-sequenceiq-image.py: the layers of an    *)
(* image are downloaded, unpacked into a stage directory and packed into a *)
(* tar for docker load.  The network may break off a download and the      *)
(* script may be killed at any step; the operator runs it again, and what  *)
(* an earlier run left on the disk is still there.                         *)
(***************************************************************************)
EXTENDS Naturals, Sequences

CONSTANTS
    Layers,     \* the manifest: a sequence of records with an id and a blob (its digest)
    None,       \* no file
    Torn        \* a file that was not written to its end, or not what was asked for

ASSUME LayersAssumption ==
    /\ Layers \in Seq([id : {Layers[i].id : i \in DOMAIN Layers},
                       blob : {Layers[i].blob : i \in DOMAIN Layers}])
    /\ None # Torn
    /\ \A i \in DOMAIN Layers : Layers[i].blob \notin {None, Torn}

Digests == {Layers[i].blob : i \in DOMAIN Layers}
Ids     == {Layers[i].id : i \in DOMAIN Layers}

\* A file whose sha256 is d holds d.
Contents == Digests \cup {None, Torn}

VARIABLES
    at,         \* where the script is
    todo,       \* the digests that the download loop has not reached
    digest,     \* the one it is downloading
    n,          \* the layer that is staged next
    part,       \* blobs/<digest>.part
    blob,       \* blobs/<digest>
    stage,      \* stage/<id>/layer.tar; None if there is no stage/<id>
    tar,        \* the result: the staged layers, None or Torn
    loaded,     \* the image that docker has
    reliable    \* history: from now on no download and no run breaks off

locals == <<todo, digest, n>>
disk   == <<part, blob, stage, tar>>
fetch  == <<at, locals, disk, loaded, reliable>>

Ended == {"idle", "failed", "done"}

Empty == [id \in Ids |-> None]

-----------------------------------------------------------------------------
(* 1) Download, verify, rename.                                            *)

\* The manifest is read; its digests are gone through as a set.
Manifest ==
    /\ at' = "blobs"
    /\ todo' = Digests /\ digest' = None /\ n' = 1
    /\ UNCHANGED <<disk, loaded, reliable>>

SkipBlob(d) ==
    /\ at = "blobs" /\ d \in todo
    /\ blob[d] # None
    /\ todo' = todo \ {d}
    /\ UNCHANGED <<at, digest, n, disk, loaded, reliable>>

\* open(path + ".part", "wb") empties what an earlier run left.
OpenPart(d) ==
    /\ at = "blobs" /\ d \in todo
    /\ blob[d] = None
    /\ todo' = todo \ {d}
    /\ digest' = d
    /\ part' = [part EXCEPT ![d] = Torn]
    /\ at' = "receive"
    /\ UNCHANGED <<n, blob, stage, tar, loaded, reliable>>

\* r.read() ends at the end of the blob, and just as quietly where the
\* connection does.
Receive ==
    /\ at = "receive"
    /\ \E c \in {digest, Torn} :
          /\ reliable => c = digest
          /\ part' = [part EXCEPT ![digest] = c]
    /\ at' = "verify"
    /\ UNCHANGED <<locals, blob, stage, tar, loaded, reliable>>

\* Mutant: the sha256 is not compared.
RenameUnchecked ==
    /\ at = "verify"
    /\ blob' = [blob EXCEPT ![digest] = part[digest]]
    /\ part' = [part EXCEPT ![digest] = None]
    /\ at' = "blobs"
    /\ UNCHANGED <<locals, stage, tar, loaded, reliable>>

Rename ==
    /\ at = "verify"
    /\ part[digest] = digest
    /\ blob' = [blob EXCEPT ![digest] = part[digest]]
    /\ part' = [part EXCEPT ![digest] = None]
    /\ at' = "blobs"
    /\ UNCHANGED <<locals, stage, tar, loaded, reliable>>

\* The assertion fails: the .part stays.
Mismatch ==
    /\ at = "verify"
    /\ part[digest] # digest
    /\ at' = "failed"
    /\ UNCHANGED <<locals, disk, loaded, reliable>>

-----------------------------------------------------------------------------
(* 2) The stage directory and the tar.                                     *)

\* Mutant: a stage that an earlier run left is used.
KeepStage ==
    /\ at = "blobs" /\ todo = {}
    /\ at' = "stage"
    /\ UNCHANGED <<locals, disk, loaded, reliable>>

\* Mutant: makedirs() without the rmtree() before it.
StageOnce ==
    /\ at = "blobs" /\ todo = {}
    /\ at' = IF stage = Empty THEN "stage" ELSE "failed"
    /\ UNCHANGED <<locals, disk, loaded, reliable>>

\* rmtree(stage), makedirs(stage).
ClearStage ==
    /\ at = "blobs" /\ todo = {}
    /\ stage' = Empty
    /\ at' = "stage"
    /\ UNCHANGED <<locals, part, blob, tar, loaded, reliable>>

\* An id that was seen before: the top layer is listed twice.
SkipLayer ==
    /\ at = "stage" /\ n <= Len(Layers)
    /\ stage[Layers[n].id] # None
    /\ n' = n + 1
    /\ UNCHANGED <<at, todo, digest, disk, loaded, reliable>>

\* The directory, VERSION, json and the start of layer.tar.
OpenLayer ==
    /\ at = "stage" /\ n <= Len(Layers)
    /\ stage[Layers[n].id] = None
    /\ stage' = [stage EXCEPT ![Layers[n].id] = Torn]
    /\ at' = "copy"
    /\ UNCHANGED <<locals, part, blob, tar, loaded, reliable>>

\* gzip.open(), copyfileobj().
CopyLayer ==
    /\ at = "copy"
    /\ stage' = [stage EXCEPT ![Layers[n].id] = blob[Layers[n].blob]]
    /\ n' = n + 1
    /\ at' = "stage"
    /\ UNCHANGED <<todo, digest, part, blob, tar, loaded, reliable>>

\* repositories is written, and the tar opened in place of the one before.
OpenTar ==
    /\ at = "stage" /\ n > Len(Layers)
    /\ tar' = Torn
    /\ at' = "pack"
    /\ UNCHANGED <<locals, part, blob, stage, loaded, reliable>>

CloseTar ==
    /\ at = "pack"
    /\ tar' = stage
    /\ at' = "clean"
    /\ UNCHANGED <<locals, part, blob, stage, loaded, reliable>>

\* rmtree(stage): the script has ended.
Clean ==
    /\ at = "clean"
    /\ stage' = Empty
    /\ at' = "done"
    /\ UNCHANGED <<locals, part, blob, tar, loaded, reliable>>

FetchStep ==
    \/ \E d \in Digests : SkipBlob(d) \/ OpenPart(d)
    \/ Receive \/ Rename \/ Mismatch
    \/ ClearStage \/ SkipLayer \/ OpenLayer \/ CopyLayer
    \/ OpenTar \/ CloseTar \/ Clean

-----------------------------------------------------------------------------
(* What happens to the script.                                             *)

\* An exception, Ctrl-C or a kill.
BreakOff ==
    /\ ~reliable /\ at \notin Ended
    /\ at' = "failed"
    /\ UNCHANGED <<locals, disk, loaded, reliable>>

Recover ==
    /\ ~reliable /\ reliable' = TRUE
    /\ UNCHANGED <<at, locals, disk, loaded>>

\* The operator runs it for the first time, or again after a failure.
Run == at \in {"idle", "failed"} /\ Manifest

\* The operator runs it although it has succeeded before.
RunAgain == at = "done" /\ Manifest

\* docker load refuses a tar that was cut off.
Load ==
    /\ at \in Ended /\ tar \notin {None, Torn}
    /\ loaded' = tar
    /\ UNCHANGED <<at, locals, disk, reliable>>

FetchInit ==
    /\ at = "idle"
    /\ todo = {} /\ digest = None /\ n = 1
    /\ part = [d \in Digests |-> None] /\ blob = [d \in Digests |-> None]
    /\ stage = Empty /\ tar = None /\ loaded = None
    /\ reliable = FALSE

FetchNext == FetchStep \/ BreakOff \/ Recover \/ Run \/ RunAgain \/ Load

-----------------------------------------------------------------------------
(* Properties.                                                             *)

FetchTypeOK ==
    /\ at \in Ended \cup {"blobs", "receive", "verify", "stage", "copy", "pack", "clean"}
    /\ todo \subseteq Digests
    /\ digest \in Digests \cup {None}
    /\ n \in 1 .. Len(Layers) + 1
    /\ part \in [Digests -> Contents] /\ blob \in [Digests -> Contents]
    /\ stage \in [Ids -> Contents]
    /\ tar \in [Ids -> Contents] \cup {None, Torn}
    /\ loaded \in [Ids -> Contents] \cup {None}
    /\ reliable \in BOOLEAN

\* A blob that a later run will skip is the one that the digest names,
\* whatever broke off in the run that fetched it
\* (fetch-sequenceiq-image.py:43).
BlobsVerified == \A d \in Digests : blob[d] \in {None, d}

First(i) == \A j \in 1 .. i - 1 : Layers[j].id # Layers[i].id

\* Every layer holds the blob that the manifest lists first for its id.
Faithful(image) ==
    \A i \in DOMAIN Layers : First(i) => image[Layers[i].id] = Layers[i].blob

\* What docker loads is the original image, layer by layer, even if earlier
\* runs ended half-way through staging it (fetch-sequenceiq-image.py:5).
ImageFaithful == loaded # None => Faithful(loaded)

\* Once nothing breaks off any more the script succeeds, with whatever files
\* the failed runs left.
RetriesSucceed == reliable ~> at = "done"
=============================================================================
