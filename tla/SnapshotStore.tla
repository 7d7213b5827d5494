---------------------------- MODULE SnapshotStore ----------------------------
(***************************************************************************)
(* Building and downloading snapshots (crates/treedx_store/src/snapshots/  *)
(* over tmp/snapshots, snapshots/ and two logs).                           *)
(*                                                                         *)
(* A snapshot's id is the hash of its repository, ref, commit, kind and    *)
(* paths, all that reusable_snapshot compares; the files handed in and the *)
(* graph version are not part of it.  The artifact holds the time of its   *)
(* build, so every build has bytes, and with them a checksum, of its own:  *)
(* a build is its number.                                                  *)
(***************************************************************************)
EXTENDS Integers, FiniteSets

CONSTANTS
    Snapshots,      \* snapshot ids
    BuildCalls,     \* calls that build a snapshot
    DownloadCalls,  \* calls that download one
    SnapshotOf,     \* the snapshot a call is about
    MaxBuilds       \* bound on the artifacts written

ASSUME SnapshotConstants ==
    /\ SnapshotOf \in [BuildCalls \cup DownloadCalls -> Snapshots]
    /\ BuildCalls \cap DownloadCalls = {}
    /\ MaxBuilds \in Nat

VARIABLES
    tmpDir,     \* tmp/snapshots/<id>: the artifact in it, Empty, Torn or Missing
    finalDir,   \* snapshots/<id>: the artifact in it, or Missing
    manifests,  \* the build whose manifest snapshots.tdb holds, or Missing
    artifacts,  \* the build whose artifact record artifacts.tdb holds, or Missing
    builds,     \* artifacts written so far
    snap,       \* where each call is, and the build it works with
    promised    \* history: the build last answered for each snapshot, or Missing

snapshotVars == <<tmpDir, finalDir, manifests, artifacts, builds, snap, promised>>

-----------------------------------------------------------------------------
Missing == 0
Empty == -1
Torn == -2

IdleSnap == [pc |-> "idle", build |-> Missing, bytes |-> Missing]

SnapGoto(c, pc) == snap' = [snap EXCEPT ![c].pc = pc]

\* One build of a snapshot at a time: nothing in the code sees to it, and builds of one
\* id share their temporary directory.
OneBuild(c) ==
    \A d \in BuildCalls : snap[d].pc \notin {"idle", "done"} => SnapshotOf[d] # SnapshotOf[c]

SnapshotInit ==
    /\ tmpDir = [s \in Snapshots |-> Missing]
    /\ finalDir = [s \in Snapshots |-> Missing]
    /\ manifests = [s \in Snapshots |-> Missing]
    /\ artifacts = [s \in Snapshots |-> Missing]
    /\ builds = 0
    /\ snap = [c \in BuildCalls \cup DownloadCalls |-> IdleSnap]
    /\ promised = [s \in Snapshots |-> Missing]

-----------------------------------------------------------------------------
(***************************************************************************)
(* build_snapshot_artifact.                                                *)
(***************************************************************************)

\* reusable_snapshot: there is a manifest, and an artifact in its place.
Reusable(s) == manifests[s] # Missing /\ finalDir[s] # Missing

BeginBuild(c) ==
    LET s == SnapshotOf[c] IN
    /\ c \in BuildCalls /\ snap[c].pc = "idle" /\ OneBuild(c)
    /\ IF Reusable(s)
       THEN /\ snap' = [snap EXCEPT ![c].pc = "done"]
            /\ promised' = [promised EXCEPT ![s] = manifests[s]]
       ELSE /\ SnapGoto(c, "clear")
            /\ UNCHANGED promised
    /\ UNCHANGED <<tmpDir, finalDir, manifests, artifacts, builds>>

\* remove_dir_all and create_dir_all of the temporary directory.
ClearTmp(c) ==
    /\ snap[c].pc = "clear"
    /\ tmpDir' = [tmpDir EXCEPT ![SnapshotOf[c]] = Empty]
    /\ SnapGoto(c, "create")
    /\ UNCHANGED <<finalDir, manifests, artifacts, builds, promised>>

\* write_artifact, from its File::create ...
CreateArtifact(c) ==
    /\ snap[c].pc = "create" /\ builds < MaxBuilds
    /\ builds' = builds + 1
    /\ tmpDir' = [tmpDir EXCEPT ![SnapshotOf[c]] = Torn]
    /\ snap' = [snap EXCEPT ![c].pc = "write", ![c].build = builds + 1]
    /\ UNCHANGED <<finalDir, manifests, artifacts, promised>>

\* ... to its end.  The manifest takes its checksum from the bytes read back.
WriteArtifact(c) ==
    /\ snap[c].pc = "write"
    /\ tmpDir' = [tmpDir EXCEPT ![SnapshotOf[c]] = snap[c].build]
    /\ SnapGoto(c, "remove")
    /\ UNCHANGED <<finalDir, manifests, artifacts, builds, promised>>

RemoveFinal(c) ==
    /\ snap[c].pc = "remove"
    /\ finalDir' = [finalDir EXCEPT ![SnapshotOf[c]] = Missing]
    /\ SnapGoto(c, "rename")
    /\ UNCHANGED <<tmpDir, manifests, artifacts, builds, promised>>

\* Mutant: the manifest is recorded before the artifact is in its place.
RenameTmpLate(c) ==
    LET s == SnapshotOf[c] IN
    /\ snap[c].pc = "rename"
    /\ IF manifests[s] # snap[c].build
       THEN /\ manifests' = [manifests EXCEPT ![s] = snap[c].build]
            /\ UNCHANGED <<tmpDir, finalDir, snap>>
       ELSE /\ finalDir' = [finalDir EXCEPT ![s] = tmpDir[s]]
            /\ tmpDir' = [tmpDir EXCEPT ![s] = Missing]
            /\ SnapGoto(c, "manifest")
            /\ UNCHANGED manifests
    /\ UNCHANGED <<artifacts, builds, promised>>

RenameTmp(c) ==
    LET s == SnapshotOf[c] IN
    /\ snap[c].pc = "rename"
    /\ finalDir' = [finalDir EXCEPT ![s] = tmpDir[s]]
    /\ tmpDir' = [tmpDir EXCEPT ![s] = Missing]
    /\ SnapGoto(c, "manifest")
    /\ UNCHANGED <<manifests, artifacts, builds, promised>>

PutManifest(c) ==
    /\ snap[c].pc = "manifest"
    /\ manifests' = [manifests EXCEPT ![SnapshotOf[c]] = snap[c].build]
    /\ SnapGoto(c, "artifact")
    /\ UNCHANGED <<tmpDir, finalDir, artifacts, builds, promised>>

\* The last record, and the answer.
PutArtifact(c) ==
    LET s == SnapshotOf[c] IN
    /\ snap[c].pc = "artifact"
    /\ artifacts' = [artifacts EXCEPT ![s] = snap[c].build]
    /\ promised' = [promised EXCEPT ![s] = snap[c].build]
    /\ SnapGoto(c, "done")
    /\ UNCHANGED <<tmpDir, finalDir, manifests, builds>>

-----------------------------------------------------------------------------
(***************************************************************************)
(* Snapshots.download: the manifest, then the bytes.                       *)
(***************************************************************************)
ReadManifest(c) ==
    /\ c \in DownloadCalls /\ snap[c].pc = "idle"
    /\ snap' = [snap EXCEPT ![c].build = manifests[SnapshotOf[c]],
                            ![c].pc = IF manifests[SnapshotOf[c]] = Missing THEN "done"
                                      ELSE "bytes"]
    /\ UNCHANGED <<tmpDir, finalDir, manifests, artifacts, builds, promised>>

ReadBytes(c) ==
    /\ snap[c].pc = "bytes"
    /\ snap' = [snap EXCEPT ![c].bytes = finalDir[SnapshotOf[c]], ![c].pc = "done"]
    /\ UNCHANGED <<tmpDir, finalDir, manifests, artifacts, builds, promised>>

SnapshotStep(c) ==
    \/ BeginBuild(c) \/ ClearTmp(c) \/ CreateArtifact(c) \/ WriteArtifact(c)
    \/ RemoveFinal(c) \/ RenameTmp(c) \/ PutManifest(c) \/ PutArtifact(c)
    \/ ReadManifest(c) \/ ReadBytes(c)

SnapshotRestart ==
    /\ snap' = [c \in BuildCalls \cup DownloadCalls |-> IdleSnap]
    /\ UNCHANGED <<tmpDir, finalDir, manifests, artifacts, builds, promised>>

-----------------------------------------------------------------------------
(***************************************************************************)
(* Properties.                                                             *)
(***************************************************************************)

\* build_snapshot_artifact and Snapshots.download: what was answered once, manifest and
\* artifact, stays as it is: later builds of the snapshot reuse it and never take it away,
\* not even for a moment.  And the bytes served with a manifest, also one that nobody was
\* promised yet, are those its checksum was taken of, although builds write the two apart
\* and a restart may come in between.
SnapshotsStay ==
    /\ \A s \in Snapshots :
         promised[s] # Missing => finalDir[s] = promised[s] /\ manifests[s] = promised[s]
    /\ \A c \in DownloadCalls :
         snap[c].pc = "done" => snap[c].bytes = snap[c].build
=============================================================================
