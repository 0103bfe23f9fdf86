-------------------------- MODULE StructuralCache --------------------------
(***************************************************************************)
(* The cache files of demand-driven analysis (analysis/structural_cache.rs)*)
(* and their users: the memo of a path's SHA-256, catalog partitions       *)
(* (build_catalog_cached) and deep-index partitions with their data file   *)
(* (compact_index::load_or_build_cached).  Sketch partitions go the way of *)
(* deep ones, without the data file.  Calls run on threads of their own,   *)
(* so an action is one file operation.                                     *)
(*                                                                         *)
(* A content stands for its SHA-256 and for what is computed from it.      *)
(* Every change of the image gives it a new stamp (size and time).         *)
(***************************************************************************)
EXTENDS Integers, FiniteSets

CONSTANTS Builders,          \* concurrent calls, all for one path
          ImageContents, NoImage,
          MaxImageChanges,   \* bound
          MaxBuilds,         \* bound: calls ever made
          MaxFailures        \* bound: I/O errors and crashes

ASSUME StructuralAssumption ==
  /\ NoImage \notin ImageContents
  /\ MaxImageChanges \in Nat
  /\ MaxBuilds \in Nat
  /\ MaxFailures \in Nat

Partitions == {"catalog", "deep"} \X ImageContents
Memo       == <<"memo", NoImage>>
CacheFiles     == Partitions \cup {Memo}

VARIABLES
  image,      \* the file at the path: content and stamp
  cached,     \* per cache file: whether it exists and verifies, what it says
  data,       \* per deep partition: content its data file was written from
  builder,    \* per call: where it stands
  builds,     \* number of calls made
  failures,   \* I/O errors, lost races and crashes so far
  leftover,   \* number of temporary and quarantined files nobody will remove
  mixed       \* ghost: contents that were replaced while a call held their hash

structuralVars == <<image, cached, data, builder, builds, failures, leftover, mixed>>

----------------------------------------------------------------------------
Missing == [exists |-> FALSE, intact |-> FALSE, stamp |-> 0, of |-> NoImage]
OnDisk(stamp, of) == [exists |-> TRUE, intact |-> TRUE, stamp |-> stamp, of |-> of]
Corrupt == [exists |-> TRUE, intact |-> FALSE, stamp |-> 0, of |-> NoImage]

(* kind and slot: what is being built, and the file that is being stored;  *)
(* sha256 is the hash the call goes by, read its stat, built its result,   *)
(* aside the file it has moved out of the way.                             *)
NoBuild == [pc |-> "idle", kind |-> "catalog", slot |-> Memo, sha256 |-> NoImage,
            read |-> 0, built |-> NoImage, aside |-> Missing]
StorePcs == {"write", "quarantine", "install", "cleanup"}
BuildPcs == {"idle", "hash", "look", "build", "data_exists", "data_remove", "data_rename",
             "prune"} \cup StorePcs

StructuralInit ==
  /\ \E x \in ImageContents : image = [content |-> x, stamp |-> 0]
  /\ cached = [s \in CacheFiles |-> Missing]
  /\ data = [x \in ImageContents |-> NoImage]
  /\ builder = [b \in Builders |-> NoBuild]
  /\ builds = 0
  /\ failures = 0
  /\ leftover = 0
  /\ mixed = {}

Reached(b, pc)   == builder[b].pc = pc
Proceed(b, pc)   == builder' = [builder EXCEPT ![b].pc = pc]
PartitionOf(b) == <<builder[b].kind, builder[b].sha256>>
Held == {builder[b].sha256 : b \in Builders} \ {NoImage}

(* The call ends with an error; n files are left behind. *)
BuildFails(b, n) ==
  /\ failures < MaxFailures
  /\ failures' = failures + 1
  /\ leftover' = leftover + n
  /\ builder' = [builder EXCEPT ![b] = NoBuild]

----------------------------------------------------------------------------
(* hash_path_memoized: the stat comes first, then the memo is loaded. *)

(* Mutant of StatPath: a memo of an older file will do. *)
StatUnstamped(b) ==
  /\ Reached(b, "idle")
  /\ builds < MaxBuilds
  /\ builds' = builds + 1
  /\ builder' = [builder EXCEPT ![b] =
       IF cached[Memo].intact
       THEN [NoBuild EXCEPT !.pc = "look", !.sha256 = cached[Memo].of]
       ELSE [NoBuild EXCEPT !.pc = "hash", !.read = image.stamp]]
  /\ UNCHANGED <<image, cached, data, failures, leftover, mixed>>

StatPath(b) ==
  /\ Reached(b, "idle")
  /\ builds < MaxBuilds
  /\ builds' = builds + 1
  /\ builder' = [builder EXCEPT ![b] =
       IF cached[Memo].intact /\ cached[Memo].stamp = image.stamp
       THEN [NoBuild EXCEPT !.pc = "look", !.sha256 = cached[Memo].of]
       ELSE [NoBuild EXCEPT !.pc = "hash", !.read = image.stamp]]
  /\ UNCHANGED <<image, cached, data, failures, leftover, mixed>>

HashPath(b) ==
  /\ Reached(b, "hash")
  /\ builder' = [builder EXCEPT ![b].pc = "write", ![b].slot = Memo,
                                ![b].sha256 = image.content, ![b].built = image.content]
  /\ UNCHANGED <<image, cached, data, builds, failures, leftover, mixed>>

----------------------------------------------------------------------------
(* store: write and sync a temporary file, move an existing file aside,    *)
(* install, remove what was moved aside.                                   *)

(* The temporary file is nobody else's, so it is written and the old file  *)
(* looked for in one step.                                                 *)
WriteTemporary(b) ==
  /\ Reached(b, "write")
  /\ \/ /\ Proceed(b, IF cached[builder[b].slot].exists THEN "quarantine" ELSE "install")
        /\ UNCHANGED <<failures, leftover>>
     \/ BuildFails(b, 1)
  /\ UNCHANGED <<image, cached, data, builds, mixed>>

(* The rename fails if another call has moved or pruned the file: the      *)
(* temporary file stays.                                                   *)
Quarantine(b) ==
  /\ Reached(b, "quarantine")
  /\ \/ /\ cached[builder[b].slot].exists
        /\ cached' = [cached EXCEPT ![builder[b].slot] = Missing]
        /\ builder' = [builder EXCEPT ![b].pc = "install",
                                      ![b].aside = cached[builder[b].slot]]
        /\ UNCHANGED <<failures, leftover>>
     \/ /\ BuildFails(b, 1)
        /\ UNCHANGED cached
  /\ UNCHANGED <<image, data, builds, mixed>>

NewFile(b) == OnDisk(IF builder[b].slot = Memo THEN builder[b].read ELSE 0, builder[b].built)

(* If the rename fails, the file moved aside is put back, over whatever    *)
(* another call has installed, and the temporary file removed.             *)
Install(b) ==
  /\ Reached(b, "install")
  /\ \/ /\ cached' = [cached EXCEPT ![builder[b].slot] = NewFile(b)]
        /\ Proceed(b, "cleanup")
        /\ UNCHANGED <<failures, leftover>>
     \/ /\ BuildFails(b, 0)
        /\ cached' = IF builder[b].aside.exists
                     THEN [cached EXCEPT ![builder[b].slot] = builder[b].aside] ELSE cached
  /\ UNCHANGED <<image, data, builds, mixed>>

(* After the memo comes the catalog, after a partition the pruning. *)
Cleanup(b) ==
  /\ Reached(b, "cleanup")
  /\ builder' = [builder EXCEPT ![b].pc = IF builder[b].slot = Memo THEN "look" ELSE "prune",
                                ![b].read = 0, ![b].aside = Missing]
  /\ UNCHANGED <<image, cached, data, builds, failures, leftover, mixed>>

----------------------------------------------------------------------------
(* load, and the build of what is missing.                                 *)

Hit(b) ==
  /\ cached[PartitionOf(b)].intact
  /\ builder[b].kind = "deep" => data[builder[b].sha256] # NoImage

(* A data file of the right length is taken to be the right one. *)
LookInCache(b) ==
  /\ Reached(b, "look")
  /\ builder' = [builder EXCEPT ![b] =
       IF Hit(b) THEN [NoBuild EXCEPT !.kind = builder[b].kind, !.sha256 = builder[b].sha256,
                                      !.built = cached[PartitionOf(b)].of]
                 ELSE [builder[b] EXCEPT !.pc = "build", !.built = NoImage]]
  /\ UNCHANGED <<image, cached, data, builds, failures, leftover, mixed>>

(* The image is opened again, whatever it is by now. *)
BuildPartition(b) ==
  /\ Reached(b, "build")
  /\ \/ /\ builder' = [builder EXCEPT ![b].built = image.content, ![b].slot = PartitionOf(b),
                       ![b].pc = IF builder[b].kind = "deep" THEN "data_exists" ELSE "write"]
        /\ UNCHANGED <<failures, leftover>>
     \/ BuildFails(b, 0)
  /\ UNCHANGED <<image, cached, data, builds, mixed>>

(* The data file of a deep index is removed and renamed into place. *)
DataExists(b) ==
  /\ Reached(b, "data_exists")
  /\ Proceed(b, IF data[builder[b].sha256] = NoImage THEN "data_rename" ELSE "data_remove")
  /\ UNCHANGED <<image, cached, data, builds, failures, leftover, mixed>>

DataRemove(b) ==
  /\ Reached(b, "data_remove")
  /\ \/ /\ data[builder[b].sha256] # NoImage
        /\ data' = [data EXCEPT ![builder[b].sha256] = NoImage]
        /\ Proceed(b, "data_rename")
        /\ UNCHANGED <<failures, leftover>>
     \/ BuildFails(b, 1) /\ UNCHANGED data
  /\ UNCHANGED <<image, cached, builds, mixed>>

DataRename(b) ==
  /\ Reached(b, "data_rename")
  /\ data' = [data EXCEPT ![builder[b].sha256] = builder[b].built]
  /\ Proceed(b, "write")
  /\ UNCHANGED <<image, cached, builds, failures, leftover, mixed>>

(* prune_lru removes the partitions used longest ago, a deep one with its  *)
(* data file; which ones depends on sizes and times.  The call is done.    *)
PruneLru(b) ==
  /\ Reached(b, "prune")
  /\ \E gone \in SUBSET {s \in CacheFiles : cached[s].exists} :
       /\ Cardinality(gone) <= 1
       /\ cached' = [s \in CacheFiles |-> IF s \in gone THEN Missing ELSE cached[s]]
       /\ data' = [x \in ImageContents |-> IF <<"deep", x>> \in gone THEN NoImage ELSE data[x]]
  /\ builder' = [builder EXCEPT ![b].pc = "idle", ![b].slot = Memo]
  /\ UNCHANGED <<image, builds, failures, leftover, mixed>>

(* __build_deep_index goes by the hash of the catalog the job holds. *)
StartDeep(b) ==
  /\ Reached(b, "idle")
  /\ builder[b].sha256 # NoImage
  /\ builds < MaxBuilds
  /\ builds' = builds + 1
  /\ builder' = [builder EXCEPT ![b] =
       [NoBuild EXCEPT !.pc = "look", !.kind = "deep", !.sha256 = builder[b].sha256]]
  /\ UNCHANGED <<image, cached, data, failures, leftover, mixed>>

(* The job that held the catalog is closed. *)
LetGo(b) ==
  /\ Reached(b, "idle")
  /\ builder[b].sha256 # NoImage
  /\ builder' = [builder EXCEPT ![b] = NoBuild]
  /\ UNCHANGED <<image, cached, data, builds, failures, leftover, mixed>>

----------------------------------------------------------------------------
(* Another program writes the image. *)
ReplaceImage(x) ==
  /\ image.stamp < MaxImageChanges
  /\ x # image.content
  /\ image' = [content |-> x, stamp |-> image.stamp + 1]
  /\ mixed' = mixed \cup Held
  /\ UNCHANGED <<cached, data, builder, builds, failures, leftover>>

(* The process dies; temporary and quarantined files stay. *)
CrashedFiles ==
  Cardinality({b \in Builders : builder[b].pc \in {"quarantine", "install"}})
  + Cardinality({b \in Builders : builder[b].aside.exists})
  + Cardinality({b \in Builders : builder[b].pc \in {"data_exists", "data_remove", "data_rename"}})

StructuralCrash ==
  /\ failures < MaxFailures
  /\ failures' = failures + 1
  /\ leftover' = leftover + CrashedFiles
  /\ builder' = [b \in Builders |-> NoBuild]
  /\ UNCHANGED <<image, cached, data, builds, mixed>>

(* A cache file is damaged on disk. *)
DamageFile(s) ==
  /\ failures < MaxFailures
  /\ cached[s].intact
  /\ cached' = [cached EXCEPT ![s] = Corrupt]
  /\ failures' = failures + 1
  /\ UNCHANGED <<image, data, builder, builds, leftover, mixed>>

BuilderStep(b) ==
  \/ StatPath(b) \/ HashPath(b) \/ LookInCache(b) \/ BuildPartition(b)
  \/ WriteTemporary(b) \/ Quarantine(b) \/ Install(b) \/ Cleanup(b)
  \/ DataExists(b) \/ DataRemove(b) \/ DataRename(b) \/ PruneLru(b)
  \/ StartDeep(b) \/ LetGo(b)

StructuralNext ==
  \/ \E b \in Builders : BuilderStep(b)
  \/ \E x \in ImageContents : ReplaceImage(x)
  \/ \E s \in CacheFiles : DamageFile(s)
  \/ StructuralCrash

StructuralSpec == StructuralInit /\ [][StructuralNext]_structuralVars

----------------------------------------------------------------------------
StructuralTypeOK ==
  LET Images0 == ImageContents \cup {NoImage}
      Stamps  == 0..MaxImageChanges
      Files0  == [exists : BOOLEAN, intact : BOOLEAN, stamp : Stamps, of : Images0]
  IN  /\ image \in [content : ImageContents, stamp : Stamps]
      /\ cached \in [CacheFiles -> Files0]
      /\ data \in [ImageContents -> Images0]
      /\ builder \in [Builders -> [pc : BuildPcs, kind : {"catalog", "deep"}, slot : CacheFiles,
                                   sha256 : Images0, read : Stamps, built : Images0, aside : Files0]]
      /\ builds \in 0..MaxBuilds
      /\ failures \in 0..MaxFailures
      /\ leftover \in Nat
      /\ mixed \subseteq ImageContents

(* "Structural partitions are SHA-addressed, checksummed": a partition     *)
(* that verifies, its data file, and the answer of a call are of the image *)
(* whose hash they go by - through races of two builds, crashes, damaged   *)
(* files and pruning - unless the image was replaced while some call or    *)
(* job still went by its old hash.                                         *)
PartitionsAddressed ==
  \A x \in ImageContents \ mixed :
    /\ \A k \in {"catalog", "deep"} : cached[<<k, x>>].intact => cached[<<k, x>>].of = x
    /\ data[x] \in {x, NoImage}
    /\ \A b \in Builders : Reached(b, "idle") /\ builder[b].sha256 = x => builder[b].built = x

(* The memo answers for the file that is there: if its stamp is the        *)
(* file's, its hash is the file's, although the stat, the hash and the     *)
(* store are three steps that a replacement can separate.                  *)
MemoTruthful ==
  cached[Memo].intact /\ cached[Memo].stamp = image.stamp => cached[Memo].of = image.content

(* What the cache says of an image is about that image: its partitions,    *)
(* the answers taken from them, and the memo that leads to them.           *)
CacheTruthful == PartitionsAddressed /\ MemoTruthful

(* prune_lru counts partitions only, so the bound of the cache rests on    *)
(* stores that leave nothing else behind: temporary and quarantined files  *)
(* remain only after a crash, an I/O error or a lost race of two stores.   *)
NoLeftovers == failures = 0 => leftover = 0

=============================================================================
