--------------------------- MODULE Analysis_proofs ---------------------------
(***************************************************************************)
(* Proofs about the analysis side of the program: the cache files of       *)
(* demand-driven analysis (module StructuralCache), the stack walks and    *)
(* the module images of the dump loader (DumpMemory) and the builds of     *)
(* deep indexes (DeepIndex).                                               *)
(***************************************************************************)
EXTENDS StructuralCache, DumpMemory, DeepIndex, Lists_proofs, SequenceTheorems, TLAPS

----------------------------------------------------------------------------
(* The structural cache.                                                   *)

Images0     == ImageContents \cup {NoImage}
Stamps      == 0..MaxImageChanges
FileRecords == [exists : BOOLEAN, intact : BOOLEAN, stamp : Stamps, of : Images0]
BuildRecords == [pc : BuildPcs, kind : {"catalog", "deep"}, slot : CacheFiles,
                 sha256 : Images0, read : Stamps, built : Images0, aside : FileRecords]

StructuralShape ==
  /\ image \in [content : ImageContents, stamp : Stamps]
  /\ cached \in [CacheFiles -> FileRecords]
  /\ data \in [ImageContents -> Images0]
  /\ builder \in [Builders -> BuildRecords]
  /\ failures \in Nat
  /\ mixed \subseteq ImageContents

(* A file f that stands, or will stand, in the place s. *)
FileSound(s, f, img, mx) ==
  f.intact =>
    /\ f.of \in ImageContents
    /\ s = Memo => /\ f.stamp <= img.stamp
                   /\ f.stamp = img.stamp => f.of = img.content
    /\ s # Memo /\ s[2] \notin mx => f.of = s[2]

DataPcs == {"data_exists", "data_remove", "data_rename"}

(* The result of a call is of the image whose hash the call goes by. *)
OwnResult(r, mx) == /\ r.sha256 \in ImageContents /\ r.built \in ImageContents
                    /\ r.sha256 \notin mx => r.built = r.sha256

(* The hash a call goes by is the image's, until a replacement marks it.   *)
(* A memo under way was taken from the version that was seen first or a    *)
(* later one; a file moved aside is as good as it was in its place.        *)
BuilderSound(r, img, mx) ==
  /\ r.sha256 # NoImage /\ r.sha256 \notin mx => img.content = r.sha256
  /\ r.pc \notin {"idle", "hash"} => r.sha256 \in ImageContents
  /\ r.pc = "hash" => r.read <= img.stamp
  /\ r.pc \in StorePcs \cup DataPcs \cup {"prune"} => OwnResult(r, mx)
  /\ r.pc \in StorePcs => r.slot \in {Memo, <<r.kind, r.sha256>>}
  /\ r.pc \in DataPcs => r.slot = <<r.kind, r.sha256>>
  /\ r.pc = "idle" /\ r.sha256 # NoImage => OwnResult(r, mx)
  /\ r.pc \in {"write", "quarantine", "install"} /\ r.slot = Memo =>
       /\ r.read <= img.stamp
       /\ r.read = img.stamp => r.built = img.content
  /\ r.pc \notin {"install", "cleanup"} => r.aside = Missing
  /\ r.pc = "install" => FileSound(r.slot, r.aside, img, mx)

DataSound(d, mx) == \A x \in ImageContents \ mx : d[x] \in {x, NoImage}

StructuralInv ==
  /\ StructuralShape
  /\ \A s \in CacheFiles : FileSound(s, cached[s], image, mixed)
  /\ DataSound(data, mixed)
  /\ \A b \in Builders : BuilderSound(builder[b], image, mixed)
  /\ NoLeftovers

LEMMA FileKinds ==
  /\ Missing \in FileRecords /\ ~Missing.intact /\ ~Missing.exists
  /\ Corrupt \in FileRecords /\ ~Corrupt.intact
  /\ \A n \in Stamps, x \in Images0 :
       LET f == OnDisk(n, x)
       IN  f \in FileRecords /\ f.intact /\ f.stamp = n /\ f.of = x
<1>1. 0 \in Stamps /\ NoImage \in Images0
  BY StructuralAssumption DEF Stamps, Images0
<1> QED
  BY <1>1 DEF Missing, Corrupt, OnDisk, FileRecords

LEMMA Places ==
  /\ Memo \in CacheFiles
  /\ \A k \in {"catalog", "deep"}, x \in ImageContents :
       <<k, x>> \in CacheFiles /\ <<k, x>> # Memo /\ <<k, x>>[2] = x
  /\ \A s \in CacheFiles : s # Memo => \E k \in {"catalog", "deep"}, x \in ImageContents : s = <<k, x>>
  BY DEF CacheFiles, Partitions, Memo

LEMMA NoBuildIs ==
  /\ NoBuild \in BuildRecords /\ NoBuild.pc = "idle" /\ NoBuild.sha256 = NoImage
  /\ NoBuild.aside = Missing
<1>1. 0 \in Stamps /\ NoImage \in Images0 /\ "idle" \in BuildPcs
  BY StructuralAssumption DEF Stamps, Images0, BuildPcs
<1> QED
  BY <1>1, FileKinds, Places DEF NoBuild, BuildRecords

LEMMA NoBuildSound == ASSUME NEW img, NEW mx PROVE BuilderSound(NoBuild, img, mx)
  BY NoBuildIs DEF BuilderSound, StorePcs, DataPcs

(* Steps of one call that leave the image alone. *)
LEMMA BuilderChanges ==
  ASSUME StructuralInv, NEW b \in Builders, NEW r \in BuildRecords,
         builder' = [builder EXCEPT ![b] = r], BuilderSound(r, image, mixed),
         UNCHANGED <<image, mixed>>,
         cached' \in [CacheFiles -> FileRecords],
         \A s \in CacheFiles : FileSound(s, cached'[s], image, mixed),
         data' \in [ImageContents -> Images0], DataSound(data', mixed),
         \/ UNCHANGED <<failures, leftover>>
         \/ failures' = failures + 1
  PROVE  StructuralInv'
<1>1. /\ builder' \in [Builders -> BuildRecords]
      /\ \A c \in Builders : BuilderSound(builder'[c], image, mixed)
  BY DEF StructuralInv, StructuralShape
<1>2. failures' \in Nat /\ NoLeftovers'
  BY DEF StructuralInv, StructuralShape, NoLeftovers
<1>3. image \in [content : ImageContents, stamp : Stamps] /\ mixed \subseteq ImageContents
  BY DEF StructuralInv, StructuralShape
<1>4. StructuralShape'
  BY <1>1, <1>2, <1>3 DEF StructuralShape
<1>5. (\A s \in CacheFiles : FileSound(s, cached[s], image, mixed))'
  BY DEF FileSound
<1>6. DataSound(data, mixed)'
  BY DEF DataSound
<1>7. (\A c \in Builders : BuilderSound(builder[c], image, mixed))'
  BY <1>1 DEF BuilderSound, OwnResult, FileSound
<1> QED
  BY <1>2, <1>4, <1>5, <1>6, <1>7 DEF StructuralInv

LEMMA CallOnly ==
  ASSUME StructuralInv, NEW b \in Builders, NEW r \in BuildRecords,
         builder' = [builder EXCEPT ![b] = r], BuilderSound(r, image, mixed),
         UNCHANGED <<image, mixed, cached, data, failures, leftover>>
  PROVE  StructuralInv'
<1>1. /\ cached' \in [CacheFiles -> FileRecords]
      /\ \A s \in CacheFiles : FileSound(s, cached'[s], image, mixed)
      /\ data' \in [ImageContents -> Images0] /\ DataSound(data', mixed)
  BY DEF StructuralInv, StructuralShape
<1> QED
  BY <1>1, BuilderChanges

LEMMA CallFails ==
  ASSUME StructuralInv, NEW b \in Builders, NEW n, BuildFails(b, n),
         UNCHANGED <<image, mixed, cached, data>>
  PROVE  StructuralInv'
<1>1. /\ cached' \in [CacheFiles -> FileRecords]
      /\ \A s \in CacheFiles : FileSound(s, cached'[s], image, mixed)
      /\ data' \in [ImageContents -> Images0] /\ DataSound(data', mixed)
  BY DEF StructuralInv, StructuralShape
<1>2. builder' = [builder EXCEPT ![b] = NoBuild] /\ failures' = failures + 1
  BY DEF BuildFails
<1> QED
  BY <1>1, <1>2, NoBuildIs, NoBuildSound, BuilderChanges

(* The fields of a record that is updated. *)
LEMMA BuildUpdate ==
  ASSUME NEW r \in BuildRecords, NEW pc \in BuildPcs
  PROVE  LET q == [r EXCEPT !.pc = pc]
         IN  /\ q \in BuildRecords /\ q.pc = pc /\ q.kind = r.kind /\ q.slot = r.slot
             /\ q.sha256 = r.sha256 /\ q.read = r.read /\ q.built = r.built /\ q.aside = r.aside
  BY DEF BuildRecords

LEMMA StatPathSound ==
  ASSUME StructuralInv, NEW b \in Builders, StatPath(b)
  PROVE  StructuralInv'
<1>0. UNCHANGED <<image, mixed, cached, data, failures, leftover>>
  BY DEF StatPath
<1>1. /\ image.content \in ImageContents /\ image.stamp \in Stamps /\ image.stamp \in Nat
      /\ cached[Memo] \in FileRecords /\ FileSound(Memo, cached[Memo], image, mixed)
  BY Places, StructuralAssumption DEF StructuralInv, StructuralShape, Stamps
<1>2. CASE cached[Memo].intact /\ cached[Memo].stamp = image.stamp
  <2> DEFINE r == [NoBuild EXCEPT !.pc = "look", !.sha256 = cached[Memo].of]
  <2>1. builder' = [builder EXCEPT ![b] = r]
    BY <1>2 DEF StatPath
  <2>2. cached[Memo].of \in ImageContents /\ cached[Memo].of = image.content
    BY <1>1, <1>2 DEF FileSound
  <2>3. \A n \in BuildRecords, x \in Images0 : LET q == [n EXCEPT !.pc = "look", !.sha256 = x]
          IN  q \in BuildRecords /\ q.pc = "look" /\ q.sha256 = x /\ q.aside = n.aside
    BY DEF BuildRecords, BuildPcs
  <2>4. r \in BuildRecords /\ r.pc = "look" /\ r.sha256 = image.content /\ r.aside = Missing
    BY <2>2, <2>3, NoBuildIs DEF Images0
  <2> HIDE DEF r
  <2>5. BuilderSound(r, image, mixed)
    BY <1>1, <2>4 DEF BuilderSound, StorePcs, DataPcs
  <2> QED
    BY <1>0, <2>1, <2>4, <2>5, CallOnly
<1>3. CASE ~(cached[Memo].intact /\ cached[Memo].stamp = image.stamp)
  <2> DEFINE r == [NoBuild EXCEPT !.pc = "hash", !.read = image.stamp]
  <2>1. builder' = [builder EXCEPT ![b] = r]
    BY <1>3 DEF StatPath
  <2>3. \A n \in BuildRecords, x \in Stamps : LET q == [n EXCEPT !.pc = "hash", !.read = x]
          IN  q \in BuildRecords /\ q.pc = "hash" /\ q.read = x /\ q.sha256 = n.sha256 /\ q.aside = n.aside
    BY DEF BuildRecords, BuildPcs
  <2>4. /\ r \in BuildRecords /\ r.pc = "hash" /\ r.read = image.stamp /\ r.sha256 = NoImage
        /\ r.aside = Missing
    BY <1>1, <2>3, NoBuildIs
  <2> HIDE DEF r
  <2>5. BuilderSound(r, image, mixed)
    BY <1>1, <2>4 DEF BuilderSound, StorePcs, DataPcs
  <2> QED
    BY <1>0, <2>1, <2>4, <2>5, CallOnly
<1> QED
  BY <1>2, <1>3

(* The memo under way is of the version that was seen, or of a later one. *)
LEMMA HashPathSound ==
  ASSUME StructuralInv, NEW b \in Builders, HashPath(b)
  PROVE  StructuralInv'
<1>1. /\ image.content \in ImageContents /\ builder[b] \in BuildRecords
      /\ BuilderSound(builder[b], image, mixed) /\ builder[b].pc = "hash"
  BY DEF StructuralInv, StructuralShape, HashPath, Reached
<1> DEFINE r == [builder[b] EXCEPT !.pc = "write", !.slot = Memo,
                                   !.sha256 = image.content, !.built = image.content]
<1>2. builder' = [builder EXCEPT ![b] = r] /\ UNCHANGED <<image, mixed, cached, data, failures, leftover>>
  BY DEF HashPath
<1>3. \A n \in BuildRecords, x \in Images0 :
        LET q == [n EXCEPT !.pc = "write", !.slot = Memo, !.sha256 = x, !.built = x]
        IN  /\ q \in BuildRecords /\ q.pc = "write" /\ q.slot = Memo /\ q.sha256 = x /\ q.built = x
            /\ q.read = n.read /\ q.aside = n.aside
  <2>1. "write" \in BuildPcs
    BY DEF BuildPcs, StorePcs
  <2> QED
    BY <2>1, Places DEF BuildRecords
<1>4. /\ r \in BuildRecords /\ r.pc = "write" /\ r.slot = Memo /\ r.sha256 = image.content
      /\ r.built = image.content /\ r.read = builder[b].read /\ r.aside = builder[b].aside
  <2>1. image.content \in Images0
    BY <1>1 DEF Images0
  <2>2. PICK x \in Images0 : x = image.content
    BY <2>1
  <2>3. PICK n \in BuildRecords : n = builder[b]
    BY <1>1
  <2>4. LET q == [n EXCEPT !.pc = "write", !.slot = Memo, !.sha256 = x, !.built = x]
        IN  /\ q \in BuildRecords /\ q.pc = "write" /\ q.slot = Memo /\ q.sha256 = x /\ q.built = x
            /\ q.read = n.read /\ q.aside = n.aside
    BY <1>3
  <2> QED
    BY <2>2, <2>3, <2>4
<1> HIDE DEF r
<1>5. builder[b].read <= image.stamp /\ builder[b].aside = Missing
  BY <1>1 DEF BuilderSound
<1>6. BuilderSound(r, image, mixed)
  BY <1>1, <1>4, <1>5 DEF BuilderSound, OwnResult, StorePcs, DataPcs
<1> QED
  BY <1>2, <1>4, <1>6, CallOnly

LEMMA WriteTemporarySound ==
  ASSUME StructuralInv, NEW b \in Builders, WriteTemporary(b)
  PROVE  StructuralInv'
<1>0. UNCHANGED <<image, mixed, cached, data>>
  BY DEF WriteTemporary
<1>1. /\ builder[b] \in BuildRecords /\ BuilderSound(builder[b], image, mixed)
      /\ builder[b].pc = "write"
  BY DEF StructuralInv, StructuralShape, WriteTemporary, Reached
<1>2. CASE /\ Proceed(b, IF cached[builder[b].slot].exists THEN "quarantine" ELSE "install")
           /\ UNCHANGED <<failures, leftover>>
  <2>1. PICK pc \in {"quarantine", "install"} : builder' = [builder EXCEPT ![b] = [builder[b] EXCEPT !.pc = pc]]
    BY <1>2 DEF Proceed
  <2> DEFINE r == [builder[b] EXCEPT !.pc = pc]
  <2>2. pc \in BuildPcs
    BY DEF BuildPcs, StorePcs
  <2>3. /\ r \in BuildRecords /\ r.pc = pc /\ r.kind = builder[b].kind /\ r.slot = builder[b].slot
        /\ r.sha256 = builder[b].sha256 /\ r.read = builder[b].read /\ r.built = builder[b].built
        /\ r.aside = builder[b].aside
    BY <1>1, <2>2, BuildUpdate
  <2> HIDE DEF r
  <2>4. FileSound(r.slot, r.aside, image, mixed)
    BY <1>1, <2>3, FileKinds DEF BuilderSound, FileSound
  <2>5. BuilderSound(r, image, mixed)
    BY <1>1, <2>3, <2>4 DEF BuilderSound, OwnResult, StorePcs, DataPcs
  <2> QED
    BY <1>0, <1>2, <2>1, <2>3, <2>5, CallOnly DEF r
<1>3. CASE BuildFails(b, 1)
  BY <1>0, <1>3, CallFails
<1> QED
  BY <1>2, <1>3 DEF WriteTemporary

(* One file of the cache is replaced by a sound one. *)
LEMMA OneFile ==
  ASSUME StructuralInv, NEW s \in CacheFiles, NEW f \in FileRecords,
         FileSound(s, f, image, mixed)
  PROVE  /\ [cached EXCEPT ![s] = f] \in [CacheFiles -> FileRecords]
         /\ \A u \in CacheFiles : FileSound(u, [cached EXCEPT ![s] = f][u], image, mixed)
<1> DEFINE c == [cached EXCEPT ![s] = f]
<1>1. c \in [CacheFiles -> FileRecords] /\ c[s] = f /\ \A u \in CacheFiles : u # s => c[u] = cached[u]
  BY DEF StructuralInv, StructuralShape
<1> HIDE DEF c
<1>2. \A u \in CacheFiles : FileSound(u, c[u], image, mixed)
  BY <1>1 DEF StructuralInv
<1> QED
  BY <1>1, <1>2 DEF c

LEMMA QuarantineSound ==
  ASSUME StructuralInv, NEW b \in Builders, Quarantine(b)
  PROVE  StructuralInv'
<1> DEFINE s == builder[b].slot
           r == [builder[b] EXCEPT !.pc = "install", !.aside = cached[s]]
<1>0. UNCHANGED <<image, mixed, data>>
  BY DEF Quarantine
<1>1. /\ builder[b] \in BuildRecords /\ BuilderSound(builder[b], image, mixed)
      /\ builder[b].pc = "quarantine"
  BY DEF StructuralInv, StructuralShape, Quarantine, Reached
<1>2. s \in CacheFiles /\ cached[s] \in FileRecords /\ FileSound(s, cached[s], image, mixed)
  BY <1>1 DEF StructuralInv, StructuralShape, BuildRecords
<1>3. CASE /\ cached' = [cached EXCEPT ![s] = Missing]
           /\ builder' = [builder EXCEPT ![b].pc = "install", ![b].aside = cached[s]]
           /\ UNCHANGED <<failures, leftover>>
  <2>1. builder' = [builder EXCEPT ![b] = r]
    BY <1>3
  <2>2. \A n \in BuildRecords, f \in FileRecords :
          LET q == [n EXCEPT !.pc = "install", !.aside = f]
          IN  /\ q \in BuildRecords /\ q.pc = "install" /\ q.aside = f /\ q.kind = n.kind
              /\ q.slot = n.slot /\ q.sha256 = n.sha256 /\ q.read = n.read /\ q.built = n.built
    <3>1. "install" \in BuildPcs
      BY DEF BuildPcs, StorePcs
    <3> QED
      BY <3>1 DEF BuildRecords
  <2>3. /\ r \in BuildRecords /\ r.pc = "install" /\ r.aside = cached[s] /\ r.kind = builder[b].kind
        /\ r.slot = s /\ r.sha256 = builder[b].sha256 /\ r.read = builder[b].read
        /\ r.built = builder[b].built
    BY <1>1, <1>2, <2>2
  <2> HIDE DEF r
  <2>4. BuilderSound(r, image, mixed)
    BY <1>1, <1>2, <2>3 DEF BuilderSound, OwnResult, StorePcs, DataPcs
  <2>5. FileSound(s, Missing, image, mixed)
    BY FileKinds DEF FileSound
  <2>6. /\ cached' \in [CacheFiles -> FileRecords]
        /\ \A u \in CacheFiles : FileSound(u, cached'[u], image, mixed)
    BY <1>2, <1>3, <2>5, FileKinds, OneFile
  <2>7. data' \in [ImageContents -> Images0] /\ DataSound(data', mixed)
    BY <1>0 DEF StructuralInv, StructuralShape
  <2> QED
    BY <1>0, <1>3, <2>1, <2>3, <2>4, <2>6, <2>7, BuilderChanges
<1>4. CASE BuildFails(b, 1) /\ UNCHANGED cached
  BY <1>0, <1>4, CallFails
<1> QED
  BY <1>3, <1>4 DEF Quarantine

(* What is installed, or put back, is sound in its place. *)
LEMMA InstallSound ==
  ASSUME StructuralInv, NEW b \in Builders, Install(b)
  PROVE  StructuralInv'
<1> DEFINE s == builder[b].slot
           f == NewFile(b)
<1>0. UNCHANGED <<image, mixed, data>>
  BY DEF Install
<1>1. /\ builder[b] \in BuildRecords /\ BuilderSound(builder[b], image, mixed)
      /\ builder[b].pc = "install"
  BY DEF StructuralInv, StructuralShape, Install, Reached
<1>2. /\ s \in CacheFiles /\ builder[b].aside \in FileRecords /\ builder[b].read \in Stamps
      /\ builder[b].built \in Images0 /\ builder[b].kind \in {"catalog", "deep"}
  BY <1>1 DEF BuildRecords
<1>3. data' \in [ImageContents -> Images0] /\ DataSound(data', mixed)
  BY <1>0 DEF StructuralInv, StructuralShape
<1>4. f \in FileRecords /\ FileSound(s, f, image, mixed)
  <2>0. 0 \in Stamps
    BY StructuralAssumption DEF Stamps
  <2>1. f \in FileRecords /\ f.of = builder[b].built /\ (s = Memo => f.stamp = builder[b].read)
    BY <1>2, <2>0, FileKinds DEF NewFile
  <2>2. OwnResult(builder[b], mixed) /\ s \in {Memo, <<builder[b].kind, builder[b].sha256>>}
    BY <1>1 DEF BuilderSound, StorePcs
  <2>3. CASE s = Memo
    BY <1>1, <2>1, <2>2, <2>3 DEF BuilderSound, FileSound, OwnResult
  <2>4. CASE s # Memo
    <3>1. s[2] = builder[b].sha256
      BY <1>2, <2>2, <2>4, Places DEF OwnResult
    <3> QED
      BY <2>1, <2>2, <2>4, <3>1 DEF FileSound, OwnResult
  <2> QED
    BY <2>1, <2>3, <2>4
<1>5. CASE /\ cached' = [cached EXCEPT ![s] = f]
           /\ Proceed(b, "cleanup")
           /\ UNCHANGED <<failures, leftover>>
  <2> DEFINE r == [builder[b] EXCEPT !.pc = "cleanup"]
  <2>1. builder' = [builder EXCEPT ![b] = r]
    BY <1>5 DEF Proceed
  <2>2. "cleanup" \in BuildPcs
    BY DEF BuildPcs, StorePcs
  <2>3. /\ r \in BuildRecords /\ r.pc = "cleanup" /\ r.kind = builder[b].kind /\ r.slot = s
        /\ r.sha256 = builder[b].sha256 /\ r.built = builder[b].built
    BY <1>1, <2>2, BuildUpdate
  <2> HIDE DEF r
  <2>4. BuilderSound(r, image, mixed)
    BY <1>1, <2>3 DEF BuilderSound, OwnResult, StorePcs, DataPcs
  <2> HIDE DEF f
  <2>5. /\ cached' \in [CacheFiles -> FileRecords]
        /\ \A u \in CacheFiles : FileSound(u, cached'[u], image, mixed)
    BY <1>2, <1>4, <1>5, OneFile
  <2> QED
    BY <1>0, <1>3, <1>5, <2>1, <2>3, <2>4, <2>5, BuilderChanges
<1>6. CASE /\ BuildFails(b, 0)
           /\ cached' = IF builder[b].aside.exists
                        THEN [cached EXCEPT ![s] = builder[b].aside] ELSE cached
  <2>1. FileSound(s, builder[b].aside, image, mixed)
    BY <1>1 DEF BuilderSound
  <2>2. /\ cached' \in [CacheFiles -> FileRecords]
        /\ \A u \in CacheFiles : FileSound(u, cached'[u], image, mixed)
    <3>1. CASE builder[b].aside.exists
      BY <1>2, <1>6, <2>1, <3>1, OneFile
    <3>2. CASE ~builder[b].aside.exists
      BY <1>6, <3>2 DEF StructuralInv, StructuralShape
    <3> QED
      BY <3>1, <3>2
  <2>3. builder' = [builder EXCEPT ![b] = NoBuild] /\ failures' = failures + 1
    BY <1>6 DEF BuildFails
  <2> QED
    BY <1>0, <1>3, <2>2, <2>3, NoBuildIs, NoBuildSound, BuilderChanges
<1> QED
  BY <1>5, <1>6 DEF Install

LEMMA CleanupSound ==
  ASSUME StructuralInv, NEW b \in Builders, Cleanup(b)
  PROVE  StructuralInv'
<1>1. /\ builder[b] \in BuildRecords /\ BuilderSound(builder[b], image, mixed)
      /\ builder[b].pc = "cleanup"
  BY DEF StructuralInv, StructuralShape, Cleanup, Reached
<1>2. /\ UNCHANGED <<image, mixed, cached, data, failures, leftover>>
      /\ \E pc \in {"look", "prune"} :
           builder' = [builder EXCEPT ![b] = [builder[b] EXCEPT !.pc = pc, !.read = 0, !.aside = Missing]]
  BY DEF Cleanup
<1>3. PICK pc \in {"look", "prune"} :
        builder' = [builder EXCEPT ![b] = [builder[b] EXCEPT !.pc = pc, !.read = 0, !.aside = Missing]]
  BY <1>2
<1> DEFINE r == [builder[b] EXCEPT !.pc = pc, !.read = 0, !.aside = Missing]
<1>4. \A n \in BuildRecords :
        LET q == [n EXCEPT !.pc = pc, !.read = 0, !.aside = Missing]
        IN  /\ q \in BuildRecords /\ q.pc = pc /\ q.aside = Missing /\ q.kind = n.kind
            /\ q.slot = n.slot /\ q.sha256 = n.sha256 /\ q.built = n.built
  <2>1. pc \in BuildPcs /\ 0 \in Stamps
    BY StructuralAssumption DEF BuildPcs, Stamps
  <2> QED
    BY <2>1, FileKinds DEF BuildRecords
<1>5. /\ r \in BuildRecords /\ r.pc = pc /\ r.aside = Missing /\ r.kind = builder[b].kind
      /\ r.slot = builder[b].slot /\ r.sha256 = builder[b].sha256 /\ r.built = builder[b].built
  BY <1>1, <1>4
<1>6. builder' = [builder EXCEPT ![b] = r]
  BY <1>3
<1> HIDE DEF r
<1>7. BuilderSound(r, image, mixed)
  BY <1>1, <1>5 DEF BuilderSound, OwnResult, StorePcs, DataPcs
<1> QED
  BY <1>2, <1>5, <1>6, <1>7, CallOnly

(* A hit answers with a partition of the image whose hash led to it. *)
LEMMA LookInCacheSound ==
  ASSUME StructuralInv, NEW b \in Builders, LookInCache(b)
  PROVE  StructuralInv'
<1>1. /\ builder[b] \in BuildRecords /\ BuilderSound(builder[b], image, mixed)
      /\ builder[b].pc = "look"
  BY DEF StructuralInv, StructuralShape, LookInCache, Reached
<1>2. builder[b].sha256 \in ImageContents /\ builder[b].kind \in {"catalog", "deep"}
  BY <1>1 DEF BuilderSound, BuildRecords
<1>3. UNCHANGED <<image, mixed, cached, data, failures, leftover>>
  BY DEF LookInCache
<1> DEFINE s == PartitionOf(b)
<1>4. s \in CacheFiles /\ s # Memo /\ s[2] = builder[b].sha256
  BY <1>2, Places DEF PartitionOf
<1> HIDE DEF s
<1>5. cached[s] \in FileRecords /\ FileSound(s, cached[s], image, mixed)
  BY <1>4 DEF StructuralInv, StructuralShape
<1>6. CASE Hit(b)
  <2> DEFINE r == [NoBuild EXCEPT !.kind = builder[b].kind, !.sha256 = builder[b].sha256,
                                  !.built = cached[s].of]
  <2>1. builder' = [builder EXCEPT ![b] = r]
    BY <1>6 DEF LookInCache, s
  <2>2. cached[s].of \in ImageContents /\ (builder[b].sha256 \notin mixed => cached[s].of = builder[b].sha256)
    BY <1>4, <1>5, <1>6 DEF Hit, FileSound, s
  <2>4. /\ r \in BuildRecords /\ r.pc = "idle" /\ r.sha256 = builder[b].sha256
        /\ r.built = cached[s].of /\ r.aside = Missing
    <3>1. PICK x \in Images0 : x = builder[b].sha256
      BY <1>2 DEF Images0
    <3>2. PICK y \in Images0 : y = cached[s].of
      BY <2>2 DEF Images0
    <3>3. PICK k \in {"catalog", "deep"} : k = builder[b].kind
      BY <1>2
    <3>4. PICK n \in BuildRecords : n = NoBuild
      BY NoBuildIs
    <3>5. LET q == [n EXCEPT !.kind = k, !.sha256 = x, !.built = y]
          IN  /\ q \in BuildRecords /\ q.pc = n.pc /\ q.sha256 = x /\ q.built = y
              /\ q.aside = n.aside
      BY DEF BuildRecords
    <3>6. n.pc = "idle" /\ n.aside = Missing
      BY <3>4, NoBuildIs
    <3>7. r = [n EXCEPT !.kind = k, !.sha256 = x, !.built = y]
      BY <3>1, <3>2, <3>3, <3>4
    <3> HIDE DEF r
    <3> QED
      BY <3>1, <3>2, <3>5, <3>6, <3>7
  <2> HIDE DEF r
  <2>5. BuilderSound(r, image, mixed)
    BY <1>1, <1>2, <2>2, <2>4 DEF BuilderSound, OwnResult, StorePcs, DataPcs
  <2> QED
    BY <1>3, <2>1, <2>4, <2>5, CallOnly
<1>7. CASE ~Hit(b)
  <2> DEFINE r == [builder[b] EXCEPT !.pc = "build", !.built = NoImage]
  <2>1. builder' = [builder EXCEPT ![b] = r]
    BY <1>7 DEF LookInCache
  <2>2. \A n \in BuildRecords : LET q == [n EXCEPT !.pc = "build", !.built = NoImage]
          IN  q \in BuildRecords /\ q.pc = "build" /\ q.sha256 = n.sha256 /\ q.aside = n.aside
    BY DEF BuildRecords, BuildPcs, Images0
  <2>3. r \in BuildRecords /\ r.pc = "build" /\ r.sha256 = builder[b].sha256 /\ r.aside = builder[b].aside
    BY <1>1, <2>2
  <2> HIDE DEF r
  <2>4. BuilderSound(r, image, mixed)
    BY <1>1, <2>3 DEF BuilderSound, OwnResult, StorePcs, DataPcs
  <2> QED
    BY <1>3, <2>1, <2>3, <2>4, CallOnly
<1> QED
  BY <1>6, <1>7

(* The image is built from as it is; unless it was replaced since, it is   *)
(* the one whose hash the call goes by.                                    *)
LEMMA BuildPartitionSound ==
  ASSUME StructuralInv, NEW b \in Builders, BuildPartition(b)
  PROVE  StructuralInv'
<1>0. UNCHANGED <<image, mixed, cached, data>>
  BY DEF BuildPartition
<1>1. /\ builder[b] \in BuildRecords /\ BuilderSound(builder[b], image, mixed)
      /\ builder[b].pc = "build" /\ image.content \in ImageContents
  BY DEF StructuralInv, StructuralShape, BuildPartition, Reached
<1>2. builder[b].sha256 \in ImageContents /\ builder[b].kind \in {"catalog", "deep"}
  BY <1>1 DEF BuilderSound, BuildRecords
<1> DEFINE s == PartitionOf(b)
<1>3. s \in CacheFiles /\ s # Memo /\ s = <<builder[b].kind, builder[b].sha256>>
  BY <1>2, Places DEF PartitionOf
<1>4. CASE /\ builder' = [builder EXCEPT ![b].built = image.content, ![b].slot = s,
                          ![b].pc = IF builder[b].kind = "deep" THEN "data_exists" ELSE "write"]
           /\ UNCHANGED <<failures, leftover>>
  <2> HIDE DEF s
  <2>1. PICK pc \in {"data_exists", "write"} :
          builder' = [builder EXCEPT ![b] = [builder[b] EXCEPT !.built = image.content, !.slot = s, !.pc = pc]]
    BY <1>4
  <2> DEFINE r == [builder[b] EXCEPT !.built = image.content, !.slot = s, !.pc = pc]
  <2>2. ASSUME NEW n \in BuildRecords, NEW x \in Images0
        PROVE  LET q == [n EXCEPT !.built = x, !.slot = s, !.pc = pc]
               IN  /\ q \in BuildRecords /\ q.pc = pc /\ q.kind = n.kind /\ q.slot = s
                   /\ q.sha256 = n.sha256 /\ q.built = x /\ q.aside = n.aside
    <3>1. pc \in BuildPcs
      BY DEF BuildPcs, StorePcs
    <3> QED
      BY <1>3, <3>1 DEF BuildRecords
  <2>3. /\ r \in BuildRecords /\ r.pc = pc /\ r.kind = builder[b].kind /\ r.slot = s
        /\ r.sha256 = builder[b].sha256 /\ r.built = image.content /\ r.aside = builder[b].aside
    <3>1. PICK x \in Images0 : x = image.content
      BY <1>1 DEF Images0
    <3>2. PICK n \in BuildRecords : n = builder[b]
      BY <1>1
    <3>3. LET q == [n EXCEPT !.built = x, !.slot = s, !.pc = pc]
          IN  /\ q \in BuildRecords /\ q.pc = pc /\ q.kind = n.kind /\ q.slot = s
              /\ q.sha256 = n.sha256 /\ q.built = x /\ q.aside = n.aside
      BY <2>2
    <3> QED
      BY <3>1, <3>2, <3>3
  <2> HIDE DEF r
  <2>4. r.built \in ImageContents /\ (r.sha256 \notin mixed => r.built = r.sha256)
    <3>1. builder[b].sha256 # NoImage
      BY <1>2, StructuralAssumption
    <3> QED
      BY <1>1, <2>3, <3>1 DEF BuilderSound
  <2>5. BuilderSound(r, image, mixed)
    BY <1>1, <1>2, <1>3, <2>3, <2>4 DEF BuilderSound, OwnResult, StorePcs, DataPcs
  <2> QED
    BY <1>0, <1>4, <2>1, <2>3, <2>5, CallOnly DEF r
<1>5. CASE BuildFails(b, 0)
  BY <1>0, <1>5, CallFails
<1> QED
  BY <1>4, <1>5 DEF BuildPartition

LEMMA DataExistsSound ==
  ASSUME StructuralInv, NEW b \in Builders, DataExists(b)
  PROVE  StructuralInv'
<1>1. /\ builder[b] \in BuildRecords /\ BuilderSound(builder[b], image, mixed)
      /\ builder[b].pc = "data_exists"
  BY DEF StructuralInv, StructuralShape, DataExists, Reached
<1>2. /\ UNCHANGED <<image, mixed, cached, data, failures, leftover>>
      /\ \E pc \in {"data_rename", "data_remove"} :
           builder' = [builder EXCEPT ![b] = [builder[b] EXCEPT !.pc = pc]]
  BY DEF DataExists, Proceed
<1>3. PICK pc \in {"data_rename", "data_remove"} : builder' = [builder EXCEPT ![b] = [builder[b] EXCEPT !.pc = pc]]
  BY <1>2
<1> DEFINE r == [builder[b] EXCEPT !.pc = pc]
<1>4. pc \in BuildPcs
  BY DEF BuildPcs
<1>5. /\ r \in BuildRecords /\ r.pc = pc /\ r.kind = builder[b].kind /\ r.slot = builder[b].slot
      /\ r.sha256 = builder[b].sha256 /\ r.read = builder[b].read /\ r.built = builder[b].built
      /\ r.aside = builder[b].aside
  BY <1>1, <1>4, BuildUpdate
<1> HIDE DEF r
<1>6. BuilderSound(r, image, mixed)
  BY <1>1, <1>5 DEF BuilderSound, OwnResult, StorePcs, DataPcs
<1> QED
  BY <1>2, <1>3, <1>5, <1>6, CallOnly DEF r

(* The data file goes, or is of the call's own result. *)
LEMMA DataStepSound ==
  ASSUME StructuralInv, NEW b \in Builders,
         builder[b].pc \in {"data_remove", "data_rename"},
         NEW pc \in {"data_rename", "write"}, NEW y \in {NoImage, builder[b].built},
         data' = [data EXCEPT ![builder[b].sha256] = y],
         builder' = [builder EXCEPT ![b] = [builder[b] EXCEPT !.pc = pc]],
         UNCHANGED <<image, mixed, cached, failures, leftover>>
  PROVE  StructuralInv'
<1>1. builder[b] \in BuildRecords /\ BuilderSound(builder[b], image, mixed)
  BY DEF StructuralInv, StructuralShape
<1>2. OwnResult(builder[b], mixed) /\ builder[b].slot = <<builder[b].kind, builder[b].sha256>>
      /\ builder[b].kind \in {"catalog", "deep"}
  BY <1>1 DEF BuilderSound, DataPcs, BuildRecords
<1>3. builder[b].slot # Memo
  BY <1>2, Places DEF OwnResult
<1> DEFINE r == [builder[b] EXCEPT !.pc = pc]
<1>4. pc \in BuildPcs
  BY DEF BuildPcs, StorePcs
<1>5. /\ r \in BuildRecords /\ r.pc = pc /\ r.kind = builder[b].kind /\ r.slot = builder[b].slot
      /\ r.sha256 = builder[b].sha256 /\ r.read = builder[b].read /\ r.built = builder[b].built
      /\ r.aside = builder[b].aside
  BY <1>1, <1>4, BuildUpdate
<1> HIDE DEF r
<1>6. BuilderSound(r, image, mixed)
  BY <1>1, <1>2, <1>3, <1>5 DEF BuilderSound, OwnResult, StorePcs, DataPcs
<1>7. data' \in [ImageContents -> Images0] /\ DataSound(data', mixed)
  BY <1>2 DEF StructuralInv, StructuralShape, DataSound, OwnResult, Images0
<1>8. /\ cached' \in [CacheFiles -> FileRecords]
      /\ \A s \in CacheFiles : FileSound(s, cached'[s], image, mixed)
  BY DEF StructuralInv, StructuralShape
<1> QED
  BY <1>5, <1>6, <1>7, <1>8, BuilderChanges DEF r

LEMMA DataSteps ==
  ASSUME StructuralInv, NEW b \in Builders, DataRemove(b) \/ DataRename(b)
  PROVE  StructuralInv'
<1>1. CASE DataRemove(b)
  <2>1. CASE BuildFails(b, 1) /\ UNCHANGED data
    BY <1>1, <2>1, CallFails DEF DataRemove
  <2>2. CASE ~(BuildFails(b, 1) /\ UNCHANGED data)
    <3>1. /\ data' = [data EXCEPT ![builder[b].sha256] = NoImage]
          /\ builder' = [builder EXCEPT ![b] = [builder[b] EXCEPT !.pc = "data_rename"]]
          /\ builder[b].pc = "data_remove"
          /\ UNCHANGED <<image, mixed, cached, failures, leftover>>
      BY <1>1, <2>2 DEF DataRemove, Proceed, Reached
    <3> QED
      BY <3>1, DataStepSound
  <2> QED
    BY <2>1, <2>2
<1>2. CASE DataRename(b)
  <2>1. /\ data' = [data EXCEPT ![builder[b].sha256] = builder[b].built]
        /\ builder' = [builder EXCEPT ![b] = [builder[b] EXCEPT !.pc = "write"]]
        /\ builder[b].pc = "data_rename"
        /\ UNCHANGED <<image, mixed, cached, failures, leftover>>
    BY <1>2 DEF DataRename, Proceed, Reached
  <2> QED
    BY <2>1, DataStepSound
<1> QED
  BY <1>1, <1>2

LEMMA PruneLruSound ==
  ASSUME StructuralInv, NEW b \in Builders, PruneLru(b)
  PROVE  StructuralInv'
<1>1. /\ builder[b] \in BuildRecords /\ BuilderSound(builder[b], image, mixed)
      /\ builder[b].pc = "prune"
  BY DEF StructuralInv, StructuralShape, PruneLru, Reached
<1>2. PICK gone :
        /\ cached' = [s \in CacheFiles |-> IF s \in gone THEN Missing ELSE cached[s]]
        /\ data' = [x \in ImageContents |-> IF <<"deep", x>> \in gone THEN NoImage ELSE data[x]]
  BY DEF PruneLru
<1>3. /\ cached' \in [CacheFiles -> FileRecords]
      /\ \A s \in CacheFiles : FileSound(s, cached'[s], image, mixed)
  <2>1. \A s \in CacheFiles : FileSound(s, Missing, image, mixed)
    BY FileKinds DEF FileSound
  <2>2. \A s \in CacheFiles : /\ cached'[s] = Missing \/ cached'[s] = cached[s]
                              /\ cached[s] \in FileRecords /\ FileSound(s, cached[s], image, mixed)
    BY <1>2 DEF StructuralInv, StructuralShape
  <2>3. cached' \in [CacheFiles -> FileRecords]
    BY <1>2, FileKinds DEF StructuralInv, StructuralShape
  <2> QED
    BY <2>1, <2>2, <2>3
<1>4. data' \in [ImageContents -> Images0] /\ DataSound(data', mixed)
  BY <1>2 DEF StructuralInv, StructuralShape, DataSound, Images0
<1> DEFINE r == [builder[b] EXCEPT !.pc = "idle", !.slot = Memo]
<1>5. builder' = [builder EXCEPT ![b] = r] /\ UNCHANGED <<image, mixed, failures, leftover>>
  BY DEF PruneLru
<1>6. \A n \in BuildRecords : LET q == [n EXCEPT !.pc = "idle", !.slot = Memo]
        IN  /\ q \in BuildRecords /\ q.pc = "idle" /\ q.sha256 = n.sha256 /\ q.built = n.built
            /\ q.aside = n.aside
  BY Places DEF BuildRecords, BuildPcs
<1>7. /\ r \in BuildRecords /\ r.pc = "idle" /\ r.sha256 = builder[b].sha256
      /\ r.built = builder[b].built /\ r.aside = builder[b].aside
  BY <1>1, <1>6
<1> HIDE DEF r
<1>8. BuilderSound(r, image, mixed)
  BY <1>1, <1>7 DEF BuilderSound, OwnResult, StorePcs, DataPcs
<1> QED
  BY <1>3, <1>4, <1>5, <1>7, <1>8, BuilderChanges

LEMMA StartDeepSound ==
  ASSUME StructuralInv, NEW b \in Builders, StartDeep(b)
  PROVE  StructuralInv'
<1>1. /\ builder[b] \in BuildRecords /\ BuilderSound(builder[b], image, mixed)
      /\ builder[b].pc = "idle" /\ builder[b].sha256 # NoImage
      /\ UNCHANGED <<image, mixed, cached, data, failures, leftover>>
  BY DEF StructuralInv, StructuralShape, StartDeep, Reached
<1>2. builder[b].sha256 \in ImageContents /\ builder[b].sha256 \in Images0
  BY <1>1 DEF BuilderSound, OwnResult, Images0
<1> DEFINE r == [NoBuild EXCEPT !.pc = "look", !.kind = "deep", !.sha256 = builder[b].sha256]
<1>3. builder' = [builder EXCEPT ![b] = r]
  BY DEF StartDeep
<1>4. \A n \in BuildRecords, x \in Images0 :
        LET q == [n EXCEPT !.pc = "look", !.kind = "deep", !.sha256 = x]
        IN  q \in BuildRecords /\ q.pc = "look" /\ q.sha256 = x /\ q.aside = n.aside
  BY DEF BuildRecords, BuildPcs
<1>5. r \in BuildRecords /\ r.pc = "look" /\ r.sha256 = builder[b].sha256 /\ r.aside = Missing
  BY <1>2, <1>4, NoBuildIs
<1> HIDE DEF r
<1>6. BuilderSound(r, image, mixed)
  BY <1>1, <1>2, <1>5 DEF BuilderSound, StorePcs, DataPcs
<1> QED
  BY <1>1, <1>3, <1>5, <1>6, CallOnly

LEMMA LetGoSound ==
  ASSUME StructuralInv, NEW b \in Builders, LetGo(b)
  PROVE  StructuralInv'
<1>1. builder' = [builder EXCEPT ![b] = NoBuild] /\ UNCHANGED <<image, mixed, cached, data, failures, leftover>>
  BY DEF LetGo
<1> QED
  BY <1>1, NoBuildIs, NoBuildSound, CallOnly

----------------------------------------------------------------------------
(* A new image has a stamp no memo carries, and marks every hash that is   *)
(* in use.                                                                 *)
LEMMA ReplaceImageSound ==
  ASSUME StructuralInv, NEW y \in ImageContents, ReplaceImage(y)
  PROVE  StructuralInv'
<1>1. /\ image' = [content |-> y, stamp |-> image.stamp + 1] /\ image.stamp < MaxImageChanges
      /\ mixed' = mixed \cup Held /\ UNCHANGED <<cached, data, builder, failures, leftover>>
  BY DEF ReplaceImage
<1>2. image.stamp \in Nat /\ \A n \in Stamps : n \in Nat
  BY StructuralAssumption DEF StructuralInv, StructuralShape, Stamps
<1>3. /\ image' \in [content : ImageContents, stamp : Stamps] /\ image'.content = y
      /\ image'.stamp = image.stamp + 1
  BY <1>1, <1>2, StructuralAssumption DEF Stamps
<1>4. mixed' \subseteq ImageContents /\ mixed \subseteq mixed'
      /\ \A b \in Builders : builder[b].sha256 # NoImage => builder[b].sha256 \in mixed'
  <2>1. \A b \in Builders : builder[b].sha256 \in Images0
    BY DEF StructuralInv, StructuralShape, BuildRecords
  <2>2. Held \subseteq ImageContents
    BY <2>1 DEF Held, Images0
  <2> QED
    BY <1>1, <2>2 DEF Held, StructuralInv, StructuralShape
<1>5. ASSUME NEW s \in CacheFiles, NEW f \in FileRecords, FileSound(s, f, image, mixed)
      PROVE  FileSound(s, f, image', mixed')
  <2>1. f.stamp \in Nat
    BY <1>2 DEF FileRecords
  <2> QED
    BY <1>2, <1>3, <1>4, <1>5, <2>1 DEF FileSound
<1>6. \A s \in CacheFiles : FileSound(s, cached'[s], image', mixed')
  BY <1>1, <1>5 DEF StructuralInv, StructuralShape
<1>7. DataSound(data', mixed')
  BY <1>1, <1>4 DEF StructuralInv, DataSound
<1>8. ASSUME NEW b \in Builders PROVE BuilderSound(builder[b], image', mixed')
  <2>1. builder[b] \in BuildRecords /\ BuilderSound(builder[b], image, mixed)
    BY DEF StructuralInv, StructuralShape
  <2>2. builder[b].read \in Nat /\ builder[b].slot \in CacheFiles /\ builder[b].aside \in FileRecords
    BY <1>2, <2>1 DEF BuildRecords
  <2>3. builder[b].pc = "install" => FileSound(builder[b].slot, builder[b].aside, image', mixed')
    BY <1>5, <2>1, <2>2 DEF BuilderSound
  <2>4. OwnResult(builder[b], mixed) => OwnResult(builder[b], mixed')
    BY <1>4 DEF OwnResult
  <2>5. builder[b].read <= image.stamp =>
          builder[b].read <= image'.stamp /\ builder[b].read # image'.stamp
    BY <1>2, <1>3, <2>2
  <2> QED
    BY <1>4, <2>1, <2>3, <2>4, <2>5 DEF BuilderSound
<1>9. /\ cached' \in [CacheFiles -> FileRecords] /\ data' \in [ImageContents -> Images0]
      /\ builder' \in [Builders -> BuildRecords] /\ failures' \in Nat /\ NoLeftovers'
  BY <1>1 DEF StructuralInv, StructuralShape, NoLeftovers
<1>10. StructuralShape'
  BY <1>3, <1>4, <1>9 DEF StructuralShape
<1>11. (\A s \in CacheFiles : FileSound(s, cached[s], image, mixed))'
  BY <1>6 DEF FileSound
<1>12. (\A b \in Builders : BuilderSound(builder[b], image, mixed))'
  BY <1>1, <1>8 DEF BuilderSound, OwnResult, FileSound
<1>13. DataSound(data, mixed)'
  BY <1>7 DEF DataSound
<1> QED
  BY <1>9, <1>10, <1>11, <1>12, <1>13 DEF StructuralInv

LEMMA DisasterSound ==
  ASSUME StructuralInv, StructuralCrash \/ \E s \in CacheFiles : DamageFile(s)
  PROVE  StructuralInv'
<1>1. UNCHANGED <<image, data, mixed>> /\ failures' = failures + 1
  BY DEF StructuralCrash, DamageFile
<1>2. failures' \in Nat /\ NoLeftovers'
  BY <1>1 DEF StructuralInv, StructuralShape, NoLeftovers
<1>3. /\ cached' \in [CacheFiles -> FileRecords]
      /\ \A s \in CacheFiles : FileSound(s, cached'[s], image, mixed)
  <2>1. CASE UNCHANGED cached
    BY <2>1 DEF StructuralInv, StructuralShape
  <2>2. ASSUME NEW s \in CacheFiles, DamageFile(s)
        PROVE  /\ cached' \in [CacheFiles -> FileRecords]
               /\ \A u \in CacheFiles : FileSound(u, cached'[u], image, mixed)
    <3>1. FileSound(s, Corrupt, image, mixed)
      BY FileKinds DEF FileSound
    <3>2. cached' = [cached EXCEPT ![s] = Corrupt]
      BY <2>2 DEF DamageFile
    <3> QED
      BY <3>1, <3>2, FileKinds, OneFile
  <2> QED
    BY <2>1, <2>2 DEF StructuralCrash
<1>4. /\ builder' \in [Builders -> BuildRecords]
      /\ \A b \in Builders : BuilderSound(builder'[b], image, mixed)
  <2>1. builder' = builder \/ builder' = [b \in Builders |-> NoBuild]
    BY DEF StructuralCrash, DamageFile
  <2> QED
    BY <2>1, NoBuildIs, NoBuildSound DEF StructuralInv, StructuralShape
<1>5. StructuralShape'
  BY <1>1, <1>2, <1>3, <1>4 DEF StructuralInv, StructuralShape
<1>6. (\A s \in CacheFiles : FileSound(s, cached[s], image, mixed))'
  BY <1>1, <1>3 DEF FileSound
<1>7. (\A b \in Builders : BuilderSound(builder[b], image, mixed))'
  BY <1>1, <1>4 DEF BuilderSound, OwnResult, FileSound
<1>8. DataSound(data, mixed)'
  BY <1>1 DEF StructuralInv, DataSound
<1> QED
  BY <1>2, <1>5, <1>6, <1>7, <1>8 DEF StructuralInv

LEMMA StructuralStart == StructuralInit => StructuralInv
<1> SUFFICES ASSUME StructuralInit PROVE StructuralInv
  OBVIOUS
<1>1. StructuralShape
  <2>1. 0 \in Stamps /\ NoImage \in Images0
    BY StructuralAssumption DEF Stamps, Images0
  <2>2. image \in [content : ImageContents, stamp : Stamps]
    BY <2>1 DEF StructuralInit
  <2> QED
    BY <2>1, <2>2, FileKinds, NoBuildIs DEF StructuralInit, StructuralShape
<1>2. \A s \in CacheFiles : FileSound(s, cached[s], image, mixed)
  BY FileKinds DEF StructuralInit, FileSound
<1>3. DataSound(data, mixed) /\ NoLeftovers
  BY DEF StructuralInit, DataSound, NoLeftovers
<1>4. \A b \in Builders : BuilderSound(builder[b], image, mixed)
  BY NoBuildSound DEF StructuralInit
<1> QED
  BY <1>1, <1>2, <1>3, <1>4 DEF StructuralInv

LEMMA StructuralSteps == StructuralInv /\ [StructuralNext]_structuralVars => StructuralInv'
<1> SUFFICES ASSUME StructuralInv, [StructuralNext]_structuralVars PROVE StructuralInv'
  OBVIOUS
<1>1. ASSUME NEW b \in Builders, BuilderStep(b) PROVE StructuralInv'
  BY <1>1, StatPathSound, HashPathSound, LookInCacheSound, BuildPartitionSound, WriteTemporarySound,
     QuarantineSound, InstallSound, CleanupSound, DataExistsSound, DataSteps, PruneLruSound,
     StartDeepSound, LetGoSound DEF BuilderStep
<1>2. CASE UNCHANGED structuralVars
  <2>1. UNCHANGED <<image, cached, data, builder, failures, leftover, mixed>>
    BY <1>2 DEF structuralVars
  <2> QED
    BY <2>1 DEF StructuralInv, StructuralShape, NoLeftovers, DataSound, BuilderSound, OwnResult, FileSound
<1> QED
  BY <1>1, <1>2, ReplaceImageSound, DisasterSound DEF StructuralNext

(* What a partition, a data file, an answer and the memo say is of the     *)
(* image they go by, through races of stores, replacements, crashes and    *)
(* damaged files (structural_cache.rs, catalog.rs, compact_index.rs); and  *)
(* nothing is left behind while nothing fails.                             *)
THEOREM StructuralCacheTruthful == StructuralSpec => [](CacheTruthful /\ NoLeftovers)
<1>1. StructuralInv => CacheTruthful /\ NoLeftovers
  <2> SUFFICES ASSUME StructuralInv PROVE PartitionsAddressed /\ MemoTruthful
    BY DEF CacheTruthful, StructuralInv
  <2>1. MemoTruthful
    BY Places DEF StructuralInv, FileSound, MemoTruthful
  <2>2. ASSUME NEW x \in ImageContents \ mixed, NEW k \in {"catalog", "deep"}, cached[<<k, x>>].intact
        PROVE  cached[<<k, x>>].of = x
    <3>1. /\ FileSound(<<k, x>>, cached[<<k, x>>], image, mixed)
          /\ <<k, x>> # Memo /\ <<k, x>>[2] = x
      BY Places DEF StructuralInv
    <3> QED
      BY <2>2, <3>1 DEF FileSound
  <2>3. \A x \in ImageContents \ mixed : data[x] \in {x, NoImage}
    BY DEF StructuralInv, DataSound
  <2>4. ASSUME NEW x \in ImageContents \ mixed, NEW b \in Builders,
               builder[b].pc = "idle", builder[b].sha256 = x
        PROVE  builder[b].built = x
    BY <2>4, StructuralAssumption DEF StructuralInv, BuilderSound, OwnResult
  <2> QED
    BY <2>1, <2>2, <2>3, <2>4 DEF PartitionsAddressed, Reached
<1> QED
  BY <1>1, StructuralStart, StructuralSteps, PTL DEF StructuralSpec

----------------------------------------------------------------------------
(* The walk of a stack.                                                    *)

WalkRecords == [phase : {"idle", "fp_chain", "sp_scan", "done"}, addr : 0..TOP,
                max : 0..(MAX_FRAMES_HARD - 1), slots : Nat, frames : Seq(0..TOP),
                died : {"none", "depth_cap", "broken_fp", "missing_memory", "done"}]

Climbing(s) == \A i \in 1..(Len(s) - 1) : s[i] < s[i + 1] \/ s[i] = TOP

(* The next frame will lie above the last one: a chain has moved up since, *)
(* and a scan stands on the last frame or above it.                        *)
LastBelow(w) ==
  LET f == w.frames[Len(w.frames)]
  IN  w.frames # <<>> =>
        /\ w.phase = "fp_chain" => f = TOP \/ f < w.addr + 2 * PtrSize
        /\ w.phase = "sp_scan" => f <= w.addr

WalkInv == /\ walk \in WalkRecords
           /\ Len(walk.frames) <= walk.max
           /\ Climbing(walk.frames)
           /\ LastBelow(walk)

LEMMA FramePushed ==
  ASSUME NEW s \in Seq(0..TOP), Climbing(s), NEW x \in 0..TOP,
         s # <<>> => s[Len(s)] < x \/ s[Len(s)] = TOP
  PROVE  LET t == Append(s, x)
         IN  /\ t \in Seq(0..TOP) /\ Climbing(t) /\ Len(t) = Len(s) + 1
             /\ t # <<>> /\ t[Len(t)] = x
<1> DEFINE t == Append(s, x)
<1>1. /\ t \in Seq(0..TOP) /\ Len(t) = Len(s) + 1 /\ Len(s) \in Nat
      /\ t[Len(s) + 1] = x /\ \A i \in 1..Len(s) : t[i] = s[i]
  BY AppendProperties
<1> HIDE DEF t
<1>2. ASSUME NEW i \in 1..(Len(t) - 1) PROVE t[i] < t[i + 1] \/ t[i] = TOP
  <2>1. i \in 1..Len(s) /\ t[i] = s[i]
    BY <1>1
  <2>2. CASE i = Len(s)
    <3>1. s # <<>>
      BY <2>1
    <3> QED
      BY <1>1, <2>1, <2>2, <3>1
  <2>3. CASE i # Len(s)
    <3>1. i \in 1..(Len(s) - 1) /\ i + 1 \in 1..Len(s)
      BY <1>1, <2>1, <2>3
    <3> QED
      BY <1>1, <2>1, <3>1 DEF Climbing
  <2> QED
    BY <2>2, <2>3
<1>3. t # <<>>
  BY <1>1
<1> QED
  BY <1>1, <1>2, <1>3 DEF Climbing, t

LEMMA WalkFields ==
  ASSUME NEW w \in WalkRecords
  PROVE  /\ w.addr \in 0..TOP /\ w.addr \in Nat /\ TOP \in Nat /\ PtrSize \in Nat /\ PtrSize > 0
         /\ w.max \in 0..(MAX_FRAMES_HARD - 1)
         /\ w.max \in Nat /\ w.frames \in Seq(0..TOP) /\ Len(w.frames) \in Nat
         /\ w.frames # <<>> => /\ w.frames[Len(w.frames)] \in 0..TOP
                               /\ w.frames[Len(w.frames)] \in Nat
<1>1. TOP \in Nat /\ PtrSize \in Nat /\ PtrSize > 0 /\ MAX_FRAMES_HARD \in Nat \ {0}
  BY DumpAssumption
<1>2. w.addr \in 0..TOP /\ w.max \in 0..(MAX_FRAMES_HARD - 1) /\ w.frames \in Seq(0..TOP)
  BY DEF WalkRecords
<1>3. Len(w.frames) \in Nat /\ (w.frames # <<>> => Len(w.frames) \in 1..Len(w.frames))
  BY <1>2, EmptySeq
<1>4. w.frames # <<>> => w.frames[Len(w.frames)] \in 0..TOP
  BY <1>2, <1>3, ElementOfSeq
<1> QED
  BY <1>1, <1>2, <1>3, <1>4

LEMMA SaturatedIs ==
  ASSUME NEW n \in Nat
  PROVE  /\ Saturated(n) \in 0..TOP /\ Saturated(n) <= n
         /\ Saturated(n) = TOP \/ Saturated(n) = n
         /\ Saturated(n) = TOP => n >= TOP
  BY DumpAssumption DEF Saturated

LEMMA WalkStart == DumpInit => WalkInv
<1> SUFFICES ASSUME DumpInit PROVE WalkInv
  OBVIOUS
<1>1. walk = NotWalking /\ 0 \in 0..TOP /\ 0 \in 0..(MAX_FRAMES_HARD - 1)
  BY DumpAssumption DEF DumpInit
<1>2. <<>> \in Seq(0..TOP) /\ Len(<<>>) = 0
  OBVIOUS
<1>3. /\ walk \in WalkRecords /\ walk.frames = <<>> /\ walk.max = 0
  BY <1>1, <1>2 DEF NotWalking, WalkRecords
<1> QED
  BY <1>2, <1>3 DEF WalkInv, Climbing, LastBelow

(* A walk that ends keeps its frames. *)
LEMMA WalkDies ==
  ASSUME WalkInv, NEW reason \in {"none", "depth_cap", "broken_fp", "missing_memory", "done"},
         walk' = Died(reason)
  PROVE  WalkInv'
<1>1. /\ walk' \in WalkRecords /\ walk'.phase = "done" /\ walk'.frames = walk.frames
      /\ walk'.max = walk.max
  <2>1. \A w \in WalkRecords : LET q == [w EXCEPT !.phase = "done", !.died = reason]
          IN  q \in WalkRecords /\ q.phase = "done" /\ q.frames = w.frames /\ q.max = w.max
    BY DEF WalkRecords
  <2> QED
    BY <2>1 DEF WalkInv, Died
<1> QED
  BY <1>1 DEF WalkInv, Climbing, LastBelow

LEMMA StartWalkClimbs ==
  ASSUME WalkInv, NEW fp \in 0..TOP, NEW sp \in 0..TOP, NEW maxFrames \in 0..(MAX_FRAMES_HARD + 1),
         StartWalk(fp, sp, maxFrames)
  PROVE  WalkInv'
<1> DEFINE m == Greatest(1, Least(maxFrames, MAX_FRAMES_HARD)) - 1
<1>1. m \in 0..(MAX_FRAMES_HARD - 1)
  BY DumpAssumption DEF Greatest, Least
<1> HIDE DEF m
<1>2. PICK ph \in {"fp_chain", "sp_scan"}, at \in 0..TOP :
        walk' = [NotWalking EXCEPT !.phase = ph, !.addr = at, !.max = m]
  <2>1. CASE fp >= sp /\ Readable(fp)
    BY <2>1 DEF StartWalk, m
  <2>2. CASE ~(fp >= sp /\ Readable(fp))
    BY <2>2 DEF StartWalk, m
  <2> QED
    BY <2>1, <2>2
<1>3. NotWalking \in WalkRecords /\ NotWalking.frames = <<>>
  <2>1. 0 \in 0..TOP /\ 0 \in 0..(MAX_FRAMES_HARD - 1) /\ <<>> \in Seq(0..TOP)
    BY DumpAssumption
  <2> QED
    BY <2>1 DEF NotWalking, WalkRecords
<1>4. \A w \in WalkRecords : LET q == [w EXCEPT !.phase = ph, !.addr = at, !.max = m]
        IN  q \in WalkRecords /\ q.frames = w.frames /\ q.max = m
  BY <1>1 DEF WalkRecords
<1>5. walk' \in WalkRecords /\ walk'.frames = <<>> /\ walk'.max = m
  BY <1>2, <1>3, <1>4
<1>6. Len(<<>>) = 0 /\ 0 <= m
  BY <1>1
<1> QED
  BY <1>5, <1>6 DEF WalkInv, Climbing, LastBelow

(* The chain pushes a frame above all others, and goes on only upwards. *)
LEMMA FpStepClimbs ==
  ASSUME WalkInv, NEW savedFp \in 0..TOP, NEW ret \in 0..1, FpStep(savedFp, ret)
  PROVE  WalkInv'
<1> DEFINE x == Saturated(walk.addr + 2 * PtrSize)
           pushed == Append(walk.frames, x)
<1>1. walk \in WalkRecords /\ walk.phase = "fp_chain" /\ Len(walk.frames) < walk.max
      /\ Climbing(walk.frames) /\ LastBelow(walk)
  BY DEF WalkInv, FpStep
<1>2. /\ walk.addr \in 0..TOP /\ walk.addr \in Nat /\ TOP \in Nat /\ PtrSize \in Nat /\ PtrSize > 0
      /\ walk.max \in Nat /\ walk.frames \in Seq(0..TOP) /\ Len(walk.frames) \in Nat
      /\ walk.frames # <<>> => /\ walk.frames[Len(walk.frames)] \in 0..TOP
                               /\ walk.frames[Len(walk.frames)] \in Nat
  BY <1>1, WalkFields
<1>3. x \in 0..TOP /\ x <= walk.addr + 2 * PtrSize /\ (x = TOP \/ x = walk.addr + 2 * PtrSize)
  <2>1. walk.addr + 2 * PtrSize \in Nat
    BY <1>2
  <2> QED
    BY <2>1, SaturatedIs
<1> HIDE DEF x
<1>4. walk.frames # <<>> => walk.frames[Len(walk.frames)] < x \/ walk.frames[Len(walk.frames)] = TOP
  <2> SUFFICES ASSUME walk.frames # <<>>
               PROVE  walk.frames[Len(walk.frames)] < x \/ walk.frames[Len(walk.frames)] = TOP
    OBVIOUS
  <2>1. walk.frames[Len(walk.frames)] = TOP \/ walk.frames[Len(walk.frames)] < walk.addr + 2 * PtrSize
    BY <1>1 DEF LastBelow
  <2> QED
    BY <1>2, <1>3, <2>1
<1>5. /\ pushed \in Seq(0..TOP) /\ Climbing(pushed) /\ Len(pushed) = Len(walk.frames) + 1
      /\ pushed # <<>> /\ pushed[Len(pushed)] = x
  BY <1>1, <1>2, <1>3, <1>4, FramePushed
<1> HIDE DEF pushed
<1>6. Len(pushed) <= walk.max
  BY <1>1, <1>2, <1>5
<1>7. CASE \E reason \in {"missing_memory", "done"} : walk' = Died(reason)
  BY <1>7, WalkDies
<1>8. CASE walk' = [Died("broken_fp") EXCEPT !.frames = pushed]
  <2>1. \A w \in WalkRecords :
          LET q == [[w EXCEPT !.phase = "done", !.died = "broken_fp"] EXCEPT !.frames = pushed]
          IN  q \in WalkRecords /\ q.phase = "done" /\ q.frames = pushed /\ q.max = w.max
    BY <1>5 DEF WalkRecords
  <2>2. walk' \in WalkRecords /\ walk'.phase = "done" /\ walk'.frames = pushed /\ walk'.max = walk.max
    BY <1>1, <1>8, <2>1 DEF Died
  <2> QED
    BY <1>5, <1>6, <2>2 DEF WalkInv, Climbing, LastBelow
<1>9. CASE savedFp > walk.addr /\ walk' = [walk EXCEPT !.frames = pushed, !.addr = savedFp]
  <2>1. \A w \in WalkRecords : LET q == [w EXCEPT !.frames = pushed, !.addr = savedFp]
          IN  /\ q \in WalkRecords /\ q.phase = w.phase /\ q.frames = pushed /\ q.max = w.max
              /\ q.addr = savedFp
    BY <1>5 DEF WalkRecords
  <2>2. /\ walk' \in WalkRecords /\ walk'.phase = "fp_chain" /\ walk'.frames = pushed
        /\ walk'.max = walk.max /\ walk'.addr = savedFp
    BY <1>1, <1>9, <2>1
  <2>3. x < savedFp + 2 * PtrSize
    BY <1>2, <1>3, <1>9
  <2> QED
    BY <1>5, <1>6, <2>2, <2>3 DEF WalkInv, Climbing, LastBelow
<1> QED
  BY <1>7, <1>8, <1>9 DEF FpStep, GoesUp, pushed, x

(* The scan shows the slot above the value it found. *)
LEMMA ScanStepClimbs ==
  ASSUME WalkInv, NEW isReturn \in BOOLEAN, ScanStep(isReturn)
  PROVE  WalkInv'
<1> DEFINE x == Saturated(walk.addr + PtrSize)
           pushed == Append(walk.frames, x)
<1>1. walk \in WalkRecords /\ walk.phase = "sp_scan" /\ Len(walk.frames) < walk.max
      /\ Climbing(walk.frames) /\ LastBelow(walk)
  BY DEF WalkInv, ScanStep
<1>2. /\ walk.addr \in 0..TOP /\ walk.addr \in Nat /\ TOP \in Nat /\ PtrSize \in Nat /\ PtrSize > 0
      /\ walk.max \in Nat /\ walk.frames \in Seq(0..TOP) /\ Len(walk.frames) \in Nat
      /\ walk.frames # <<>> => /\ walk.frames[Len(walk.frames)] \in 0..TOP
                               /\ walk.frames[Len(walk.frames)] \in Nat
  BY <1>1, WalkFields
<1>3. x \in 0..TOP /\ x >= walk.addr /\ (x = TOP \/ x > walk.addr)
  <2>1. walk.addr + PtrSize \in Nat
    BY <1>2
  <2>2. x \in 0..TOP /\ (x = TOP \/ x = walk.addr + PtrSize)
    BY <2>1, SaturatedIs
  <2> QED
    BY <1>2, <2>2
<1> HIDE DEF x
<1>4. walk.frames # <<>> => /\ walk.frames[Len(walk.frames)] <= x
                            /\ walk.frames[Len(walk.frames)] < x \/ walk.frames[Len(walk.frames)] = TOP
  <2> SUFFICES ASSUME walk.frames # <<>>
               PROVE  /\ walk.frames[Len(walk.frames)] <= x
                      /\ walk.frames[Len(walk.frames)] < x \/ walk.frames[Len(walk.frames)] = TOP
    OBVIOUS
  <2>1. walk.frames[Len(walk.frames)] <= walk.addr
    BY <1>1 DEF LastBelow
  <2> QED
    BY <1>2, <1>3, <2>1
<1>5. /\ pushed \in Seq(0..TOP) /\ Climbing(pushed) /\ Len(pushed) = Len(walk.frames) + 1
      /\ pushed # <<>> /\ pushed[Len(pushed)] = x
  BY <1>1, <1>2, <1>3, <1>4, FramePushed
<1> HIDE DEF pushed
<1>6. PICK fr \in {pushed, walk.frames} : walk' = [walk EXCEPT !.slots = @ + 1, !.addr = x, !.frames = fr]
  BY DEF ScanStep, x, pushed
<1>7. \A w \in WalkRecords : LET q == [w EXCEPT !.slots = @ + 1, !.addr = x, !.frames = fr]
        IN  q \in WalkRecords /\ q.phase = w.phase /\ q.frames = fr /\ q.max = w.max /\ q.addr = x
  <2>1. fr \in Seq(0..TOP)
    BY <1>2, <1>5
  <2>2. \A w \in WalkRecords : w.slots + 1 \in Nat
    BY DEF WalkRecords
  <2> QED
    BY <1>3, <2>1, <2>2 DEF WalkRecords
<1>8. /\ walk' \in WalkRecords /\ walk'.phase = "sp_scan" /\ walk'.frames = fr
      /\ walk'.max = walk.max /\ walk'.addr = x
  BY <1>1, <1>6, <1>7
<1>9. Len(fr) <= walk.max /\ Climbing(fr) /\ (fr # <<>> => fr[Len(fr)] <= x)
  <2>1. x <= x
    BY <1>2, <1>3
  <2> QED
    BY <1>1, <1>2, <1>4, <1>5, <2>1
<1> QED
  BY <1>8, <1>9 DEF WalkInv, Climbing, LastBelow

LEMMA WalkSteps == WalkInv /\ [DumpNext]_dumpVars => WalkInv'
<1> SUFFICES ASSUME WalkInv, [DumpNext]_dumpVars PROVE WalkInv'
  OBVIOUS
<1>1. CASE UNCHANGED walk
  BY <1>1 DEF WalkInv, Climbing, LastBelow
<1>2. CASE FpDepthCap \/ ScanEnds
  BY <1>2, WalkDies DEF FpDepthCap, ScanEnds
<1>3. ASSUME NEW base \in 0..TOP, NEW size \in 1..TOP, Extract(base, size) PROVE WalkInv'
  BY <1>1, <1>3 DEF Extract
<1> QED
  BY <1>1, <1>2, <1>3, StartWalkClimbs, FpStepClimbs, ScanStepClimbs DEF DumpNext, dumpVars

(* walk_fp_chain and walk_sp_scan: whatever a stack holds, the frames lie  *)
(* one above the other, and there are no more than were asked for.         *)
THEOREM WalksClimb == DumpSpec => []FramesClimb
<1>1. WalkInv => FramesClimb
  <2> SUFFICES ASSUME WalkInv PROVE FramesClimb
    OBVIOUS
  <2>1. walk.max \in 0..(MAX_FRAMES_HARD - 1) /\ MAX_FRAMES_HARD \in Nat
    BY WalkFields, DumpAssumption DEF WalkInv
  <2>2. Least(walk.max, MAX_FRAMES_HARD - 1) = walk.max
    BY <2>1 DEF Least
  <2> QED
    BY <2>2 DEF WalkInv, FramesClimb, Climbing
<1> QED
  BY <1>1, WalkStart, WalkSteps, PTL DEF DumpSpec

----------------------------------------------------------------------------
(* The memory map of a dump and the module images put together from it.    *)
(* The merge keeps the regions in order and their bytes in place; so the   *)
(* search finds the one region that has an address, the copies write each  *)
(* offset at most once, and the lengths added up count the offsets.        *)

(* The region r has the byte at va; where the file keeps it. *)
HasByte(r, va) == r.va <= va /\ va < End(r)
Place(r, va)   == r.data + (va - r.va)

(* The fields of a region, and its end. *)
LEMMA RegionIs ==
  ASSUME NEW r \in RegionRecords
  PROVE  /\ r.va \in 0..TOP /\ r.size \in 0..TOP /\ r.data \in Nat /\ TOP \in Nat
         /\ r.va \in Nat /\ r.size \in Nat
         /\ End(r) \in 0..TOP /\ End(r) \in Nat /\ r.va <= End(r) /\ End(r) <= r.va + r.size
         /\ End(r) = TOP \/ End(r) = r.va + r.size
         /\ End(r) = TOP => r.va + r.size >= TOP
<1>1. TOP \in Nat
  BY DumpAssumption
<1>2. r.va \in 0..TOP /\ r.size \in 0..TOP /\ r.data \in Nat
  BY DEF RegionRecords
<1> QED
  BY <1>1, <1>2 DEF End, Saturated

(* A region that took in the one that follows it has the bytes of both. *)
LEMMA GrownIs ==
  ASSUME NEW cur \in RegionRecords, NEW next \in RegionRecords, Follows(cur, next)
  PROVE  /\ Grown(cur, next) \in RegionRecords
         /\ Grown(cur, next).va = cur.va /\ End(Grown(cur, next)) = End(next)
         /\ \A va \in Nat :
              /\ HasByte(Grown(cur, next), va) <=> HasByte(cur, va) \/ HasByte(next, va)
              /\ Place(Grown(cur, next), va) = Place(cur, va)
              /\ HasByte(next, va) => Place(cur, va) = Place(next, va)
<1>1. PICK g : g = Grown(cur, next)
  OBVIOUS
<1>2. /\ cur.va \in Nat /\ cur.size \in 0..TOP /\ cur.data \in Nat /\ TOP \in Nat
      /\ cur.va \in 0..TOP /\ next.va \in 0..TOP
      /\ next.va \in Nat /\ next.size \in 0..TOP /\ next.data \in Nat
  BY RegionIs
<1>3. next.va = End(cur) /\ next.data = cur.data + cur.size
  BY DEF Follows
<1>4. Saturated(cur.size + next.size) \in 0..TOP
  BY <1>2 DEF Saturated
<1>5. /\ g \in RegionRecords /\ g.va = cur.va /\ g.size = Saturated(cur.size + next.size)
      /\ g.data = cur.data
  BY <1>1, <1>4 DEF Grown, RegionRecords
<1>6. End(g) = End(next)
  BY <1>2, <1>3, <1>5 DEF End, Saturated
<1>7. ASSUME NEW va \in Nat
      PROVE  /\ HasByte(g, va) <=> HasByte(cur, va) \/ HasByte(next, va)
             /\ Place(g, va) = Place(cur, va)
             /\ HasByte(next, va) => Place(cur, va) = Place(next, va)
  <2>1. End(cur) \in Nat /\ End(next) \in Nat /\ cur.va <= End(cur) /\ next.va <= End(next)
    BY RegionIs
  <2>2. HasByte(g, va) <=> HasByte(cur, va) \/ HasByte(next, va)
    BY <1>2, <1>3, <1>5, <1>6, <2>1 DEF HasByte
  <2>3. Place(g, va) = Place(cur, va)
    BY <1>5 DEF Place
  <2>4. ASSUME HasByte(next, va) PROVE Place(cur, va) = Place(next, va)
    <3>1. next.va < TOP
      BY <1>2, <2>4, RegionIs DEF HasByte
    <3>2. next.va = cur.va + cur.size
      BY <1>2, <1>3, <3>1 DEF End, Saturated
    <3> QED
      BY <1>2, <1>3, <3>2 DEF Place
  <2> QED
    BY <2>2, <2>3, <2>4
<1> QED
  BY <1>1, <1>5, <1>6, <1>7

(* Regions in order, without overlap. *)
Lies(m) == /\ m \in Seq(RegionRecords)
           /\ \A i, j \in 1..Len(m) : i < j => End(m[i]) <= m[j].va

(* m has the bytes of the regions of L, at their places. *)
Maps(m, L) ==
  /\ \A i \in 1..Len(m), va \in Nat :
       HasByte(m[i], va) => \E r \in L : HasByte(r, va) /\ Place(m[i], va) = Place(r, va)
  /\ \A r \in L, va \in Nat : HasByte(r, va) => \E i \in 1..Len(m) : HasByte(m[i], va)

(* One step of merge_adjacent. *)
LEMMA JoinedMaps ==
  ASSUME NEW m, Lies(m), NEW next \in RegionRecords, \A i \in 1..Len(m) : End(m[i]) <= next.va,
         NEW L, Maps(m, L)
  PROVE  /\ Lies(Joined(m, next)) /\ Maps(Joined(m, next), L \cup {next})
         /\ \A i \in 1..Len(Joined(m, next)) : End(Joined(m, next)[i]) <= End(next)
<1>1. PICK j : j = Joined(m, next)
  OBVIOUS
<1>2. PICK n \in Nat : n = Len(m)
  BY DEF Lies
<1>3. m \in Seq(RegionRecords) /\ \A i \in 1..n : m[i] \in RegionRecords
  BY <1>2, ElementOfSeq DEF Lies
<1>4. /\ next.va \in Nat /\ End(next) \in Nat /\ next.va <= End(next)
      /\ \A i \in 1..n : m[i].va \in Nat /\ End(m[i]) \in Nat /\ m[i].va <= End(m[i])
  BY <1>3, RegionIs
<1>5. CASE m # <<>> /\ Follows(m[Len(m)], next)
  <2>1. n \in 1..n
    BY <1>2, <1>3, <1>5, EmptySeq
  <2>2. PICK cur \in RegionRecords : cur = m[n]
    BY <1>3, <2>1
  <2>3. PICK g : g = Grown(cur, next)
    OBVIOUS
  <2>4. /\ g \in RegionRecords /\ g.va = cur.va /\ End(g) = End(next)
        /\ \A va \in Nat : /\ HasByte(g, va) <=> HasByte(cur, va) \/ HasByte(next, va)
                           /\ Place(g, va) = Place(cur, va)
                           /\ HasByte(next, va) => Place(cur, va) = Place(next, va)
    BY <1>2, <1>5, <2>2, <2>3, GrownIs
  <2>5. j = [m EXCEPT ![n] = g]
    BY <1>1, <1>2, <1>5, <2>2, <2>3 DEF Joined
  <2>6. /\ j \in Seq(RegionRecords) /\ Len(j) = n /\ j[n] = g
        /\ \A i \in 1..n : i # n => j[i] = m[i]
    BY <1>2, <1>3, <2>1, <2>4, <2>5, ExceptSeq
  <2>7. Lies(j)
    <3>1. ASSUME NEW a \in 1..n, NEW b \in 1..n, a < b PROVE End(j[a]) <= j[b].va
      <4>1. a # n /\ End(m[a]) <= m[b].va
        BY <1>2, <3>1 DEF Lies
      <4>2. j[b].va = m[b].va
        BY <2>2, <2>4, <2>6
      <4> QED
        BY <2>6, <4>1, <4>2
    <3> QED
      BY <2>6, <3>1 DEF Lies
  <2>8. \A i \in 1..Len(j) : End(j[i]) <= End(next)
    <3>1. ASSUME NEW i \in 1..n PROVE End(j[i]) <= End(next)
      <4>1. CASE i = n
        BY <1>4, <2>4, <2>6, <4>1
      <4>2. CASE i # n
        BY <1>2, <1>4, <2>6, <4>2
      <4> QED
        BY <4>1, <4>2
    <3> QED
      BY <2>6, <3>1
  <2>9. ASSUME NEW i \in 1..n, NEW va \in Nat, HasByte(j[i], va)
        PROVE  \E r \in L \cup {next} : HasByte(r, va) /\ Place(j[i], va) = Place(r, va)
    <3>1. CASE i # n
      BY <1>2, <2>6, <2>9, <3>1 DEF Maps
    <3>2. CASE i = n
      <4>1. j[i] = g /\ (HasByte(cur, va) \/ HasByte(next, va)) /\ Place(g, va) = Place(cur, va)
        BY <2>4, <2>6, <2>9, <3>2
      <4>2. CASE HasByte(cur, va)
        <5>1. PICK r \in L : HasByte(r, va) /\ Place(cur, va) = Place(r, va)
          BY <1>2, <2>1, <2>2, <4>2 DEF Maps
        <5> QED
          BY <4>1, <5>1
      <4>3. CASE HasByte(next, va)
        BY <2>4, <4>1, <4>3
      <4> QED
        BY <4>1, <4>2, <4>3
    <3> QED
      BY <3>1, <3>2
  <2>10. ASSUME NEW r \in L \cup {next}, NEW va \in Nat, HasByte(r, va)
         PROVE  \E i \in 1..n : HasByte(j[i], va)
    <3>1. CASE r = next
      BY <2>1, <2>4, <2>6, <2>10, <3>1
    <3>2. CASE r \in L
      <4>1. PICK i \in 1..n : HasByte(m[i], va)
        BY <1>2, <2>10, <3>2 DEF Maps
      <4>2. HasByte(j[i], va)
        BY <2>2, <2>4, <2>6, <4>1
      <4> QED
        BY <4>2
    <3> QED
      BY <3>1, <3>2
  <2>11. Maps(j, L \cup {next})
    BY <2>6, <2>9, <2>10 DEF Maps
  <2> QED
    BY <1>1, <2>7, <2>8, <2>11
<1>6. CASE ~(m # <<>> /\ Follows(m[Len(m)], next))
  <2>1. j = Append(m, next)
    BY <1>1, <1>6 DEF Joined
  <2>2. /\ j \in Seq(RegionRecords) /\ Len(j) = n + 1 /\ j[n + 1] = next
        /\ \A i \in 1..n : j[i] = m[i]
    BY <1>2, <1>3, <2>1, AppendProperties
  <2>3. \A i \in 1..(n + 1) : i \in 1..n \/ i = n + 1
    OBVIOUS
  <2>4. n + 1 \in 1..(n + 1) /\ \A i \in 1..n : i \in 1..(n + 1)
    OBVIOUS
  <2>5. Lies(j)
    <3>1. ASSUME NEW a \in 1..(n + 1), NEW b \in 1..(n + 1), a < b PROVE End(j[a]) <= j[b].va
      <4>1. a \in 1..n /\ j[a] = m[a]
        BY <2>2, <3>1
      <4>2. CASE b = n + 1
        BY <1>2, <2>2, <4>1, <4>2
      <4>3. CASE b \in 1..n
        BY <1>2, <2>2, <3>1, <4>1, <4>3 DEF Lies
      <4> QED
        BY <2>3, <4>2, <4>3
    <3> QED
      BY <2>2, <3>1 DEF Lies
  <2>6. \A i \in 1..Len(j) : End(j[i]) <= End(next)
    <3>1. ASSUME NEW i \in 1..(n + 1) PROVE End(j[i]) <= End(next)
      <4>1. CASE i = n + 1
        BY <1>4, <2>2, <4>1
      <4>2. CASE i \in 1..n
        BY <1>2, <1>4, <2>2, <4>2
      <4> QED
        BY <2>3, <4>1, <4>2
    <3> QED
      BY <2>2, <3>1
  <2>7. ASSUME NEW i \in 1..(n + 1), NEW va \in Nat, HasByte(j[i], va)
        PROVE  \E r \in L \cup {next} : HasByte(r, va) /\ Place(j[i], va) = Place(r, va)
    <3>1. CASE i \in 1..n
      <4>1. PICK r \in L : HasByte(r, va) /\ Place(m[i], va) = Place(r, va)
        BY <1>2, <2>2, <2>7, <3>1 DEF Maps
      <4> QED
        BY <2>2, <3>1, <4>1
    <3>2. CASE i = n + 1
      BY <2>2, <2>7, <3>2
    <3> QED
      BY <2>3, <3>1, <3>2
  <2>8. ASSUME NEW r \in L \cup {next}, NEW va \in Nat, HasByte(r, va)
        PROVE  \E i \in 1..(n + 1) : HasByte(j[i], va)
    <3>1. CASE r = next
      BY <2>2, <2>4, <2>8, <3>1
    <3>2. CASE r \in L
      <4>1. PICK i \in 1..n : HasByte(m[i], va)
        BY <1>2, <2>8, <3>2 DEF Maps
      <4> QED
        BY <2>2, <2>4, <4>1
    <3> QED
      BY <3>1, <3>2
  <2>9. Maps(j, L \cup {next})
    BY <2>2, <2>7, <2>8 DEF Maps
  <2> QED
    BY <1>1, <2>5, <2>6, <2>9
<1> QED
  BY <1>5, <1>6

(* The recursive definition of MergedUpTo has a solution. *)
LEMMA MergedDefined ==
  ASSUME NEW S, NEW s \in Seq(S)
  PROVE  /\ MergedUpTo(s)[0] = <<>>
         /\ \A i \in 1..Len(s) : MergedUpTo(s)[i] = Joined(MergedUpTo(s)[i - 1], s[i])
<1>0. PICK none : none = <<>>
  OBVIOUS
<1> DEFINE Solves(f, n) ==
             f = [i \in 0..n |-> IF i = 0 THEN none ELSE Joined(f[i - 1], s[i])]
           Good == {n \in Nat : \E f : Solves(f, n)}
<1>1. 0 \in Good
  <2> DEFINE f == [i \in 0..0 |-> none]
  <2>1. Solves(f, 0)
    OBVIOUS
  <2> QED
    BY <2>1
<1>2. ASSUME NEW n \in Nat, n \in Good PROVE n + 1 \in Good
  <2>1. PICK f : Solves(f, n)
    BY <1>2
  <2> DEFINE last == Joined(f[n], s[n + 1])
             g == [i \in 0..(n + 1) |-> IF i = n + 1 THEN last ELSE f[i]]
  <2>2. \A i \in 0..n : f[i] = IF i = 0 THEN none ELSE Joined(f[i - 1], s[i])
    BY <2>1
  <2>3. /\ g[n + 1] = last /\ \A i \in 0..n : g[i] = f[i]
        /\ DOMAIN g = 0..(n + 1)
    OBVIOUS
  <2>4. last = Joined(g[n], s[n + 1])
    BY <2>3
  <2> HIDE DEF last, g
  <2>5. \A i \in 0..(n + 1) : g[i] = IF i = 0 THEN none ELSE Joined(g[i - 1], s[i])
    <3> SUFFICES ASSUME NEW i \in 0..(n + 1)
                 PROVE  g[i] = IF i = 0 THEN none ELSE Joined(g[i - 1], s[i])
      OBVIOUS
    <3>1. CASE i = n + 1
      BY <2>3, <2>4, <3>1
    <3>2. CASE i = 0
      BY <2>2, <2>3, <3>2
    <3>3. CASE i \in 1..n
      <4>1. i \in 0..n /\ i - 1 \in 0..n
        BY <3>3
      <4> QED
        BY <2>2, <2>3, <3>3, <4>1
    <3> QED
      BY <3>1, <3>2, <3>3
  <2>6. Solves(g, n + 1)
    <3>1. g = [i \in 0..(n + 1) |-> g[i]]
      BY <2>3 DEF g
    <3> QED
      BY <2>5, <3>1
  <2> QED
    BY <2>6
<1> HIDE DEF Good
<1>3. Len(s) \in Good /\ Len(s) \in Nat
  BY <1>1, <1>2, Induction
<1>4. \E f : Solves(f, Len(s))
  BY <1>3 DEF Good
<1>5. PICK F : F = MergedUpTo(s)
  OBVIOUS
<1>6. Solves(F, Len(s))
  BY <1>0, <1>4, <1>5 DEF MergedUpTo
<1>7. F[0] = none
  BY <1>3, <1>6
<1>8. ASSUME NEW i \in 1..Len(s) PROVE F[i] = Joined(F[i - 1], s[i])
  <2>1. i \in 0..Len(s) /\ i # 0
    BY <1>3
  <2> QED
    BY <1>6, <2>1
<1> QED
  BY <1>0, <1>5, <1>7, <1>8

(* merge_adjacent keeps order and bytes. *)
LEMMA MergeMaps ==
  ASSUME NEW s, Lies(s)
  PROVE  Lies(MergeAdjacent(s)) /\ Maps(MergeAdjacent(s), {s[i] : i \in 1..Len(s)})
<1>1. s \in Seq(RegionRecords) /\ Len(s) \in Nat
  BY DEF Lies
<1>2. PICK n \in Nat : n = Len(s)
  BY <1>1
<1>3. PICK F : F = MergedUpTo(s)
  OBVIOUS
<1>4. F[0] = <<>> /\ \A i \in 1..n : F[i] = Joined(F[i - 1], s[i])
  BY <1>1, <1>2, <1>3, MergedDefined
<1> DEFINE Upto(k) == {s[i] : i \in 1..k}
           Good == {k \in Nat : k <= n =>
                      /\ Lies(F[k]) /\ Maps(F[k], Upto(k))
                      /\ \A i \in 1..Len(F[k]) : k # 0 /\ End(F[k][i]) <= End(s[k])}
<1>5. 0 \in Good
  <2>1. PICK none : none = <<>>
    OBVIOUS
  <2>2. none \in Seq(RegionRecords) /\ Len(none) = 0 /\ F[0] = none
    BY <1>4, <2>1
  <2>3. Lies(none) /\ Maps(none, {})
    BY <2>2 DEF Lies, Maps
  <2>4. Upto(0) = {}
    OBVIOUS
  <2> QED
    BY <2>2, <2>3, <2>4
<1>6. ASSUME NEW k \in Nat, k \in Good PROVE k + 1 \in Good
  <2> SUFFICES ASSUME k + 1 <= n
               PROVE  /\ Lies(F[k + 1]) /\ Maps(F[k + 1], Upto(k + 1))
                      /\ \A i \in 1..Len(F[k + 1]) : End(F[k + 1][i]) <= End(s[k + 1])
    OBVIOUS
  <2>1. PICK m : m = F[k]
    OBVIOUS
  <2>2. /\ Lies(m) /\ Maps(m, Upto(k))
        /\ \A i \in 1..Len(m) : k # 0 /\ End(m[i]) <= End(s[k])
    BY <1>6, <2>1
  <2>3. k + 1 \in 1..n
    OBVIOUS
  <2>4. PICK next \in RegionRecords : next = s[k + 1]
    BY <1>1, <1>2, <2>3, ElementOfSeq
  <2>5. F[k + 1] = Joined(m, next)
    BY <1>4, <2>1, <2>3, <2>4
  <2>6. ASSUME NEW i \in 1..Len(m) PROVE End(m[i]) <= next.va
    <3>1. k \in 1..n /\ End(m[i]) <= End(s[k])
      BY <2>2
    <3>2. End(s[k]) <= next.va
      BY <1>2, <2>3, <2>4, <3>1 DEF Lies
    <3>3. s[k] \in RegionRecords /\ m[i] \in RegionRecords
      BY <1>1, <1>2, <2>2, <3>1, ElementOfSeq DEF Lies
    <3>4. End(m[i]) \in Nat /\ End(s[k]) \in Nat /\ next.va \in Nat
      BY <3>3, RegionIs
    <3> QED
      BY <3>1, <3>2, <3>4
  <2>7. Upto(k + 1) = Upto(k) \cup {next}
    <3>1. \A i \in 1..(k + 1) : i \in 1..k \/ i = k + 1
      OBVIOUS
    <3>2. \A i \in 1..k : i \in 1..(k + 1)
      OBVIOUS
    <3>3. k + 1 \in 1..(k + 1)
      OBVIOUS
    <3> QED
      BY <2>4, <3>1, <3>2, <3>3
  <2> HIDE DEF Upto
  <2> QED
    BY <2>2, <2>4, <2>5, <2>6, <2>7, JoinedMaps
<1> HIDE DEF Good
<1>7. n \in Good
  BY <1>5, <1>6, Induction
<1>8. Lies(F[n]) /\ Maps(F[n], Upto(n))
  BY <1>7 DEF Good
<1> QED
  BY <1>2, <1>3, <1>8 DEF MergeAdjacent

(* Regions that differ in their address can be listed by address. *)
LEMMA SortExists ==
  ASSUME NEW list, IsFiniteSet(list), list \subseteq RegionRecords,
         \A q, r \in list : q.va = r.va => q = r
  PROVE  \E s \in [1..Cardinality(list) -> list] :
           \A i, j \in DOMAIN s : i < j => s[i].va < s[j].va
<1> DEFINE Sorts(s, T) == /\ s \in [1..Cardinality(T) -> T]
                          /\ \A i, j \in 1..Cardinality(T) : i < j => s[i].va < s[j].va
           Good == {n \in Nat : \A T \in SUBSET list : Cardinality(T) = n => \E s : Sorts(s, T)}
<1>1. \A T \in SUBSET list : IsFiniteSet(T) /\ Cardinality(T) \in Nat
  BY FS_Subset, FS_CardinalityType
<1>2. 0 \in Good
  <2> SUFFICES ASSUME NEW T \in SUBSET list, Cardinality(T) = 0 PROVE \E s : Sorts(s, T)
    OBVIOUS
  <2> DEFINE none == [i \in 1..0 |-> i]
  <2>1. Sorts(none, T)
    OBVIOUS
  <2> QED
    BY <2>1
<1>3. ASSUME NEW n \in Nat, n \in Good PROVE n + 1 \in Good
  <2> SUFFICES ASSUME NEW T \in SUBSET list, Cardinality(T) = n + 1 PROVE \E s : Sorts(s, T)
    OBVIOUS
  <2>1. T # {} /\ IsFiniteSet(T)
    BY <1>1, FS_EmptySet
  <2>2. PICK top \in T : \A r \in T : r.va <= top.va
    <3>1. \A r \in T : r \in RegionRecords
      OBVIOUS
    <3>2. \A r \in T : r.va \in Nat /\ r.va <= TOP /\ TOP \in Nat
      BY <3>1, RegionIs
    <3> DEFINE Depths == {TOP - r.va : r \in T}
    <3>3. Depths \subseteq Nat /\ Depths # {}
      BY <2>1, <3>2
    <3>4. PICK d \in Depths : \A e \in Depths : d <= e
      BY <3>3, LeastNatural
    <3>5. PICK t \in T : d = TOP - t.va
      BY <3>4
    <3>6. ASSUME NEW r \in T PROVE r.va <= t.va
      <4>1. TOP - t.va <= TOP - r.va
        BY <3>4, <3>5
      <4> QED
        BY <3>2, <4>1
    <3> QED
      BY <3>6
  <2>3. PICK U \in SUBSET list : U = T \ {top}
    OBVIOUS
  <2>4. Cardinality(U) = n
    <3>1. Cardinality(T \ {top}) = Cardinality(T) - 1
      BY <2>1, <2>2, FS_RemoveElement
    <3> QED
      BY <2>3, <3>1
  <2>5. PICK f : Sorts(f, U)
    BY <1>3, <2>4
  <2>6. f \in [1..n -> U] /\ \A i, j \in 1..n : i < j => f[i].va < f[j].va
    BY <2>4, <2>5
  <2>7. PICK s : s = [i \in 1..(n + 1) |-> IF i = n + 1 THEN top ELSE f[i]]
    OBVIOUS
  <2>8. s[n + 1] = top /\ \A i \in 1..n : s[i] = f[i]
    BY <2>7
  <2>9. s \in [1..(n + 1) -> T]
    BY <2>3, <2>6, <2>7
  <2>10. ASSUME NEW i \in 1..(n + 1), NEW j \in 1..(n + 1), i < j PROVE s[i].va < s[j].va
    <3>1. i \in 1..n
      BY <2>10
    <3>2. CASE j \in 1..n
      BY <2>6, <2>8, <2>10, <3>1, <3>2
    <3>3. CASE j = n + 1
      <4>1. f[i] \in T /\ f[i] # top /\ top \in list /\ f[i] \in list
        BY <2>3, <2>6, <3>1
      <4>2. f[i].va \in Nat /\ top.va \in Nat
        BY <4>1, RegionIs
      <4>3. f[i].va <= top.va /\ f[i].va # top.va
        BY <2>2, <4>1
      <4> QED
        BY <2>8, <3>1, <3>3, <4>2, <4>3
    <3> QED
      BY <2>10, <3>2, <3>3
  <2>11. Sorts(s, T)
    BY <2>9, <2>10
  <2> QED
    BY <2>11
<1> HIDE DEF Good
<1>4. Cardinality(list) \in Nat /\ Cardinality(list) \in Good
  BY <1>1, <1>2, <1>3, Induction
<1>5. PICK s : Sorts(s, list)
  BY <1>4 DEF Good
<1> QED
  BY <1>5

(* What from_unified makes of a list. *)
LEMMA UnifiedMaps ==
  ASSUME NEW list \in MemoryLists
  PROVE  Lies(FromUnified(list)) /\ Maps(FromUnified(list), {r \in list : r.size > 0})
<1>1. PICK some : some = {r \in list : r.size > 0}
  OBVIOUS
<1>2. /\ IsFiniteSet(some) /\ some \subseteq RegionRecords
      /\ \A q, r \in some : q = r \/ q.va + q.size <= r.va \/ r.va + r.size <= q.va
  <2>1. /\ IsFiniteSet(list) /\ list \subseteq RegionRecords
        /\ \A q, r \in list : q = r \/ q.va + q.size <= r.va \/ r.va + r.size <= q.va
    BY DumpAssumption DEF Disjoint
  <2>2. some \in SUBSET list
    BY <1>1
  <2> QED
    BY <2>1, <2>2, FS_Subset
<1>3. ASSUME NEW r \in some
      PROVE  r.va \in Nat /\ r.size \in Nat /\ r.size > 0 /\ End(r) \in Nat /\ End(r) <= r.va + r.size
  BY <1>1, <1>2, <1>3, RegionIs
<1>4. ASSUME NEW q \in some, NEW r \in some, q.va = r.va PROVE q = r
  BY <1>2, <1>3, <1>4
<1>5. PICK n \in Nat : n = Cardinality(some)
  BY <1>2, FS_CardinalityType
<1>6. PICK s : s = ByAddress(some)
  OBVIOUS
<1>7. s \in [1..n -> some] /\ \A i, j \in 1..n : i < j => s[i].va < s[j].va
  <2>1. \E t \in [1..n -> some] : \A i, j \in DOMAIN t : i < j => t[i].va < t[j].va
    BY <1>2, <1>4, <1>5, SortExists
  <2>2. s \in [1..n -> some] /\ \A i, j \in DOMAIN s : i < j => s[i].va < s[j].va
    BY <1>5, <1>6, <2>1 DEF ByAddress
  <2> QED
    BY <2>2
<1>8. s \in [1..n -> RegionRecords]
  BY <1>2, <1>7
<1>9. s \in Seq(RegionRecords) /\ Len(s) = n
  BY <1>8
<1>10. Lies(s)
  <2>1. ASSUME NEW i \in 1..n, NEW j \in 1..n, i < j PROVE End(s[i]) <= s[j].va
    <3>1. PICK q \in some : q = s[i]
      BY <1>7
    <3>2. PICK r \in some : r = s[j]
      BY <1>7
    <3>3. q.va < r.va
      BY <1>7, <2>1, <3>1, <3>2
    <3> QED
      BY <1>2, <1>3, <3>1, <3>2, <3>3
  <2> QED
    BY <1>9, <2>1 DEF Lies
<1>11. {s[i] : i \in 1..n} = some
  <2>1. s \in Injection(1..n, some)
    <3>1. ASSUME NEW i \in 1..n, NEW j \in 1..n, i # j PROVE s[i] # s[j]
      <4>1. s[i].va \in Nat /\ s[j].va \in Nat
        BY <1>3, <1>7
      <4>2. CASE i < j
        BY <1>7, <4>1, <4>2
      <4>3. CASE j < i
        BY <1>7, <4>1, <4>3
      <4> QED
        BY <3>1, <4>2, <4>3
    <3> QED
      BY <1>7, <3>1 DEF Injection, IsInjective
  <2>2. Cardinality(1..n) = n
    BY FS_Interval
  <2>3. s \in Surjection(1..n, some)
    BY <1>2, <1>5, <2>1, <2>2, FS_Injection
  <2> QED
    BY <1>7, <2>3 DEF Surjection
<1>12. Lies(MergeAdjacent(s)) /\ Maps(MergeAdjacent(s), {s[i] : i \in 1..Len(s)})
  BY <1>10, MergeMaps
<1>13. FromUnified(list) = MergeAdjacent(s)
  BY <1>1, <1>6 DEF FromUnified
<1>14. {s[i] : i \in 1..Len(s)} = {r \in list : r.size > 0}
  BY <1>1, <1>9, <1>11
<1> QED
  BY <1>12, <1>13, <1>14

(* A region has the bytes the dump file lists for it, below u64::MAX. *)
LEMMA HasByteIs ==
  ASSUME NEW r \in RegionRecords, NEW va \in Nat
  PROVE  /\ HasByte(r, va) <=> va < TOP /\ r.va <= va /\ va < r.va + r.size
         /\ HasByte(r, va) => Place(r, va) \in Nat /\ r.size > 0
<1>1. /\ r.va \in Nat /\ r.size \in Nat /\ r.data \in Nat /\ TOP \in Nat
      /\ r.va \in 0..TOP
  BY RegionIs
<1>2. HasByte(r, va) <=> va < TOP /\ r.va <= va /\ va < r.va + r.size
  BY <1>1 DEF HasByte, End, Saturated
<1>3. HasByte(r, va) => Place(r, va) \in Nat /\ r.size > 0
  BY <1>1, <1>2 DEF Place
<1> QED
  BY <1>2, <1>3

(* The binary search finds the end of the regions that end at or before    *)
(* va: no region behind one that does not can.                             *)
LEMMA BeforeIs ==
  ASSUME NEW m, Lies(m), NEW va \in Nat
  PROVE  /\ Before(m, va) \in 0..Len(m)
         /\ \A i \in 1..Len(m) : i <= Before(m, va) <=> End(m[i]) <= va
<1>1. PICK n \in Nat : n = Len(m)
  BY DEF Lies
<1>2. m \in Seq(RegionRecords) /\ DOMAIN m = 1..n
  BY <1>1 DEF Lies
<1>3. \A i \in 1..n : m[i].va \in Nat /\ End(m[i]) \in Nat /\ m[i].va <= End(m[i])
  BY <1>1, <1>2, ElementOfSeq, RegionIs
<1>4. ASSUME NEW i \in 1..n, NEW j \in 1..n, i <= j, End(m[j]) <= va PROVE End(m[i]) <= va
  <2>1. CASE i = j
    BY <1>4, <2>1
  <2>2. CASE i < j
    <3>1. End(m[i]) <= m[j].va
      BY <1>1, <2>2 DEF Lies
    <3> QED
      BY <1>3, <1>4, <3>1
  <2> QED
    BY <1>4, <2>1, <2>2
<1>5. PICK past : past = {i \in 1..n : End(m[i]) <= va}
  OBVIOUS
<1>6. Before(m, va) = Cardinality(past)
  <2>1. ASSUME NEW i \in 1..n PROVE (\A j \in 1..i : End(m[j]) <= va) <=> End(m[i]) <= va
    <3>1. i \in 1..i /\ \A j \in 1..i : j \in 1..n /\ j <= i
      OBVIOUS
    <3> QED
      BY <1>4, <3>1
  <2>2. {i \in DOMAIN m : \A j \in 1..i : End(m[j]) <= va} = past
    BY <1>2, <1>5, <2>1
  <2> QED
    BY <2>2 DEF Before
<1>7. PICK k \in 0..n : past = 1..k
  <2> DEFINE rest == {i \in 1..n : ~(End(m[i]) <= va)}
  <2>1. CASE rest = {}
    <3>1. past = 1..n
      BY <1>5, <2>1
    <3> QED
      BY <3>1
  <2>2. CASE rest # {}
    <3>1. rest \subseteq Nat
      OBVIOUS
    <3>2. PICK x \in rest : \A y \in rest : x <= y
      BY <2>2, <3>1, LeastNatural
    <3>3. x \in 1..n /\ ~(End(m[x]) <= va)
      BY <3>2
    <3>4. ASSUME NEW i \in 1..n PROVE End(m[i]) <= va <=> i <= x - 1
      <4>1. ASSUME End(m[i]) <= va PROVE ~(x <= i)
        BY <1>4, <3>3, <4>1
      <4>2. ASSUME ~(End(m[i]) <= va) PROVE x <= i
        BY <3>2, <4>2
      <4> QED
        BY <3>3, <4>1, <4>2
    <3>5. x - 1 \in 0..n /\ past = 1..(x - 1)
      BY <1>5, <3>3, <3>4
    <3> QED
      BY <3>5
  <2> QED
    BY <2>1, <2>2
<1>8. Cardinality(past) = k
  BY <1>7, FS_Interval
<1>9. k \in 0..n /\ \A i \in 1..n : i <= k <=> End(m[i]) <= va
  BY <1>5, <1>7
<1> QED
  BY <1>1, <1>6, <1>8, <1>9

(* A read inside a region gets all of its bytes, from where the file keeps *)
(* them.                                                                   *)
LEMMA ReadIs ==
  ASSUME Lies(regions), NEW i \in 1..Len(regions), NEW va \in Nat, HasByte(regions[i], va),
         NEW len \in Nat, len > 0, va + len <= End(regions[i])
  PROVE  ReadAt(va, len) = [k \in 1..len |-> Place(regions[i], va) + k - 1]
<1>1. PICK n \in Nat : n = Len(regions)
  BY DEF Lies
<1>2. PICK r \in RegionRecords : r = regions[i]
  BY ElementOfSeq DEF Lies
<1>3. /\ r.va \in Nat /\ r.size \in Nat /\ r.data \in Nat /\ End(r) \in Nat
      /\ End(r) <= r.va + r.size /\ r.va <= va /\ va < End(r)
  BY <1>2, RegionIs DEF HasByte
<1>4. PICK b : b = Before(regions, va)
  OBVIOUS
<1>5. b \in 0..n /\ \A j \in 1..n : j <= b <=> End(regions[j]) <= va
  BY <1>1, <1>4, BeforeIs
<1>6. ~(i <= b)
  BY <1>1, <1>2, <1>3, <1>5
<1>7. ASSUME i - 1 \in 1..n PROVE i - 1 <= b
  <2>1. PICK p \in RegionRecords : p = regions[i - 1]
    BY <1>1, <1>7, ElementOfSeq DEF Lies
  <2>2. End(p) <= r.va
    BY <1>1, <1>2, <1>7, <2>1 DEF Lies
  <2>3. End(p) \in Nat
    BY RegionIs
  <2>4. End(p) <= va
    BY <1>3, <2>2, <2>3
  <2> QED
    BY <1>5, <1>7, <2>1, <2>4
<1>8. b + 1 = i
  BY <1>1, <1>5, <1>6, <1>7
<1>9. Least(r.size - (va - r.va), len) = len
  BY <1>2, <1>3 DEF Least
<1>10. ReadAt(va, len) = [k \in 1..Least(r.size - (va - r.va), len) |-> r.data + (va - r.va) + k - 1]
  <2>1. Before(regions, va) + 1 = i /\ ~(i > Len(regions)) /\ len # 0 /\ ~(va < r.va) /\ ~(va >= End(r))
    BY <1>1, <1>3, <1>4, <1>8
  <2> QED
    BY <1>2, <2>1 DEF ReadAt
<1> QED
  BY <1>2, <1>9, <1>10 DEF Place

(* The copy c writes the offsets whose addresses r has, each with its      *)
(* byte.                                                                   *)
CopyHas(c, r, base, size) ==
  /\ c.at \in Nat /\ Len(c.bytes) \in Nat
  /\ \A o \in Nat : WritesAt(c, o) <=> o \in 1..size /\ HasByte(r, base + o - 1)
  /\ \A o \in Nat : WritesAt(c, o) => c.bytes[o - c.at] = Place(r, base + o - 1)

(* One region's copy, which is as long as coverage_ratio says. *)
LEMMA CopyIs ==
  ASSUME Lies(regions), NEW i \in 1..Len(regions), NEW base \in Nat, NEW size \in Nat
  PROVE  /\ CopyHas(CopyOf(regions[i], base, size), regions[i], base, size)
         /\ CoveredPart(i, base, Saturated(base + size)) =
              Len(CopyOf(regions[i], base, size).bytes)
<1>1. PICK r \in RegionRecords : r = regions[i]
  BY ElementOfSeq DEF Lies
<1>2. PICK c : c = CopyOf(r, base, size)
  OBVIOUS
<1>3. PICK end : end = Saturated(base + size)
  OBVIOUS
<1>4. /\ r.va \in Nat /\ r.size \in Nat /\ r.data \in Nat /\ End(r) \in Nat /\ TOP \in Nat
      /\ End(r) <= TOP /\ r.va <= End(r) /\ End(r) <= r.va + r.size
  BY RegionIs
<1>5. end \in Nat /\ end <= base + size /\ (end = TOP \/ end = base + size) /\ end <= TOP
  BY <1>3, <1>4 DEF Saturated
<1>6. i <= Before(regions, base) <=> End(r) <= base
  BY <1>1, BeforeIs
<1>7. PICK lo : lo = Greatest(r.va, base)
  OBVIOUS
<1>8. PICK hi : hi = Least(End(r), end)
  OBVIOUS
<1>9. CASE End(r) <= base \/ r.va >= end
  <2>1. c = [at |-> 0, bytes |-> <<>>]
    BY <1>2, <1>3, <1>9 DEF CopyOf
  <2>2. PICK none : none = <<>>
    OBVIOUS
  <2>3. c.at = 0 /\ c.bytes = none
    BY <2>1, <2>2
  <2>4. Len(none) = 0
    BY <2>2
  <2>5. \A o \in Nat : ~WritesAt(c, o)
    BY <2>3, <2>4 DEF WritesAt
  <2>6. \A o \in Nat : ~(o \in 1..size /\ HasByte(r, base + o - 1))
    BY <1>4, <1>5, <1>9 DEF HasByte
  <2>7. CoveredPart(i, base, end) = 0
    BY <1>1, <1>6, <1>9 DEF CoveredPart
  <2>8. c.at \in Nat /\ Len(c.bytes) \in Nat /\ CoveredPart(i, base, end) = Len(c.bytes)
    BY <2>3, <2>4, <2>7
  <2>9. \A o \in Nat : WritesAt(c, o) <=> o \in 1..size /\ HasByte(r, base + o - 1)
    BY <2>5, <2>6
  <2>10. \A o \in Nat : WritesAt(c, o) => c.bytes[o - c.at] = Place(r, base + o - 1)
    BY <2>5
  <2>11. CopyHas(c, r, base, size)
    BY <2>8, <2>9, <2>10 DEF CopyHas
  <2> QED
    BY <1>1, <1>2, <1>3, <2>8, <2>11
<1>10. CASE ~(End(r) <= base \/ r.va >= end)
  <2>1. c = [at |-> lo - base, bytes |-> ReadAt(lo, hi - lo)]
    BY <1>2, <1>3, <1>7, <1>8, <1>10 DEF CopyOf
  <2>2. /\ lo \in Nat /\ hi \in Nat /\ base <= lo /\ r.va <= lo /\ (lo = base \/ lo = r.va)
        /\ hi <= End(r) /\ hi <= end /\ (hi = End(r) \/ hi = end)
    BY <1>4, <1>5, <1>7, <1>8 DEF Least, Greatest
  <2>3. lo <= hi
    BY <1>4, <1>5, <1>10, <2>2
  <2>4. PICK len \in Nat : len = hi - lo
    BY <2>2, <2>3
  <2>5. PICK bytes : bytes = ReadAt(lo, len)
    OBVIOUS
  <2>6. c.at = lo - base /\ c.at \in Nat /\ c.bytes = bytes
    BY <2>1, <2>2, <2>4, <2>5
  <2>7. Len(bytes) = len /\ \A k \in 1..len : bytes[k] = Place(r, lo) + k - 1
    <3>1. CASE len = 0
      <4>1. PICK none : none = <<>>
        OBVIOUS
      <4>2. bytes = none /\ Len(none) = 0
        BY <2>5, <3>1, <4>1 DEF ReadAt
      <4> QED
        BY <3>1, <4>2
    <3>2. CASE len > 0
      <4>1. HasByte(r, lo) /\ lo + len <= End(r)
        BY <1>4, <2>2, <2>4, <3>2 DEF HasByte
      <4>2. bytes = [k \in 1..len |-> Place(r, lo) + k - 1]
        BY <1>1, <2>2, <2>5, <3>2, <4>1, ReadIs
      <4> QED
        BY <4>2
    <3> QED
      BY <3>1, <3>2
  <2>8. \A o \in Nat : WritesAt(c, o) <=> o \in (lo - base + 1)..(hi - base)
    BY <2>2, <2>4, <2>6, <2>7 DEF WritesAt
  <2>9. ASSUME NEW o \in Nat PROVE WritesAt(c, o) <=> o \in 1..size /\ HasByte(r, base + o - 1)
    <3>1. WritesAt(c, o) <=> lo <= base + o - 1 /\ base + o - 1 < hi
      BY <2>2, <2>8
    <3>2. lo <= base + o - 1 <=> o >= 1 /\ r.va <= base + o - 1
      BY <1>4, <2>2
    <3>3. base + o - 1 < hi => base + o - 1 < End(r) /\ o <= size
      BY <1>4, <1>5, <2>2
    <3>4. base + o - 1 < End(r) /\ o <= size => base + o - 1 < hi
      BY <1>4, <1>5, <2>2
    <3> QED
      BY <3>1, <3>2, <3>3, <3>4 DEF HasByte
  <2>10. ASSUME NEW o \in Nat, WritesAt(c, o) PROVE c.bytes[o - c.at] = Place(r, base + o - 1)
    <3>1. o - (lo - base) \in 1..len
      BY <2>2, <2>4, <2>8, <2>10
    <3>2. bytes[o - (lo - base)] = Place(r, lo) + (o - (lo - base)) - 1
      BY <2>7, <3>1
    <3>3. Place(r, lo) + (o - (lo - base)) - 1 = Place(r, base + o - 1)
      <4>1. PICK a \in Nat : a = r.va
        BY <1>4
      <4>2. PICK d \in Nat : d = r.data
        BY <1>4
      <4>3. \A va : Place(r, va) = d + (va - a)
        BY <4>1, <4>2 DEF Place
      <4>4. PICK va \in Int : va = base + o - 1
        OBVIOUS
      <4>5. Place(r, lo) = d + (lo - a) /\ Place(r, va) = d + (va - a)
        BY <4>3
      <4> QED
        BY <2>2, <4>4, <4>5
    <3> QED
      BY <2>6, <3>2, <3>3
  <2>11. CoveredPart(i, base, end) = len
    <3>1. CoveredPart(i, base, end) = Greatest(hi - lo, 0)
      BY <1>1, <1>6, <1>7, <1>8, <1>10 DEF CoveredPart
    <3> QED
      BY <2>2, <2>3, <2>4, <3>1 DEF Greatest
  <2>12. Len(c.bytes) = len
    BY <2>6, <2>7
  <2>13. CopyHas(c, r, base, size)
    BY <2>6, <2>9, <2>10, <2>12 DEF CopyHas
  <2> QED
    BY <1>1, <1>2, <1>3, <2>11, <2>12, <2>13
<1> QED
  BY <1>9, <1>10

(* No two regions have a byte in common. *)
LEMMA OneRegion ==
  ASSUME NEW m, Lies(m), NEW i \in 1..Len(m), NEW j \in 1..Len(m), NEW va \in Nat,
         HasByte(m[i], va), HasByte(m[j], va)
  PROVE  i = j
<1>1. m[i] \in RegionRecords /\ m[j] \in RegionRecords
  BY ElementOfSeq DEF Lies
<1>2. /\ m[i].va \in Nat /\ End(m[i]) \in Nat /\ m[i].va <= va /\ va < End(m[i])
      /\ m[j].va \in Nat /\ End(m[j]) \in Nat /\ m[j].va <= va /\ va < End(m[j])
  BY <1>1, RegionIs DEF HasByte
<1>3. ~(i < j) /\ ~(j < i)
  BY <1>2 DEF Lies
<1> QED
  BY <1>3

(* The copies a module is put together from. *)
LEMMA CopiesAre ==
  ASSUME Lies(regions), NEW base \in Nat, NEW size \in Nat
  PROVE  /\ Len(Copies(base, size)) = Len(regions) /\ Len(regions) \in Nat
         /\ \A i \in 1..Len(regions) : Copies(base, size)[i] = CopyOf(regions[i], base, size)
<1>1. PICK n \in Nat : n = Len(regions)
  BY DEF Lies
<1>2. Copies(base, size) = [i \in 1..n |-> CopyOf(regions[i], base, size)]
  BY <1>1 DEF Copies
<1> QED
  BY <1>1, <1>2

(* What the image holds at one offset. *)
LEMMA ImageIs ==
  ASSUME Lies(regions), NEW base \in Nat, NEW size \in Nat, NEW o \in 1..size
  PROVE  /\ \A i \in 1..Len(regions) : HasByte(regions[i], base + o - 1) =>
              ImageOf(Copies(base, size), size)[o] = Place(regions[i], base + o - 1)
         /\ (\A i \in 1..Len(regions) : ~HasByte(regions[i], base + o - 1)) =>
              ImageOf(Copies(base, size), size)[o] = Hole
<1>1. PICK n \in Nat : n = Len(regions)
  BY CopiesAre
<1>2. PICK cs : cs = Copies(base, size)
  OBVIOUS
<1>3. Len(cs) = n /\ \A i \in 1..n : cs[i] = CopyOf(regions[i], base, size)
  BY <1>1, <1>2, CopiesAre
<1>4. PICK va \in Nat : va = base + o - 1
  OBVIOUS
<1>5. ASSUME NEW i \in 1..n
      PROVE  /\ WritesAt(cs[i], o) <=> HasByte(regions[i], va)
             /\ WritesAt(cs[i], o) => cs[i].bytes[o - cs[i].at] = Place(regions[i], va)
  <2>1. PICK c : c = CopyOf(regions[i], base, size)
    OBVIOUS
  <2>2. o \in Nat
    OBVIOUS
  <2>3. /\ WritesAt(c, o) <=> o \in 1..size /\ HasByte(regions[i], base + o - 1)
        /\ WritesAt(c, o) => c.bytes[o - c.at] = Place(regions[i], base + o - 1)
    <3>1. i \in 1..Len(regions)
      BY <1>1
    <3>2. CopyHas(c, regions[i], base, size)
      BY <2>1, <3>1, CopyIs
    <3> QED
      BY <2>2, <3>2 DEF CopyHas
  <2> QED
    BY <1>3, <1>4, <2>1, <2>3
<1>6. PICK W : W = Writers(cs, o)
  OBVIOUS
<1>7. W = {i \in 1..n : HasByte(regions[i], va)}
  BY <1>3, <1>5, <1>6 DEF Writers
<1>8. ImageOf(cs, size)[o] =
        IF W = {} THEN Hole
        ELSE LET i == CHOOSE i \in W : \A j \in W : j <= i IN cs[i].bytes[o - cs[i].at]
  BY <1>6 DEF ImageOf
<1>9. ASSUME NEW i \in 1..n, HasByte(regions[i], va) PROVE ImageOf(cs, size)[o] = Place(regions[i], va)
  <2>1. W = {i}
    BY <1>1, <1>7, <1>9, OneRegion
  <2>2. (CHOOSE k \in W : \A j \in W : j <= k) = i
    BY <2>1
  <2>3. ImageOf(cs, size)[o] = cs[i].bytes[o - cs[i].at]
    BY <1>8, <2>1, <2>2
  <2> QED
    BY <1>5, <1>9, <2>3
<1>10. ASSUME \A i \in 1..n : ~HasByte(regions[i], va) PROVE ImageOf(cs, size)[o] = Hole
  BY <1>7, <1>8, <1>10
<1> QED
  BY <1>1, <1>2, <1>4, <1>9, <1>10

(* The recursive definition of SumUpTo has a solution. *)
LEMMA SumDefined ==
  ASSUME NEW s, Len(s) \in Nat
  PROVE  /\ SumUpTo(s)[0] = 0
         /\ \A i \in 1..Len(s) : SumUpTo(s)[i] = SumUpTo(s)[i - 1] + s[i]
<1> DEFINE Solves(f, n) == f = [i \in 0..n |-> IF i = 0 THEN 0 ELSE f[i - 1] + s[i]]
           Good == {n \in Nat : \E f : Solves(f, n)}
<1>1. 0 \in Good
  <2> DEFINE f == [i \in 0..0 |-> 0]
  <2>1. Solves(f, 0)
    OBVIOUS
  <2> QED
    BY <2>1
<1>2. ASSUME NEW n \in Nat, n \in Good PROVE n + 1 \in Good
  <2>1. PICK f : Solves(f, n)
    BY <1>2
  <2> DEFINE last == f[n] + s[n + 1]
             g == [i \in 0..(n + 1) |-> IF i = n + 1 THEN last ELSE f[i]]
  <2>2. \A i \in 0..n : f[i] = IF i = 0 THEN 0 ELSE f[i - 1] + s[i]
    BY <2>1
  <2>3. /\ g[n + 1] = last /\ \A i \in 0..n : g[i] = f[i]
        /\ DOMAIN g = 0..(n + 1)
    OBVIOUS
  <2>4. last = g[n] + s[n + 1]
    BY <2>3
  <2> HIDE DEF last, g
  <2>5. \A i \in 0..(n + 1) : g[i] = IF i = 0 THEN 0 ELSE g[i - 1] + s[i]
    <3> SUFFICES ASSUME NEW i \in 0..(n + 1)
                 PROVE  g[i] = IF i = 0 THEN 0 ELSE g[i - 1] + s[i]
      OBVIOUS
    <3>1. CASE i = n + 1
      BY <2>3, <2>4, <3>1
    <3>2. CASE i = 0
      BY <2>2, <2>3, <3>2
    <3>3. CASE i \in 1..n
      <4>1. i \in 0..n /\ i - 1 \in 0..n
        BY <3>3
      <4> QED
        BY <2>2, <2>3, <3>3, <4>1
    <3> QED
      BY <3>1, <3>2, <3>3
  <2>6. Solves(g, n + 1)
    <3>1. g = [i \in 0..(n + 1) |-> g[i]]
      BY <2>3 DEF g
    <3> QED
      BY <2>5, <3>1
  <2> QED
    BY <2>6
<1> HIDE DEF Good
<1>3. Len(s) \in Good
  BY <1>1, <1>2, Induction
<1>4. \E f : Solves(f, Len(s))
  BY <1>3 DEF Good
<1>5. PICK F : F = SumUpTo(s)
  OBVIOUS
<1>6. Solves(F, Len(s))
  BY <1>4, <1>5 DEF SumUpTo
<1>7. F[0] = 0
  BY <1>6
<1>8. ASSUME NEW i \in 1..Len(s) PROVE F[i] = F[i - 1] + s[i]
  <2>1. i \in 0..Len(s) /\ i # 0
    OBVIOUS
  <2> QED
    BY <1>6, <2>1
<1> QED
  BY <1>5, <1>7, <1>8

(* A sum of the sizes of disjoint sets counts their union. *)
LEMMA TotalCounts ==
  ASSUME NEW n \in Nat, NEW W, NEW s \in [1..n -> Nat],
         \A i \in 1..n : IsFiniteSet(W[i]) /\ Cardinality(W[i]) = s[i],
         \A i, j \in 1..n : i # j => W[i] \cap W[j] = {}
  PROVE  Total(s) = Cardinality(UNION {W[i] : i \in 1..n})
<1>1. s \in Seq(Nat) /\ Len(s) = n
  OBVIOUS
<1>2. PICK F : F = SumUpTo(s)
  OBVIOUS
<1>3. F[0] = 0 /\ \A i \in 1..n : F[i] = F[i - 1] + s[i]
  BY <1>1, <1>2, SumDefined
<1> DEFINE U(k) == UNION {W[i] : i \in 1..k}
           Good == {k \in Nat : k <= n => IsFiniteSet(U(k)) /\ F[k] = Cardinality(U(k))}
<1>4. 0 \in Good
  <2>1. U(0) = {}
    OBVIOUS
  <2> HIDE DEF U
  <2> QED
    BY <1>3, <2>1, FS_EmptySet
<1>5. ASSUME NEW k \in Nat, k \in Good PROVE k + 1 \in Good
  <2> SUFFICES ASSUME k + 1 <= n
               PROVE  IsFiniteSet(U(k + 1)) /\ F[k + 1] = Cardinality(U(k + 1))
    OBVIOUS
  <2>1. IsFiniteSet(U(k)) /\ F[k] = Cardinality(U(k))
    BY <1>5
  <2>2. k + 1 \in 1..n /\ \A i \in 1..k : i \in 1..n /\ i # k + 1
    OBVIOUS
  <2>3. PICK w : w = W[k + 1]
    OBVIOUS
  <2>4. IsFiniteSet(w) /\ Cardinality(w) = s[k + 1] /\ s[k + 1] \in Nat
    BY <2>2, <2>3
  <2>5. U(k + 1) = U(k) \cup w
    <3>1. \A i \in 1..(k + 1) : i \in 1..k \/ i = k + 1
      OBVIOUS
    <3>2. \A i \in 1..k : i \in 1..(k + 1)
      OBVIOUS
    <3>3. k + 1 \in 1..(k + 1)
      OBVIOUS
    <3> QED
      BY <2>3, <3>1, <3>2, <3>3
  <2>6. U(k) \cap w = {}
    BY <2>2, <2>3
  <2> HIDE DEF U
  <2>7. PICK u : u = U(k)
    OBVIOUS
  <2>8. Cardinality(u \cup w) = Cardinality(u) + Cardinality(w) - Cardinality(u \cap w)
        /\ IsFiniteSet(u \cup w)
    BY <2>1, <2>4, <2>7, FS_Union
  <2>9. Cardinality(u \cap w) = 0 /\ Cardinality(u) \in Nat
    BY <2>1, <2>6, <2>7, FS_EmptySet, FS_CardinalityType
  <2>10. F[k + 1] = F[k] + s[k + 1]
    BY <1>3, <2>2
  <2>11. Cardinality(u \cup w) = F[k] + s[k + 1]
    BY <2>1, <2>4, <2>7, <2>8, <2>9
  <2> QED
    BY <2>5, <2>7, <2>8, <2>10, <2>11
<1> HIDE DEF Good
<1>6. n \in Good
  BY <1>4, <1>5, Induction
<1>7. F[n] = Cardinality(U(n))
  BY <1>6 DEF Good
<1> QED
  BY <1>1, <1>2, <1>7 DEF Total

(* Where the file keeps the byte at va, from the map's side: the listed    *)
(* regions do not overlap.                                                 *)
LEMMA ListedIs ==
  ASSUME memoryList \in MemoryLists, NEW va \in Nat, va < TOP
  PROVE  /\ \A r \in {q \in memoryList : q.size > 0} :
              HasByte(r, va) => ListedAt(va) # {} /\ TruePlace(va) = Place(r, va)
         /\ (\A r \in {q \in memoryList : q.size > 0} : ~HasByte(r, va)) => ListedAt(va) = {}
<1>1. memoryList \subseteq RegionRecords /\ Disjoint(memoryList)
  BY DumpAssumption
<1>2. ASSUME NEW r \in memoryList
      PROVE  /\ r.va \in Nat /\ r.size \in Nat
             /\ HasByte(r, va) <=> r.va <= va /\ va < r.va + r.size
             /\ HasByte(r, va) => r.size > 0
  BY <1>1, HasByteIs, RegionIs
<1>3. PICK here : here = ListedAt(va)
  OBVIOUS
<1>4. here = {r \in memoryList : HasByte(r, va)}
  BY <1>2, <1>3 DEF ListedAt
<1>5. ASSUME NEW r \in memoryList, HasByte(r, va) PROVE here = {r}
  <2>1. ASSUME NEW q \in here PROVE q = r
    <3>1. q \in memoryList /\ HasByte(q, va)
      BY <1>4
    <3>2. /\ q.va <= va /\ va < q.va + q.size /\ r.va <= va /\ va < r.va + r.size
          /\ q.va \in Nat /\ q.size \in Nat /\ r.va \in Nat /\ r.size \in Nat
      BY <1>2, <1>5, <3>1
    <3>3. q = r \/ q.va + q.size <= r.va \/ r.va + r.size <= q.va
      BY <1>1, <3>1 DEF Disjoint
    <3> QED
      BY <3>2, <3>3
  <2>2. r \in here
    BY <1>4, <1>5
  <2> QED
    BY <2>1, <2>2
<1>6. ASSUME NEW r \in memoryList, HasByte(r, va) PROVE TruePlace(va) = Place(r, va)
  <2>1. ListedAt(va) = {r}
    BY <1>3, <1>5, <1>6
  <2>2. (CHOOSE q \in ListedAt(va) : TRUE) = r
    BY <2>1
  <2> QED
    BY <2>2 DEF TruePlace, Place
<1> QED
  BY <1>2, <1>3, <1>4, <1>5, <1>6

(* What extract_module_pe writes is what the dump file lists. *)
LEMMA ExtractIs ==
  ASSUME memoryList \in MemoryLists, regions = FromUnified(memoryList),
         NEW base \in Nat, NEW size \in Nat
  PROVE  /\ \A o \in 1..size :
              ImageOf(Copies(base, size), size)[o] =
                IF base + o - 1 < TOP /\ ListedAt(base + o - 1) # {}
                THEN TruePlace(base + o - 1) ELSE Hole
         /\ PresentOf(Copies(base, size)) =
              Cardinality({o \in 1..size : ImageOf(Copies(base, size), size)[o] # Hole})
         /\ PresentOf(Copies(base, size)) = Covered(base, size)
<1>1. PICK some : some = {r \in memoryList : r.size > 0}
  OBVIOUS
<1>2. Lies(regions) /\ Maps(regions, some)
  BY <1>1, UnifiedMaps
<1>3. some \subseteq RegionRecords
  BY <1>1, DumpAssumption
<1>4. PICK n \in Nat : n = Len(regions)
  BY <1>2, CopiesAre
<1>5. PICK cs : cs = Copies(base, size)
  OBVIOUS
<1>6. Len(cs) = n /\ \A i \in 1..n : cs[i] = CopyOf(regions[i], base, size)
  BY <1>2, <1>4, <1>5, CopiesAre
<1>7. PICK img : img = ImageOf(cs, size)
  OBVIOUS
<1>8. \A i \in 1..n : regions[i] \in RegionRecords
  BY <1>2, <1>4, ElementOfSeq DEF Lies
<1>9. ASSUME NEW o \in 1..size, NEW va \in Nat, va = base + o - 1
      PROVE  /\ \A i \in 1..n : HasByte(regions[i], va) => img[o] = Place(regions[i], va)
             /\ (\A i \in 1..n : ~HasByte(regions[i], va)) => img[o] = Hole
  BY <1>2, <1>4, <1>5, <1>7, <1>9, ImageIs
<1>10. ASSUME NEW o \in 1..size
       PROVE  img[o] = IF base + o - 1 < TOP /\ ListedAt(base + o - 1) # {}
                       THEN TruePlace(base + o - 1) ELSE Hole
  <2>1. PICK va \in Nat : va = base + o - 1
    OBVIOUS
  <2>2. CASE \E i \in 1..n : HasByte(regions[i], va)
    <3>1. PICK i \in 1..n : HasByte(regions[i], va)
      BY <2>2
    <3>2. PICK r \in some : HasByte(r, va) /\ Place(regions[i], va) = Place(r, va)
      BY <1>2, <1>4, <3>1 DEF Maps
    <3>3. va < TOP
      BY <1>3, <3>2, HasByteIs
    <3>4. ListedAt(va) # {} /\ TruePlace(va) = Place(r, va)
      BY <1>1, <3>2, <3>3, ListedIs
    <3>5. img[o] = Place(regions[i], va)
      BY <1>9, <2>1, <3>1
    <3> QED
      BY <2>1, <3>2, <3>3, <3>4, <3>5
  <2>3. CASE \A i \in 1..n : ~HasByte(regions[i], va)
    <3>1. img[o] = Hole
      BY <1>9, <2>1, <2>3
    <3>2. \A r \in some : ~HasByte(r, va)
      BY <1>2, <1>4, <2>3 DEF Maps
    <3>3. va < TOP => ListedAt(va) = {}
      BY <1>1, <3>2, ListedIs
    <3> QED
      BY <2>1, <3>1, <3>3
  <2> QED
    BY <2>2, <2>3
<1>11. PICK s : s = [i \in 1..n |-> Len(cs[i].bytes)]
  OBVIOUS
<1>12. ASSUME NEW i \in 1..n
       PROVE  /\ cs[i].at \in Nat /\ Len(cs[i].bytes) \in Nat
              /\ \A o \in Nat : WritesAt(cs[i], o) <=> o \in 1..size /\ HasByte(regions[i], base + o - 1)
              /\ CoveredPart(i, base, Saturated(base + size)) = Len(cs[i].bytes)
  <2>1. i \in 1..Len(regions)
    BY <1>4
  <2>2. PICK c : c = CopyOf(regions[i], base, size)
    OBVIOUS
  <2>3. /\ c.at \in Nat /\ Len(c.bytes) \in Nat
        /\ \A o \in Nat : WritesAt(c, o) <=> o \in 1..size /\ HasByte(regions[i], base + o - 1)
        /\ CoveredPart(i, base, Saturated(base + size)) = Len(c.bytes)
    <3>1. CopyHas(c, regions[i], base, size)
      BY <1>2, <2>1, <2>2, CopyIs
    <3>2. CoveredPart(i, base, Saturated(base + size)) = Len(c.bytes)
      BY <1>2, <2>1, <2>2, CopyIs
    <3> QED
      BY <3>1, <3>2 DEF CopyHas
  <2> QED
    BY <1>6, <2>2, <2>3
<1>13. PresentOf(cs) = Total(s)
  BY <1>6, <1>11 DEF PresentOf
<1>14. Covered(base, size) = Total(s)
  <2>1. [i \in 1..n |-> CoveredPart(i, base, Saturated(base + size))] = s
    BY <1>11, <1>12
  <2> QED
    BY <1>4, <2>1 DEF Covered
<1>15. PICK W : W = [i \in 1..n |-> {o \in Nat : WritesAt(cs[i], o)}]
  OBVIOUS
<1>16. ASSUME NEW i \in 1..n PROVE IsFiniteSet(W[i]) /\ Cardinality(W[i]) = s[i]
  <2>1. PICK a \in Nat : a = cs[i].at
    BY <1>12
  <2>2. PICK l \in Nat : l = Len(cs[i].bytes)
    BY <1>12
  <2>3. W[i] = (a + 1)..(a + l)
    BY <1>15, <2>1, <2>2 DEF WritesAt
  <2>4. IsFiniteSet((a + 1)..(a + l)) /\ Cardinality((a + 1)..(a + l)) = l
    BY FS_Interval
  <2> QED
    BY <1>11, <2>2, <2>3, <2>4
<1>17. ASSUME NEW i \in 1..n, NEW j \in 1..n, i # j PROVE W[i] \cap W[j] = {}
  <2> SUFFICES ASSUME NEW o \in Nat, WritesAt(cs[i], o), WritesAt(cs[j], o) PROVE FALSE
    BY <1>15
  <2>1. o \in 1..size /\ HasByte(regions[i], base + o - 1) /\ HasByte(regions[j], base + o - 1)
    BY <1>12
  <2>2. PICK va \in Nat : va = base + o - 1
    BY <2>1
  <2> QED
    BY <1>2, <1>4, <1>17, <2>1, <2>2, OneRegion
<1>18. s \in [1..n -> Nat]
  BY <1>11, <1>12
<1>19. Total(s) = Cardinality(UNION {W[i] : i \in 1..n})
  BY <1>16, <1>17, <1>18, TotalCounts
<1>20. UNION {W[i] : i \in 1..n} = {o \in 1..size : img[o] # Hole}
  <2>1. ASSUME NEW o \in Nat PROVE (\E i \in 1..n : o \in W[i]) <=> o \in 1..size /\ img[o] # Hole
    <3>1. \A i \in 1..n : o \in W[i] <=> o \in 1..size /\ HasByte(regions[i], base + o - 1)
      BY <1>12, <1>15
    <3>2. CASE o \notin 1..size
      BY <3>1, <3>2
    <3>3. CASE o \in 1..size
      <4>1. PICK va \in Nat : va = base + o - 1
        BY <3>3
      <4>2. CASE \E i \in 1..n : HasByte(regions[i], va)
        <5>1. PICK i \in 1..n : HasByte(regions[i], va)
          BY <4>2
        <5>2. img[o] = Place(regions[i], va)
          BY <1>9, <3>3, <4>1, <5>1
        <5>3. Place(regions[i], va) \in Nat
          BY <1>8, <5>1, HasByteIs
        <5>4. img[o] # Hole
          BY <5>2, <5>3 DEF Hole
        <5> QED
          BY <3>1, <3>3, <4>1, <5>1, <5>4
      <4>3. CASE \A i \in 1..n : ~HasByte(regions[i], va)
        <5>1. img[o] = Hole
          BY <1>9, <3>3, <4>1, <4>3
        <5> QED
          BY <3>1, <4>1, <4>3, <5>1
      <4> QED
        BY <4>2, <4>3
    <3> QED
      BY <3>2, <3>3
  <2>2. \A i \in 1..n : W[i] \subseteq Nat
    BY <1>15
  <2>3. \A o \in 1..size : o \in Nat
    OBVIOUS
  <2> QED
    BY <2>1, <2>2, <2>3
<1> QED
  BY <1>5, <1>7, <1>10, <1>13, <1>14, <1>19, <1>20

(* ImageFaithful, with what it needs: the map is made once, from the list. *)
ImageInv ==
  /\ memoryList \in MemoryLists
  /\ regions = FromUnified(memoryList)
  /\ ImageFaithful

(* A module image written from a dump is what the dump file lists, and     *)
(* both counts of its bytes are right, whatever regions the file lists     *)
(* (extract_module_pe, merge_adjacent, read_at, coverage_ratio).           *)
THEOREM ImagesAreFaithful == DumpSpec => []ImageFaithful
<1>1. DumpInit => ImageInv
  <2> SUFFICES ASSUME DumpInit PROVE ImageInv
    OBVIOUS
  <2>1. extracted.state = "none"
    BY DEF DumpInit, NotExtracted
  <2> QED
    BY <2>1 DEF DumpInit, ImageInv, ImageFaithful
<1>2. ImageInv /\ [DumpNext]_dumpVars => ImageInv'
  <2> SUFFICES ASSUME ImageInv, [DumpNext]_dumpVars PROVE ImageInv'
    OBVIOUS
  <2>1. ASSUME UNCHANGED <<memoryList, regions, extracted>> PROVE ImageInv'
    BY <2>1 DEF ImageInv, ImageFaithful, ListedAt, TruePlace, Covered, CoveredPart
  <2>2. ASSUME NEW base \in 0..TOP, NEW size \in 1..TOP, Extract(base, size) PROVE ImageInv'
    <3>1. memoryList' = memoryList /\ regions' = regions
      BY <2>2 DEF Extract
    <3>2. memoryList' \in MemoryLists /\ regions' = FromUnified(memoryList')
      BY <3>1 DEF ImageInv
    <3>3. base \in Nat /\ size \in Nat
      BY DumpAssumption
    <3>4. PICK img : img = ImageOf(Copies(base, size), size)
      OBVIOUS
    <3>5. PICK present : present = PresentOf(Copies(base, size))
      OBVIOUS
    <3>6. CASE extracted' = [NotExtracted EXCEPT !.state = "failed"]
      <4>1. extracted'.state = "failed"
        BY <3>6 DEF NotExtracted
      <4> QED
        BY <3>2, <4>1 DEF ImageInv, ImageFaithful
    <3>7. CASE extracted' = [base |-> base, size |-> size, image |-> img,
                             present |-> present, state |-> "written"]
      <4>1. /\ extracted'.base = base /\ extracted'.size = size /\ extracted'.image = img
            /\ extracted'.present = present
        BY <3>7
      <4>2. /\ \A o \in 1..size :
                 img[o] = IF base + o - 1 < TOP /\ ListedAt(base + o - 1) # {}
                          THEN TruePlace(base + o - 1) ELSE Hole
            /\ present = Cardinality({o \in 1..size : img[o] # Hole})
            /\ present = Covered(base, size)
        BY <3>3, <3>4, <3>5, ExtractIs DEF ImageInv
      <4>3. \A va : ListedAt(va)' = ListedAt(va) /\ TruePlace(va)' = TruePlace(va)
        BY <3>1 DEF ListedAt, TruePlace
      <4>4. Covered(base, size)' = Covered(base, size)
        BY <3>1 DEF Covered, CoveredPart
      <4>5. ImageFaithful'
        BY <4>1, <4>2, <4>3, <4>4 DEF ImageFaithful
      <4> QED
        BY <3>2, <4>5 DEF ImageInv
    <3> QED
      BY <2>2, <3>4, <3>5, <3>6, <3>7 DEF Extract
  <2>3. CASE UNCHANGED dumpVars
    BY <2>1, <2>3 DEF dumpVars
  <2>4. CASE DumpNext
    <3>1. CASE \E base \in 0..TOP, size \in 1..TOP : Extract(base, size)
      BY <2>2, <3>1
    <3>2. CASE \E fp, sp \in 0..TOP, maxFrames \in 0..(MAX_FRAMES_HARD + 1) :
                 StartWalk(fp, sp, maxFrames)
      BY <2>1, <3>2 DEF StartWalk
    <3>3. CASE FpDepthCap
      BY <2>1, <3>3 DEF FpDepthCap
    <3>4. CASE \E savedFp \in 0..TOP, ret \in 0..1 : FpStep(savedFp, ret)
      BY <2>1, <3>4 DEF FpStep
    <3>5. CASE \E isReturn \in BOOLEAN : ScanStep(isReturn)
      BY <2>1, <3>5 DEF ScanStep
    <3>6. CASE ScanEnds
      BY <2>1, <3>6 DEF ScanEnds
    <3> QED
      BY <2>4, <3>1, <3>2, <3>3, <3>4, <3>5, <3>6 DEF DumpNext
  <2> QED
    BY <2>3, <2>4
<1>3. ImageInv => ImageFaithful
  BY DEF ImageInv
<1> QED
  BY <1>1, <1>2, <1>3, PTL DEF DumpSpec

----------------------------------------------------------------------------
(* Deep indexes are built once and released, for any number of handles,    *)
(* callers and calls.                                                      *)


(* The shape the proofs need: the counters are only natural numbers, as    *)
(* the bound of the calls plays no part.                                   *)
DeepShape ==
  /\ sketch \in [Handles -> {"ready", "promoted", "gone"}]
  /\ deep \in [Handles -> DeepStates]
  /\ deepCall \in [DeepCallers -> [pc : {"idle", "source", "insert", "wait"}, handle : Handles,
                                   answer : {"none", "complete", "error", "pending"}]]
  /\ closing \subseteq Handles
  /\ building \in [Handles -> Nat]
  /\ built \in [Handles -> Nat]
  /\ raced \subseteq Handles
  /\ late \subseteq Handles

(* A call past FindSource will start a build whatever happens. *)
Inserting(c, h) == At(c, "insert") /\ HandleOf(c) = h
Seeking(c, h)   == deepCall[c].pc \in {"source", "insert"} /\ HandleOf(c) = h

(* Unless two calls raced, one call at most is about to build, none once a *)
(* build was started; and what the job let go of is not found again.       *)
OneBuilder ==
  \A h \in Handles \ raced :
    /\ built[h] <= 1
    /\ \A c, d \in DeepCallers : Seeking(c, h) /\ Seeking(d, h) /\ sketch[h] # "gone" => c = d
    /\ \A c, d \in DeepCallers : Inserting(c, h) /\ Seeking(d, h) => c = d
    /\ built[h] = 1 =>
         /\ deep[h] # "none" \/ sketch[h] = "gone"
         /\ \A c \in DeepCallers : ~Inserting(c, h)
         /\ \A c \in DeepCallers : Seeking(c, h) => sketch[h] = "gone"

(* target_close leaves nothing behind that could enter the index again. *)
Released ==
  \A h \in Handles :
    /\ h \in closing => sketch[h] = "gone"
    /\ sketch[h] = "gone" /\ h \notin closing \cup late =>
         /\ deep[h] = "none"
         /\ building[h] = 0
         /\ \A c \in DeepCallers : ~Inserting(c, h)

DeepInv == DeepShape /\ OneBuilder /\ Released

----------------------------------------------------------------------------
LEMMA DeepStarts == DeepInit => DeepInv
<1>1. SUFFICES ASSUME DeepInit PROVE DeepInv
  OBVIOUS
<1>2. DeepShape
  <2>1. deepCall \in [DeepCallers -> [pc : {"idle", "source", "insert", "wait"}, handle : Handles,
                                      answer : {"none", "complete", "error", "pending"}]]
    BY <1>1 DEF DeepInit
  <2>2. /\ sketch \in [Handles -> {"ready", "promoted", "gone"}]
        /\ deep \in [Handles -> DeepStates]
    BY <1>1 DEF DeepInit, DeepStates
  <2>3. /\ building \in [Handles -> Nat]
        /\ built \in [Handles -> Nat]
    BY <1>1 DEF DeepInit
  <2>4. closing \subseteq Handles /\ raced \subseteq Handles /\ late \subseteq Handles
    BY <1>1 DEF DeepInit
  <2>5. QED
    BY <2>1, <2>2, <2>3, <2>4 DEF DeepShape
<1>3. \A c \in DeepCallers : deepCall[c].pc = "idle"
  BY <1>1 DEF DeepInit
<1>4. OneBuilder
  <2>1. \A c \in DeepCallers, h \in Handles : ~Seeking(c, h) /\ ~Inserting(c, h)
    BY <1>3 DEF Inserting, Seeking, At
  <2>2. \A h \in Handles : built[h] = 0
    BY <1>1 DEF DeepInit
  <2>3. \A h \in Handles : built[h] <= 1 /\ built[h] # 1
    <3>1. SUFFICES ASSUME NEW h \in Handles PROVE built[h] <= 1 /\ built[h] # 1
      OBVIOUS
    <3>2. built[h] = 0
      BY <2>2
    <3>3. QED
      BY <3>2
  <2>4. QED
    BY <2>1, <2>3, Zenon DEF OneBuilder
<1>5. Released
  BY <1>1, <1>3 DEF DeepInit, Released
<1>6. QED
  BY <1>2, <1>4, <1>5 DEF DeepInv

(* What a call's step leaves of the calls: its own record changes, no      *)
(* other.                                                                  *)
LEMMA OthersStay ==
  ASSUME DeepShape, NEW c \in DeepCallers, NEW r, deepCall' = [deepCall EXCEPT ![c] = r]
  PROVE  /\ deepCall'[c] = r
         /\ \A d \in DeepCallers \ {c} : deepCall'[d] = deepCall[d]
BY DEF DeepShape

LEMMA LookUpDeepKeeps ==
  ASSUME DeepInv, NEW c \in DeepCallers, NEW h \in Handles, LookUpDeep(c, h)
  PROVE  DeepInv'
<1> DEFINE r == [pc |-> IF ExistingDeep(h) THEN "wait" ELSE "source", handle |-> h, answer |-> "none"]
<1>1. DeepShape
  BY DEF DeepInv
<1>2. deepCall' = [deepCall EXCEPT ![c] = r] /\ At(c, "idle")
  BY DEF LookUpDeep
<1>3. /\ deepCall'[c] = r
      /\ \A d \in DeepCallers \ {c} : deepCall'[d] = deepCall[d]
  BY <1>1, <1>2, OthersStay
<1>4. UNCHANGED <<sketch, deep, closing, building, built, late>>
  BY DEF LookUpDeep
<1>5. DeepShape'
  <2>1. r \in [pc : {"idle", "source", "insert", "wait"}, handle : Handles,
               answer : {"none", "complete", "error", "pending"}]
    OBVIOUS
  <2>2. raced' \subseteq Handles
    BY <1>1 DEF LookUpDeep, DeepShape
  <2>3. QED
    BY <1>1, <1>2, <1>4, <2>1, <2>2 DEF DeepShape
<1>6. OneBuilder'
  <2>1. SUFFICES ASSUME NEW k \in Handles, k \notin raced'
                 PROVE  /\ built[k] <= 1
                        /\ \A d, e \in DeepCallers : Seeking(d, k)' /\ Seeking(e, k)' /\ sketch[k] # "gone" => d = e
                        /\ \A d, e \in DeepCallers : Inserting(d, k)' /\ Seeking(e, k)' => d = e
                        /\ built[k] = 1 =>
                             /\ deep[k] # "none" \/ sketch[k] = "gone"
                             /\ \A d \in DeepCallers : ~Inserting(d, k)'
                             /\ \A d \in DeepCallers : Seeking(d, k)' => sketch[k] = "gone"
    BY <1>4 DEF OneBuilder
  <2>2. k \notin raced
    BY <2>1 DEF LookUpDeep
  <2>3. \A d \in DeepCallers \ {c} : /\ Seeking(d, k)' <=> Seeking(d, k)
                                     /\ Inserting(d, k)' <=> Inserting(d, k)
    BY <1>3 DEF Seeking, Inserting, At, HandleOf
  <2>4. ~Inserting(c, k)'
    BY <1>3 DEF Inserting, At
  <2>5. CASE Seeking(c, k)'
    <3>1. k = h /\ ~ExistingDeep(h)
      BY <1>3, <2>5 DEF Seeking, HandleOf
    <3>2. \A d \in DeepCallers : ~Seeking(d, k)
      BY <2>1, <3>1 DEF LookUpDeep, AboutToBuild, Seeking
    <3>3. deep[k] = "none"
      BY <3>1 DEF ExistingDeep
    <3>4. \A d \in DeepCallers : ~Inserting(d, k)
      BY <3>2 DEF Inserting, Seeking, At
    <3>5. QED
      BY <2>2, <2>3, <2>4, <3>2, <3>3, <3>4 DEF DeepInv, OneBuilder
  <2>6. CASE ~Seeking(c, k)'
    BY <2>2, <2>3, <2>4, <2>6 DEF DeepInv, OneBuilder
  <2>7. QED
    BY <2>5, <2>6
<1>7. Released'
  <2>1. \A d \in DeepCallers, k \in Handles : Inserting(d, k)' => Inserting(d, k)
    BY <1>3 DEF Inserting, At, HandleOf
  <2>2. QED
    BY <1>4, <2>1 DEF DeepInv, Released
<1>8. QED
  BY <1>5, <1>6, <1>7 DEF DeepInv

(* A call that ends is about to do nothing; so is one that waits. *)
LEMMA CallLeaves ==
  ASSUME DeepInv, NEW c \in DeepCallers,
         NEW r \in [pc : {"idle", "wait"}, handle : Handles,
                    answer : {"none", "complete", "error", "pending"}],
         deepCall' = [deepCall EXCEPT ![c] = r],
         UNCHANGED <<sketch, deep, closing, building, built, raced, late>>
  PROVE  DeepInv'
<1>1. DeepShape
  BY DEF DeepInv
<1>2. /\ deepCall'[c] = r
      /\ \A d \in DeepCallers \ {c} : deepCall'[d] = deepCall[d]
  BY <1>1, OthersStay
<1>3. DeepShape'
  BY <1>1 DEF DeepShape
<1>4. \A d \in DeepCallers, k \in Handles : /\ Seeking(d, k)' => Seeking(d, k)
                                            /\ Inserting(d, k)' => Inserting(d, k)
  BY <1>2 DEF Seeking, Inserting, At, HandleOf
<1>5. OneBuilder'
  BY <1>4 DEF DeepInv, OneBuilder
<1>6. Released'
  BY <1>4 DEF DeepInv, Released
<1>7. QED
  BY <1>3, <1>5, <1>6 DEF DeepInv

LEMMA FindSourceKeeps ==
  ASSUME DeepInv, NEW c \in DeepCallers, FindSource(c)
  PROVE  DeepInv'
<1>1. DeepShape
  BY DEF DeepInv
<1>2. HandleOf(c) \in Handles /\ At(c, "source")
  BY <1>1 DEF DeepShape, HandleOf, FindSource
<1>3. UNCHANGED <<sketch, deep, closing, building, built, raced, late>>
  BY DEF FindSource
<1>4. CASE sketch[HandleOf(c)] # "ready"
  BY <1>2, <1>3, <1>4, CallLeaves DEF FindSource, AnswersWith
<1>5. CASE sketch[HandleOf(c)] = "ready"
  <2> DEFINE r == [deepCall[c] EXCEPT !.pc = "insert"]
  <2>1. deepCall' = [deepCall EXCEPT ![c] = r]
    BY <1>5 DEF FindSource, Goes
  <2>2. /\ deepCall'[c] = r
        /\ \A d \in DeepCallers \ {c} : deepCall'[d] = deepCall[d]
    BY <1>1, <2>1, OthersStay
  <2>3. r \in [pc : {"idle", "source", "insert", "wait"}, handle : Handles,
               answer : {"none", "complete", "error", "pending"}]
        /\ r.pc = "insert" /\ r.handle = HandleOf(c)
    BY <1>1 DEF DeepShape, HandleOf
  <2>4. DeepShape'
    BY <1>1, <1>3, <2>1, <2>3 DEF DeepShape
  <2>5. \A d \in DeepCallers, k \in Handles : Seeking(d, k)' <=> Seeking(d, k)
    BY <1>2, <2>2, <2>3 DEF Seeking, At, HandleOf
  <2>6. \A d \in DeepCallers, k \in Handles :
          Inserting(d, k)' => Inserting(d, k) \/ (d = c /\ k = HandleOf(c) /\ Seeking(c, k))
    BY <1>2, <2>2, <2>3 DEF Inserting, Seeking, At, HandleOf
  <2>7. OneBuilder'
    BY <1>1, <1>3, <1>5, <2>5, <2>6 DEF DeepInv, DeepShape, OneBuilder
  <2>8. Released'
    BY <1>3, <1>5, <2>6 DEF DeepInv, Released
  <2>9. QED
    BY <2>4, <2>7, <2>8 DEF DeepInv
<1>6. QED
  BY <1>4, <1>5

LEMMA StartBuildKeeps ==
  ASSUME DeepInv, NEW c \in DeepCallers, StartBuild(c)
  PROVE  DeepInv'
<1> DEFINE h == HandleOf(c)
           r == [deepCall[c] EXCEPT !.pc = "wait"]
<1>1. DeepShape
  BY DEF DeepInv
<1>2. h \in Handles /\ Inserting(c, h) /\ Seeking(c, h)
  BY <1>1 DEF DeepShape, HandleOf, StartBuild, Inserting, Seeking, At
<1>3. deepCall' = [deepCall EXCEPT ![c] = r]
  BY DEF StartBuild, Goes
<1>4. /\ deepCall'[c] = r
      /\ \A d \in DeepCallers \ {c} : deepCall'[d] = deepCall[d]
  BY <1>1, <1>3, OthersStay
<1>5. r \in [pc : {"idle", "source", "insert", "wait"}, handle : Handles,
             answer : {"none", "complete", "error", "pending"}]
      /\ r.pc = "wait" /\ r.handle = h
  BY <1>1 DEF DeepShape, HandleOf
<1>6. /\ deep' = [deep EXCEPT ![h] = "running"]
      /\ building' = [building EXCEPT ![h] = building[h] + 1]
      /\ built' = [built EXCEPT ![h] = built[h] + 1]
      /\ UNCHANGED <<sketch, closing, raced, late>>
  BY DEF StartBuild
<1> HIDE DEF r, h
<1>7. DeepShape'
  <2>1. deepCall' \in [DeepCallers -> [pc : {"idle", "source", "insert", "wait"}, handle : Handles,
                                       answer : {"none", "complete", "error", "pending"}]]
    BY <1>1, <1>3, <1>5 DEF DeepShape
  <2>2. deep' \in [Handles -> DeepStates]
    BY <1>1, <1>6 DEF DeepShape, DeepStates
  <2>3. building' \in [Handles -> Nat] /\ built' \in [Handles -> Nat]
    BY <1>1, <1>2, <1>6 DEF DeepShape
  <2>4. QED
    BY <1>1, <1>6, <2>1, <2>2, <2>3 DEF DeepShape
<1>8. \A d \in DeepCallers, k \in Handles :
        /\ Seeking(d, k)' => d # c /\ Seeking(d, k)
        /\ Inserting(d, k)' => d # c /\ Inserting(d, k)
  BY <1>4, <1>5 DEF Seeking, Inserting, At, HandleOf
<1>9. OneBuilder'
  <2>1. SUFFICES ASSUME NEW k \in Handles \ raced
                 PROVE  /\ built'[k] <= 1
                        /\ \A d, e \in DeepCallers : Seeking(d, k)' /\ Seeking(e, k)' /\ sketch[k] # "gone" => d = e
                        /\ \A d, e \in DeepCallers : Inserting(d, k)' /\ Seeking(e, k)' => d = e
                        /\ built'[k] = 1 =>
                             /\ deep'[k] # "none" \/ sketch[k] = "gone"
                             /\ \A d \in DeepCallers : ~Inserting(d, k)'
                             /\ \A d \in DeepCallers : Seeking(d, k)' => sketch[k] = "gone"
    BY <1>6 DEF OneBuilder
  <2>2. /\ built[k] <= 1
        /\ \A d, e \in DeepCallers : Seeking(d, k) /\ Seeking(e, k) /\ sketch[k] # "gone" => d = e
        /\ \A d, e \in DeepCallers : Inserting(d, k) /\ Seeking(e, k) => d = e
        /\ built[k] = 1 =>
             /\ deep[k] # "none" \/ sketch[k] = "gone"
             /\ \A d \in DeepCallers : ~Inserting(d, k)
             /\ \A d \in DeepCallers : Seeking(d, k) => sketch[k] = "gone"
    BY DEF DeepInv, OneBuilder
  <2>3. CASE k = h
    <3>1. \A d \in DeepCallers : ~Seeking(d, k)'
      BY <1>2, <1>8, <2>2, <2>3
    <3>2. \A d \in DeepCallers : ~Inserting(d, k)'
      BY <3>1 DEF Inserting, Seeking, At
    <3>3. built[k] = 0
      BY <1>1, <1>2, <2>2, <2>3 DEF DeepShape
    <3>4. built'[k] = 1 /\ deep'[k] = "running"
      BY <1>1, <1>6, <2>3, <3>3 DEF DeepShape
    <3>5. QED
      BY <3>1, <3>2, <3>4
  <2>4. CASE k # h
    <3>1. built'[k] = built[k] /\ deep'[k] = deep[k]
      BY <1>1, <1>6, <2>4 DEF DeepShape
    <3>2. QED
      BY <1>8, <2>2, <3>1
  <2>5. QED
    BY <2>3, <2>4
<1>10. Released'
  <2>1. ~(sketch[h] = "gone" /\ h \notin closing \cup late)
    BY <1>2 DEF DeepInv, Released
  <2>2. \A k \in Handles : k # h => building'[k] = building[k] /\ deep'[k] = deep[k]
    BY <1>1, <1>6 DEF DeepShape
  <2>3. QED
    BY <1>6, <1>8, <2>1, <2>2 DEF DeepInv, Released
<1>11. QED
  BY <1>7, <1>9, <1>10 DEF DeepInv

LEMMA BuildEndsKeeps ==
  ASSUME DeepInv, NEW h \in Handles, BuildEnds(h)
  PROVE  DeepInv'
<1>1. DeepShape
  BY DEF DeepInv
<1>2. PICK outcome \in {"ready", "failed"} : deep' = [deep EXCEPT ![h] = outcome]
  BY DEF BuildEnds
<1>3. /\ building[h] > 0
      /\ building' = [building EXCEPT ![h] = building[h] - 1]
      /\ UNCHANGED <<sketch, deepCall, closing, built, raced, late>>
  BY DEF BuildEnds
<1>4. DeepShape'
  <2>1. deep' \in [Handles -> DeepStates]
    BY <1>1, <1>2 DEF DeepShape, DeepStates
  <2>2. building' \in [Handles -> Nat]
    BY <1>1, <1>3 DEF DeepShape
  <2>3. QED
    BY <1>1, <1>3, <2>1, <2>2 DEF DeepShape
<1>5. \A c \in DeepCallers, k \in Handles :
        (Seeking(c, k)' <=> Seeking(c, k)) /\ (Inserting(c, k)' <=> Inserting(c, k))
  BY <1>3 DEF Seeking, Inserting, At, HandleOf
<1>6. \A k \in Handles : deep[k] # "none" => deep'[k] # "none"
  BY <1>1, <1>2 DEF DeepShape
<1>7. OneBuilder'
  BY <1>3, <1>5, <1>6 DEF DeepInv, OneBuilder
<1>8. Released'
  <2>1. ~(sketch[h] = "gone" /\ h \notin closing \cup late)
    BY <1>3 DEF DeepInv, Released
  <2>2. \A k \in Handles : k # h => building'[k] = building[k] /\ deep'[k] = deep[k]
    BY <1>1, <1>2, <1>3 DEF DeepShape
  <2>3. QED
    BY <1>3, <1>5, <2>1, <2>2 DEF DeepInv, Released
<1>9. QED
  BY <1>4, <1>7, <1>8 DEF DeepInv

----------------------------------------------------------------------------
(* The job of a handle goes away, or is promoted. *)
LEMMA SketchLeaves ==
  ASSUME DeepInv, NEW h \in Handles,
         NEW s \in {"gone", "promoted"},
         sketch[h] # "gone", sketch' = [sketch EXCEPT ![h] = s],
         s = "gone" => h \in closing' \cup late',
         closing \subseteq closing', late \subseteq late',
         closing' \subseteq closing \cup {h}, late' \subseteq late \cup {h},
         s = "promoted" => closing' = closing,
         UNCHANGED <<deep, deepCall, building, built, raced>>
  PROVE  DeepInv'
<1>1. DeepShape
  BY DEF DeepInv
<1>2. sketch'[h] = s /\ \A k \in Handles \ {h} : sketch'[k] = sketch[k]
  BY <1>1 DEF DeepShape
<1>3. DeepShape'
  <2>1. sketch' \in [Handles -> {"ready", "promoted", "gone"}]
    BY <1>1 DEF DeepShape
  <2>2. QED
    BY <1>1, <2>1 DEF DeepShape
<1>4. \A c \in DeepCallers, k \in Handles :
        (Seeking(c, k)' <=> Seeking(c, k)) /\ (Inserting(c, k)' <=> Inserting(c, k))
  BY DEF Seeking, Inserting, At, HandleOf
<1>5. \A k \in Handles : sketch[k] = "gone" => sketch'[k] = "gone"
  BY <1>2
<1>6. OneBuilder'
  BY <1>4, <1>5 DEF DeepInv, OneBuilder
<1>7. Released'
  BY <1>2, <1>4 DEF DeepInv, Released
<1>8. QED
  BY <1>3, <1>6, <1>7 DEF DeepInv

LEMMA CloseDeepKeeps ==
  ASSUME DeepInv, NEW h \in Handles, CloseDeep(h)
  PROVE  DeepInv'
<1>1. DeepShape
  BY DEF DeepInv
<1>2. sketch[h] = "gone"
  BY DEF DeepInv, Released, CloseDeep
<1>3. /\ closing' = closing \ {h}
      /\ deep' = [deep EXCEPT ![h] = "none"]
      /\ UNCHANGED <<sketch, deepCall, building, built, raced>>
  BY DEF CloseDeep
<1>4. DeepShape'
  <2>1. deep' \in [Handles -> DeepStates]
    BY <1>1, <1>3 DEF DeepShape, DeepStates
  <2>2. late' \subseteq Handles
    BY <1>1 DEF DeepShape, CloseDeep
  <2>3. QED
    BY <1>1, <1>3, <2>1, <2>2 DEF DeepShape
<1>5. \A c \in DeepCallers, k \in Handles :
        (Seeking(c, k)' <=> Seeking(c, k)) /\ (Inserting(c, k)' <=> Inserting(c, k))
  BY <1>3 DEF Seeking, Inserting, At, HandleOf
<1>6. deep'[h] = "none" /\ \A k \in Handles \ {h} : deep'[k] = deep[k]
  BY <1>1, <1>3 DEF DeepShape
<1>7. OneBuilder'
  BY <1>2, <1>3, <1>5, <1>6 DEF DeepInv, OneBuilder
<1>8. Released'
  <2>1. h \notin late' => building[h] = 0 /\ \A c \in DeepCallers : ~Inserting(c, h)
    BY <1>1 DEF CloseDeep, AboutToBuild, Inserting, At, DeepShape
  <2>2. late \subseteq late' /\ late' \subseteq late \cup {h}
    BY DEF CloseDeep
  <2>3. QED
    BY <1>3, <1>5, <1>6, <2>1, <2>2 DEF DeepInv, Released
<1>9. QED
  BY <1>4, <1>7, <1>8 DEF DeepInv

LEMMA DeepNextKeeps == DeepInv /\ [DeepNext]_deepVars => DeepInv'
<1> SUFFICES ASSUME DeepInv, [DeepNext]_deepVars PROVE DeepInv'
  OBVIOUS
<1>1. ASSUME NEW c \in DeepCallers, NEW h \in Handles, LookUpDeep(c, h) PROVE DeepInv'
  BY <1>1, LookUpDeepKeeps
<1>2. ASSUME NEW c \in DeepCallers, FindSource(c) PROVE DeepInv'
  BY <1>2, FindSourceKeeps
<1>3. ASSUME NEW c \in DeepCallers, StartBuild(c) PROVE DeepInv'
  BY <1>3, StartBuildKeeps
<1>4. ASSUME NEW c \in DeepCallers, DeepAnswers(c) PROVE DeepInv'
  <2>1. HandleOf(c) \in Handles
    BY DEF DeepInv, DeepShape, HandleOf
  <2>2. PICK answer \in {"complete", "error", "pending"} : AnswersWith(c, answer)
    BY <1>4 DEF DeepAnswers
  <2>3. [pc |-> "idle", handle |-> HandleOf(c), answer |-> answer]
          \in [pc : {"idle", "wait"}, handle : Handles,
               answer : {"none", "complete", "error", "pending"}]
    BY <2>1
  <2>4. UNCHANGED <<sketch, deep, closing, building, built, raced, late>>
    BY <1>4 DEF DeepAnswers
  <2>5. QED
    BY <2>2, <2>3, <2>4, CallLeaves DEF AnswersWith
<1>5. ASSUME NEW h \in Handles, BuildEnds(h) PROVE DeepInv'
  BY <1>5, BuildEndsKeeps
<1>6. ASSUME NEW h \in Handles, CloseSketch(h) PROVE DeepInv'
  BY <1>6, SketchLeaves DEF CloseSketch
<1>7. ASSUME NEW h \in Handles, CloseDeep(h) PROVE DeepInv'
  BY <1>7, CloseDeepKeeps
<1>8. ASSUME NEW h \in Handles, DropSketch(h) PROVE DeepInv'
  BY <1>8, SketchLeaves DEF DropSketch
<1>9. ASSUME NEW h \in Handles, PromoteSketchJob(h) PROVE DeepInv'
  BY <1>9, SketchLeaves DEF PromoteSketchJob
<1>10. CASE UNCHANGED deepVars
  BY <1>10 DEF deepVars, DeepInv, DeepShape, OneBuilder, Released, Seeking, Inserting, At, HandleOf
<1>11. QED
  BY <1>1, <1>2, <1>3, <1>4, <1>5, <1>6, <1>7, <1>8, <1>9, <1>10 DEF DeepNext

----------------------------------------------------------------------------
(* __build_deep_index indexes an image once per handle, for any number of  *)
(* concurrent calls, closes and builds, unless two calls looked in         *)
(* deep_jobs before either had entered its own.                            *)
THEOREM DeepOnce == DeepSpec => []DeepBuiltOnce
<1>1. DeepInv => DeepBuiltOnce
  BY DEF DeepInv, DeepShape, OneBuilder, DeepBuiltOnce
<1>2. QED
  BY <1>1, DeepStarts, DeepNextKeeps, PTL DEF DeepSpec

(* An entry of deep_jobs outlives its job only if a build or a call was    *)
(* under way when target_close let go of it, or if the job was pruned or   *)
(* evicted.                                                                *)
THEOREM DeepLetGo == DeepSpec => []DeepReleased
<1>1. DeepInv => DeepReleased
  BY DEF DeepInv, Released, DeepReleased
<1>2. QED
  BY <1>1, DeepStarts, DeepNextKeeps, PTL DEF DeepSpec

=============================================================================
