---------------------------- MODULE MCComponents ----------------------------
(***************************************************************************)
(* The parts of ProjectManager, of the MCP server, of the decompiler and   *)
(* of the loader that share no state with one another, each checked on its *)
(* own: a behaviour is one of one part, chosen at the start, while the     *)
(* others rest in their initial state.                                     *)
(***************************************************************************)
EXTENDS DecompileCache, ActivityFeed, TargetRegistry, RecentProjects, Workspaces, StructuralCache,
        Artifacts, Investigations, DeepIndex, SsaForm, DumpMemory

VARIABLE part

componentVars ==
  <<part, cacheVars, feedVars, registryVars, recentVars, workspaceVars,
    structuralVars, artifactVars, investigationVars, deepVars, ssaVars, dumpVars>>

MCDecompileOptions == {[mode |-> "v2", fallback |-> TRUE], [mode |-> "v2", fallback |-> FALSE]}
MCNameIn == [m \in Modules |-> IF m = "b" THEN {"b", "ab"} ELSE {m}]

(* Pages of 256 and of 2048 bytes end inside a character. *)
MCResultBodies == {[len |-> 600, inside |-> {255, 256, 512}], [len |-> 4200, inside |-> {2047, 2048}]}

(* Every graph of three blocks: with any blocks writing, in both branch    *)
(* orders, and entered at the second block.  Every graph of four blocks    *)
(* that no edge leads back to the first of, two of them writing.           *)
RestingFlow == [succ |-> << <<>> >>, entry |-> 1, defs |-> {}]
Branches(S) == {SetToSortSeq(T, <) : T \in {U \in SUBSET S : Cardinality(U) <= 2}}
MCFlows ==
  {RestingFlow}
  \cup [succ : [1..3 -> Branches(1..3)], entry : {1}, defs : SUBSET (1..3)]
  \cup [succ : [1..3 -> Branches(1..3) \cup {Reverse(s) : s \in Branches(1..3)}],
        entry : {1}, defs : {{2, 3}}]
  \cup [succ : [1..3 -> Branches(1..3)], entry : {2}, defs : {{1, 2}}]
  \cup [succ : [1..4 -> Branches(2..4)], entry : {1}, defs : {{1, 2}, {2, 3}}]

(* Two or three regions, apart or adjacent, in the file too or not. *)
Piece(va, size, place) == [va |-> va, size |-> size, data |-> place]
MCMemoryLists ==
  {{}} \cup {{Piece(a, 2, 10), Piece(b, n, d)} : a \in {0, 1}, b \in {3, 4}, n \in {0, 1, 3}, d \in {12, 20}}
  \cup {{Piece(1, 2, 10), Piece(3, 1, 12), Piece(4, 2, d)} : d \in {13, 20}}

ComponentsInit ==
  /\ part \in {"cache", "feed", "registry", "recent", "workspaces",
               "structural", "artifacts", "investigations", "deep", "ssa", "dump"}
  /\ part = "ssa" \/ flow = RestingFlow
  /\ part = "dump" \/ memoryList = {}
  /\ CacheInit
  /\ FeedInit
  /\ RegistryInit
  /\ RecentInit
  /\ WorkspaceInit
  /\ StructuralInit
  /\ ArtifactsInit
  /\ InvestigationsInit
  /\ DeepInit
  /\ SsaInit
  /\ DumpInit
  /\ part # "workspaces" => file = [p \in Paths |-> [sha256 |-> CHOOSE x \in Contents : TRUE, version |-> 0]]
  /\ part # "investigations" => \A t \in TargetIds : openTarget[t].state = "new"
  /\ part # "structural" => image.content = CHOOSE x \in ImageContents : TRUE

CacheTurn ==
  /\ part = "cache"
  /\ CacheNext
  /\ UNCHANGED <<part, feedVars, registryVars, recentVars, workspaceVars,
                 structuralVars, artifactVars, investigationVars, deepVars, ssaVars, dumpVars>>

FeedTurn ==
  /\ part = "feed"
  /\ FeedNext
  /\ UNCHANGED <<part, cacheVars, registryVars, recentVars, workspaceVars,
                 structuralVars, artifactVars, investigationVars, deepVars, ssaVars, dumpVars>>

RegistryTurn ==
  /\ part = "registry"
  /\ RegistryNext
  /\ UNCHANGED <<part, cacheVars, feedVars, recentVars, workspaceVars,
                 structuralVars, artifactVars, investigationVars, deepVars, ssaVars, dumpVars>>

RecentTurn ==
  /\ part = "recent"
  /\ RecentNext
  /\ UNCHANGED <<part, cacheVars, feedVars, registryVars, workspaceVars,
                 structuralVars, artifactVars, investigationVars, deepVars, ssaVars, dumpVars>>

WorkspaceTurn ==
  /\ part = "workspaces"
  /\ WorkspaceNext
  /\ UNCHANGED <<part, cacheVars, feedVars, registryVars, recentVars, structuralVars,
                 artifactVars, investigationVars, deepVars, ssaVars, dumpVars>>

StructuralTurn ==
  /\ part = "structural"
  /\ StructuralNext
  /\ UNCHANGED <<part, cacheVars, feedVars, registryVars, recentVars, workspaceVars,
                 artifactVars, investigationVars, deepVars, ssaVars, dumpVars>>

ArtifactsTurn ==
  /\ part = "artifacts"
  /\ ArtifactsNext
  /\ UNCHANGED <<part, cacheVars, feedVars, registryVars, recentVars, workspaceVars,
                 structuralVars, investigationVars, deepVars, ssaVars, dumpVars>>

InvestigationsTurn ==
  /\ part = "investigations"
  /\ InvestigationsNext
  /\ UNCHANGED <<part, cacheVars, feedVars, registryVars, recentVars, workspaceVars,
                 structuralVars, artifactVars, deepVars, ssaVars, dumpVars>>

DeepTurn ==
  /\ part = "deep"
  /\ DeepNext
  /\ UNCHANGED <<part, cacheVars, feedVars, registryVars, recentVars, workspaceVars,
                 structuralVars, artifactVars, investigationVars, ssaVars, dumpVars>>

SsaTurn ==
  /\ part = "ssa"
  /\ SsaNext
  /\ UNCHANGED <<part, cacheVars, feedVars, registryVars, recentVars, workspaceVars,
                 structuralVars, artifactVars, investigationVars, deepVars, dumpVars>>

DumpTurn ==
  /\ part = "dump"
  /\ DumpNext
  /\ UNCHANGED <<part, cacheVars, feedVars, registryVars, recentVars, workspaceVars,
                 structuralVars, artifactVars, investigationVars, deepVars, ssaVars>>

ComponentsNext ==
  \/ CacheTurn
  \/ FeedTurn
  \/ RegistryTurn
  \/ RecentTurn
  \/ WorkspaceTurn
  \/ StructuralTurn
  \/ ArtifactsTurn
  \/ InvestigationsTurn
  \/ DeepTurn
  \/ SsaTurn
  \/ DumpTurn

(* In a behaviour of another part a part rests, and its fairness asks for  *)
(* nothing.                                                                *)
ComponentsSpec ==
  /\ ComponentsInit
  /\ [][ComponentsNext]_componentVars
  /\ CacheFairness /\ DeepFairness

ComponentsTypeOK ==
  /\ CacheTypeOK
  /\ FeedTypeOK
  /\ RegistryTypeOK
  /\ RecentTypeOK
  /\ WorkspaceTypeOK
  /\ StructuralTypeOK
  /\ ArtifactsTypeOK
  /\ InvestigationsTypeOK
  /\ DeepTypeOK
  /\ SsaTypeOK
  /\ DumpTypeOK

(* What the parts keep is bounded as the code means it to be: the LRU list *)
(* of artifacts, the recent projects, the files a store leaves behind, the *)
(* investigations and the envelope of an answer.                           *)
BoundsKept ==
  /\ CacheDisciplined
  /\ RecentsOrdered
  /\ NoLeftovers
  /\ InvestigationsBounded
  /\ AnswersWithinBudget
=============================================================================
