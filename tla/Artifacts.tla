----------------------------- MODULE Artifacts -----------------------------
(***************************************************************************)
(* Answers that do not fit the caller's inline budget (mcp.rs,             *)
(* normalize_v3_result) and the reading of what was put aside for them     *)
(* (evidence_read, read_artifact).  Sizes are in bytes and real; a body is *)
(* its length and the positions inside a character of several bytes.       *)
(***************************************************************************)
EXTENDS Integers, Sequences

CONSTANTS ResultBodies,   \* encoded results of tools: [len, inside]
          ReadSizes,      \* values of evidence_read's max_bytes
          Escapes,        \* bytes that quoting a chunk may add
          MaxArtifacts,   \* bound
          MaxReads        \* bound: calls of evidence_read

(* The ends of a body are no positions inside a character, which has at    *)
(* most four bytes.                                                        *)
IsBody(b) ==
  /\ b.len \in Nat
  /\ b.inside \subseteq 1..(b.len - 1)
  /\ \A k \in b.inside : ~({k + 1, k + 2, k + 3} \subseteq b.inside)

ASSUME ArtifactAssumption ==
  /\ \A b \in ResultBodies : IsBody(b)
  /\ ReadSizes \subseteq Nat
  /\ Escapes \subseteq Nat
  /\ MaxArtifacts \in Nat
  /\ MaxReads \in Nat

VARIABLES
  artifacts,   \* sequence of the bodies stored so far and whether they live
  listed,      \* whether the client's investigation is in the map
  reading,     \* the client's paging of one artifact
  reads,       \* number of evidence_read calls
  answer       \* budget and size of the last answer

artifactVars == <<artifacts, listed, reading, reads, answer>>

DEFAULT_INLINE_BYTES == 2048
MAX_INLINE_BYTES     == 8192

(* What an envelope is long without its chunk: a page that is not the last *)
(* (at least), the last page, a preview, and the message in its place.     *)
PAGE_BYTES    == 284
LAST_BYTES    == 247
PREVIEW_BYTES == 563
MESSAGE_BYTES == 402
PREVIEW_CHARS == 512

Smaller(m, n)     == IF m <= n THEN m ELSE n
Clamp(n, lo, hi)  == IF n < lo THEN lo ELSE Smaller(n, hi)

(* The budget of a call and the page size of a read: for evidence_read     *)
(* both come from max_bytes.                                               *)
Budget(n)   == Clamp(n, 512, MAX_INLINE_BYTES)
PageSize(n) == Clamp(n, 256, 8192)

NoReading == [of |-> 0, cursor |-> 0, pages |-> <<>>, shown |-> <<>>, state |-> "idle"]

ArtifactsInit ==
  /\ artifacts = <<>>
  /\ listed = TRUE
  /\ reading = NoReading
  /\ reads = 0
  /\ answer = [budget |-> 512, size |-> 0]

----------------------------------------------------------------------------
Live(a) == a \in 1..Len(artifacts) /\ artifacts[a].live

Put(body) == artifacts' = Append(artifacts, [body |-> body, live |-> TRUE])

(* A tool answers; a result over the budget is stored, and its preview is  *)
(* sent if that fits, or else the message (normalize_v3_result).           *)
Envelope(size, preview, budget) ==
  IF size <= budget THEN size ELSE IF preview <= budget THEN preview ELSE MESSAGE_BYTES

ToolAnswers(body, preview, budget) ==
  /\ body.len > budget => Len(artifacts) < MaxArtifacts
  /\ IF body.len > budget THEN Put(body) ELSE UNCHANGED artifacts
  /\ answer' = [budget |-> budget, size |-> Envelope(body.len, preview, budget)]
  /\ UNCHANGED <<listed, reading, reads>>

(* The client takes up an artifact at the cursor it was given. *)
StartReading(a) ==
  /\ reading.state # "paging"
  /\ a \in 1..Len(artifacts)
  /\ reading' = [NoReading EXCEPT !.of = a, !.state = "paging"]
  /\ UNCHANGED <<artifacts, listed, reads, answer>>

(* The start moves up, the end down, to a boundary of characters. *)
PageStart(body, offset) ==
  LET from == Smaller(offset, body.len)
  IN  CHOOSE s \in from..body.len : /\ s \notin body.inside
                                    /\ \A k \in from..(s - 1) : k \in body.inside

(* Mutant of PageEnd: the end may fall inside a character. *)
PageEndUncut(body, start, size) == Smaller(start + size, body.len)

PageEnd(body, start, size) ==
  LET to == Smaller(start + size, body.len)
  IN  CHOOSE e \in start..to : /\ e \notin body.inside
                               /\ \A k \in (e + 1)..to : k \in body.inside

PageEnvelope(body, start, end, e) ==
  (IF end < body.len THEN PAGE_BYTES ELSE LAST_BYTES) + (end - start) + e

PreviewOf(start, end, e) == PREVIEW_BYTES + Smaller(end - start, PREVIEW_CHARS) + e

(* How far the chunk gets to the client: all of it, its first characters,  *)
(* or none.  Without it the client has no next_cursor either.              *)
ShownTo(body, start, end, e, budget) ==
  IF PageEnvelope(body, start, end, e) <= budget THEN end
  ELSE IF PreviewOf(start, end, e) <= budget THEN start + Smaller(end - start, PREVIEW_CHARS)
  ELSE start

ReadAnswer(body, start, end, e, budget) ==
  Envelope(PageEnvelope(body, start, end, e), PreviewOf(start, end, e), budget)

(* evidence_read: the answer to a read passes through normalize_v3_result  *)
(* like any other, and is stored as an artifact of its own if it is over.  *)
ReadPage(n, e) ==
  /\ reading.state = "paging"
  /\ listed
  /\ Live(reading.of)
  /\ reads < MaxReads
  /\ LET body  == artifacts[reading.of].body
         start == PageStart(body, reading.cursor)
         end   == PageEnd(body, start, PageSize(n))
         size  == PageEnvelope(body, start, end, e)
         shown == ShownTo(body, start, end, e, Budget(n))
     IN  /\ size > Budget(n) => Len(artifacts) < MaxArtifacts
         /\ IF size > Budget(n) THEN Put([len |-> size, inside |-> {}]) ELSE UNCHANGED artifacts
         /\ reading' = [of |-> reading.of, cursor |-> end,
                        pages |-> Append(reading.pages, <<start, end>>),
                        shown |-> Append(reading.shown, <<start, shown>>),
                        state |-> IF end = body.len THEN "complete"
                                  ELSE IF shown = start THEN "stuck" ELSE "paging"]
         /\ answer' = [budget |-> Budget(n), size |-> ReadAnswer(body, start, end, e, Budget(n))]
  /\ reads' = reads + 1
  /\ UNCHANGED listed

(* ARTIFACT_NOT_FOUND or INVESTIGATION_NOT_FOUND. *)
ReadRefused ==
  /\ reading.state = "paging"
  /\ ~(listed /\ Live(reading.of))
  /\ reading' = [reading EXCEPT !.state = "refused"]
  /\ UNCHANGED <<artifacts, listed, reads, answer>>

(* ARTIFACT_TTL passes, the oldest first; the entry is dropped by the next *)
(* call that takes the lock.                                               *)
ExpireArtifact ==
  /\ \E a \in 1..Len(artifacts) :
       /\ artifacts[a].live
       /\ \A k \in 1..(a - 1) : ~artifacts[k].live
       /\ artifacts' = [artifacts EXCEPT ![a].live = FALSE]
  /\ UNCHANGED <<listed, reading, reads, answer>>

(* The investigation expires or is evicted. *)
LoseInvestigation ==
  /\ listed
  /\ listed' = FALSE
  /\ UNCHANGED <<artifacts, reading, reads, answer>>

ArtifactsNext ==
  \/ \E body \in ResultBodies, budget \in {512, DEFAULT_INLINE_BYTES}, preview \in {500, 2000} :
        ToolAnswers(body, preview, budget)
  \/ \E a \in 1..MaxArtifacts : StartReading(a)
  \/ \E n \in ReadSizes, e \in Escapes : ReadPage(n, e)
  \/ ReadRefused
  \/ ExpireArtifact
  \/ LoseInvestigation

ArtifactsSpec == ArtifactsInit /\ [][ArtifactsNext]_artifactVars

----------------------------------------------------------------------------
ArtifactsTypeOK ==
  /\ Len(artifacts) <= MaxArtifacts
  /\ \A a \in 1..Len(artifacts) : artifacts[a].body.len \in Nat /\ artifacts[a].live \in BOOLEAN
  /\ listed \in BOOLEAN
  /\ reading.of \in 0..MaxArtifacts
  /\ reading.cursor \in Nat
  /\ reading.state \in {"idle", "paging", "complete", "stuck", "refused"}
  /\ reads \in 0..MaxReads
  /\ answer.budget \in 512..MAX_INLINE_BYTES
  /\ answer.size \in Nat

(* Paging is sound: whatever page sizes a client mixes and wherever they   *)
(* cut a character, the chunks read_artifact takes follow one another      *)
(* without gap or overlap, each moves on, and "complete" is said at the    *)
(* end of the body and nowhere else.                                       *)
PagesTile ==
  LET n == Len(reading.pages)
  IN  n > 0 =>
        /\ reading.pages[1][1] = 0
        /\ \A i \in 1..n : reading.pages[i][1] < reading.pages[i][2]
        /\ \A i \in 1..(n - 1) : reading.pages[i][2] = reading.pages[i + 1][1]
        /\ (reading.state = "complete") =
              (reading.pages[n][2] = artifacts[reading.of].body.len)

(* "The default inline budget is 2 KiB and the hard ceiling is 8 KiB": no  *)
(* envelope is longer than the budget of its call, previews and the        *)
(* message that replaces them included.                                    *)
AnswersWithinBudget == answer.size <= answer.budget

(* "Page immutable evidence artifacts": a client that has followed the     *)
(* cursors of an artifact to its complete page was sent all of it.         *)
PagesDelivered == reading.state = "complete" => reading.shown = reading.pages

=============================================================================
