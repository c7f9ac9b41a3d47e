---------------------------- MODULE TextAnchors ----------------------------
(***************************************************************************)
(* The segments of a document and the mentions anchored in them            *)
(* (services/segments, services/mentions/mention.service.ts), as a save of *)
(* the document, the stages 1 to 4 of an analysis and the deletion of one  *)
(* use them.                                                               *)
(*                                                                         *)
(* A text is a sequence of Char, and a position counts from 0. How alike   *)
(* an old and a new segment must be for the new to take over the id is     *)
(* left open, but that they overlap (without that the score is below its   *)
(* threshold). The runs' sentences and summaries are left out.             *)
(***************************************************************************)
EXTENDS Integers, Sequences, SequencesExt, FiniteSets, FiniteSetsExt

CONSTANTS
  Char,
  Drafts,     \* what a user may save, without the empty text
  Phrase,     \* what the model may tell of as mentioned: texts too
  White,      \* the white space of the texts
  Paragraph,  \* the end of a paragraph, which is white space
  Scene,      \* the beginning of a line that marks a scene
  MinDocument, TargetMin, TargetMax, HardMax, SearchRange, \* SEGMENTATION_CONFIG
  Reader,      \* runs of the analysis
  MaxIds,      \* bound: segment ids given
  MaxMentions  \* bound: mentions at once

ASSUME TextAnchorsAssumption ==
  /\ {MinDocument, TargetMin, TargetMax, HardMax, SearchRange, MaxIds, MaxMentions} \subseteq Nat \ {0}
  /\ TargetMax + SearchRange <= HardMax /\ MinDocument <= HardMax
  /\ Drafts \cup Phrase \subseteq Seq(Char) \ {<<>>}

VARIABLES
  content,      \* documents.content
  segments,     \* documents.segmentSequence
  mentions,
  reader,       \* where each run stands, and what it has read; `outdated`: the
                \* content has changed since, or its segments were not the content's
  ids,          \* segment ids given
  overwritten   \* a run stored segments of an older content

anchorVars == <<content, segments, mentions, reader, ids, overwritten>>

\* slice() stops at the end of the text.
Slice(text, from, to) == SubSeq(text, from + 1, Min({to, Len(text)}))

--------------------------------------------------------------------------
(* segmentText: where the segments end.                                     *)

Boundaries(text) ==
  {i \in 1..Len(text) : text[i] = Paragraph} \cup {i - 1 : i \in {k \in 1..Len(text) : text[k] = Scene}}

\* Those that leave TARGET_MIN_SIZE since the last that was kept.
FilterBoundariesBySize(text) ==
  LET kept[b \in 0..Len(text)] ==
        IF b = 0 THEN {}
        ELSE IF b \in Boundaries(text) /\ b - Max({0} \cup kept[b - 1]) >= TargetMin
        THEN kept[b - 1] \cup {b} ELSE kept[b - 1]
  IN kept[Len(text)]

\* After the white space that follows the target, or else precedes it.
FindWordBoundary(text, target, low, high) ==
  LET isWhite(i) == text[i + 1] \in White
      after == {i \in target..(Min({high, target + SearchRange}) - 1) : isWhite(i)}
      before == {i \in (Max({low, target - SearchRange}) + 1)..target : isWhite(i)}
  IN IF after # {} THEN Min(after) + 1
     ELSE IF before # {} THEN Max(before) + 1 ELSE target

SplitOversizedSegment(text, start, end) ==
  LET cut[k \in 0..(end - start)] ==
        IF k = 0 THEN start
        ELSE IF end - cut[k - 1] <= TargetMax THEN cut[k - 1]
        ELSE FindWordBoundary(text, cut[k - 1] + TargetMax, cut[k - 1], end)
  IN {cut[k] : k \in 0..(end - start)}

\* Of the boundaries that are kept, the one before this.
Previous(kept, b) == Max({k \in kept : k < b})

\* The ends of the segments.
EndsOf(text) ==
  LET kept == FilterBoundariesBySize(text) \cup {0, Len(text)}
      splits == UNION {SplitOversizedSegment(text, Previous(kept, b), b) :
                         b \in {k \in kept \ {0} : k - Previous(kept, k) > HardMax}}
  IN IF Len(text) < MinDocument THEN {Len(text)} ELSE (kept \cup splits) \ {0}

Ascending(S) == [i \in 1..Cardinality(S) |-> CHOOSE e \in S : Cardinality({d \in S : d < e}) = i - 1]

Ranges(text) ==
  LET ends == Ascending(EndsOf(text))
  IN [i \in 1..Len(ends) |-> [start |-> IF i = 1 THEN 0 ELSE ends[i - 1], end |-> ends[i]]]

--------------------------------------------------------------------------
(* Their ids. *)

Overlap(a, b) == a.start < b.end /\ b.start < a.end

\* findBestSegmentMatch for each range: the index of an existing segment or 0; usedIds
\* keeps a second one from it. A short document keeps the id of the first.
ReuseMutant(ranges, existing) ==
  {m \in [1..Len(ranges) -> 0..Len(existing)] :
     \A i \in 1..Len(ranges) : m[i] = 0 \/ Overlap(ranges[i], existing[m[i]])}
Matches(ranges, existing) ==
  {m \in [1..Len(ranges) -> 0..Len(existing)] :
     \A i \in 1..Len(ranges) :
       m[i] # 0 => /\ Overlap(ranges[i], existing[m[i]])
                   /\ \A j \in 1..(i - 1) : m[j] # m[i]}

ComputeSegments(text, existing) ==
  LET ranges == Ranges(text)
      matches == IF Len(text) < MinDocument
                 THEN {[i \in {1} |-> IF existing = <<>> THEN 0 ELSE 1]}
                 ELSE Matches(ranges, existing)
  IN {[i \in 1..Len(ranges) |->
         [id |-> IF m[i] = 0 THEN ids + i ELSE existing[m[i]].id,
          start |-> ranges[i].start, end |-> ranges[i].end]] : m \in matches}

\* hasValidSegments asks for no more than this.
HasValidSegments(s, text) ==
  /\ s # <<>>
  /\ \A i \in 1..Len(s) : s[i].start < s[i].end /\ s[i].end <= Len(text)
  /\ \A i \in 2..Len(s) : s[i].start >= s[i - 1].end

GiveIds(s) ==
  /\ ids + Len(s) <= MaxIds
  /\ ids' = ids + Len(s)

--------------------------------------------------------------------------
(* Positions. *)

OfId(s, id) == {i \in 1..Len(s) : s[i].id = id}
SegmentAt(s, position) == {i \in 1..Len(s) : s[i].start <= position /\ position < s[i].end}

Places(text, phrase) ==
  {p \in 0..(Len(text) - Len(phrase)) : Slice(text, p, p + Len(phrase)) = phrase}

\* Where a mention is shown: at its place in the first segment of its segment's id, whatever is there now, and
\* if there is no such segment where its text is found first; -1 if it is not found
\* (something like it may then be taken for it, which is left out).
Shown(m) ==
  LET own == OfId(segments, m.segmentId)
      found == Places(content, m.text)
  IN IF own # {} THEN segments[Min(own)].start + m.relativeStart
     ELSE IF found # {} THEN Min(found) ELSE -1

--------------------------------------------------------------------------
(* Saves and deletions.                                                     *)

NoReader == [at |-> "none", content |-> <<>>, segments |-> <<>>, read |-> <<>>, outdated |-> FALSE]

AnchorInit ==
  /\ content \in Drafts
  /\ ids = 0
  /\ mentions = {}
  /\ reader = [r \in Reader |-> NoReader]
  /\ overwritten = FALSE
  /\ LET ranges == Ranges(content)
     IN segments = [i \in 1..Len(ranges) |-> [id |-> -i, start |-> ranges[i].start, end |-> ranges[i].end]]

\* documents.update, of a save that changes the content: one UPDATE with the segments.
UpdateDocument(text) ==
  /\ text # content
  /\ \E s \in ComputeSegments(text, segments) : GiveIds(s) /\ segments' = s
  /\ content' = text
  /\ overwritten' = FALSE
  /\ mentions' = {[m EXCEPT !.fresh = FALSE] : m \in mentions}
  /\ reader' = [r \in Reader |-> [reader[r] EXCEPT !.outdated = reader[r].at # "none"]]

\* Of an analysis; the cancellation of one leaves the segments.
DeleteMentions ==
  /\ mentions # {}
  /\ mentions' = {}
  /\ UNCHANGED <<content, segments, reader, ids, overwritten>>

DeleteAnalysis ==
  /\ mentions' = {} /\ segments' = <<>>
  /\ overwritten' = FALSE
  /\ UNCHANGED <<content, reader, ids>>

--------------------------------------------------------------------------
(* A run.                                                                   *)

\* The worker reads the content and the segments at once, and takes these if they fit.
StartReading(r) ==
  /\ reader[r].at = "none"
  /\ reader' = [reader EXCEPT ![r] =
       [NoReader EXCEPT !.content = content, !.segments = segments, !.outdated = overwritten,
                        !.at = IF HasValidSegments(segments, content) THEN "summary" ELSE "segment"]]
  /\ UNCHANGED <<content, segments, mentions, ids, overwritten>>

\* updateDocumentSegments reads both again, and writes without looking once more.
UpdateDocumentSegments(r) ==
  /\ reader[r].at = "segment"
  /\ \E s \in ComputeSegments(content, segments) :
       /\ GiveIds(s)
       /\ reader' = [reader EXCEPT ![r].at = "store", ![r].segments = s, ![r].outdated = FALSE]
  /\ UNCHANGED <<content, segments, mentions, overwritten>>

StoreSegments(r) ==
  /\ reader[r].at = "store"
  /\ segments' = reader[r].segments
  /\ overwritten' = reader[r].outdated
  /\ mentions' = {[m EXCEPT !.fresh = FALSE] : m \in mentions}
  /\ reader' = [reader EXCEPT ![r].at = "summary", ![r].outdated = @ \/ reader[r].content # content]
  /\ UNCHANGED <<content, ids>>

\* Stage 2 stores the segments it has, with their summaries, whatever the document
\* has now. If they stay within the new content they are valid to every later run,
\* until a save cuts the content anew.
StoreSummaries(r) ==
  /\ reader[r].at = "summary"
  /\ segments' = reader[r].segments
  /\ overwritten' = reader[r].outdated
  /\ mentions' = {[m EXCEPT !.fresh = @ /\ segments' = segments] : m \in mentions}
  /\ reader' = [reader EXCEPT ![r].at = "extract"]
  /\ UNCHANGED <<content, ids>>

\* Stage 3 goes by the segments the document has now, and its own content.
ReadSegments(r) ==
  /\ reader[r].at = "extract"
  /\ reader' = [reader EXCEPT ![r].at = "mention", ![r].read = segments]
  /\ UNCHANGED <<content, segments, mentions, ids, overwritten>>

\* createFromAbsolutePosition: a position relative to the segment it lies in, in the
\* run's own segments.
Anchor(r, at) ==
  LET own == reader[r].segments[Min(SegmentAt(reader[r].segments, at))]
  IN [segmentId |-> own.id, relativeStart |-> at - own.start]

\* createIdempotent: a mention of this text at this place is kept.
IsThere(anchor, phrase) ==
  \E m \in mentions : /\ m.segmentId = anchor.segmentId /\ m.text = phrase
                      /\ m.relativeStart = anchor.relativeStart

\* Stage 4: the phrase, told of in a segment of those, is looked for in the run's own
\* segment of that id; without one the mention is dropped.
CreateMention(r, i, phrase) ==
  LET own == OfId(reader[r].segments, reader[r].read[i].id)
      segment == reader[r].segments[Min(own)]
      text == Slice(reader[r].content, segment.start, segment.end)
      at == segment.start + Min(Places(text, phrase))
      anchor == Anchor(r, at)
  IN /\ reader[r].at = "mention" /\ i \in 1..Len(reader[r].read)
     /\ own # {} /\ Places(text, phrase) # {}
     /\ SegmentAt(reader[r].segments, at) # {}
     /\ ~IsThere(anchor, phrase)
     /\ Cardinality(mentions) < MaxMentions
     /\ mentions' = mentions \cup
          {[segmentId |-> anchor.segmentId, relativeStart |-> anchor.relativeStart, text |-> phrase,
            at |-> at, fresh |-> ~reader[r].outdated /\ reader[r].read = reader[r].segments
                                  /\ segments = reader[r].segments]}
     /\ UNCHANGED <<content, segments, reader, ids, overwritten>>

EndReading(r) ==
  /\ reader[r].at # "none"
  /\ reader' = [reader EXCEPT ![r] = NoReader]
  /\ UNCHANGED <<content, segments, mentions, ids, overwritten>>

AnchorNext ==
  \/ \E text \in Drafts : UpdateDocument(text)
  \/ DeleteMentions \/ DeleteAnalysis
  \/ \E r \in Reader :
       \/ StartReading(r) \/ UpdateDocumentSegments(r) \/ StoreSegments(r)
       \/ StoreSummaries(r) \/ ReadSegments(r)
       \/ \E i \in 1..MaxIds, phrase \in Phrase : CreateMention(r, i, phrase)
       \/ EndReading(r)

AnchorSpec == AnchorInit /\ [][AnchorNext]_anchorVars

--------------------------------------------------------------------------
(* Properties. *)

Fit(s, text) ==
  /\ s # <<>> /\ s[1].start = 0 /\ s[Len(s)].end = Len(text)
  /\ \A i \in 2..Len(s) : s[i].start = s[i - 1].end
  /\ \A i \in 1..Len(s) : s[i].end - s[i].start \in 1..HardMax

DistinctIds(s) == \A i, j \in 1..Len(s) : s[i].id = s[j].id => i = j

\* The stored segments cut the content into parts of bounded size and distinct ids,
\* whatever saves and runs come between, unless a run has written its own over those of
\* a later save; and a mention made from the content and the segments the document
\* still has is shown where it was found.
AnchorsHold ==
  ~overwritten =>
    /\ segments = <<>> \/ (Fit(segments, content) /\ DistinctIds(segments))
    /\ \A m \in mentions : m.fresh /\ segments # <<>> => Shown(m) = m.at
=============================================================================
