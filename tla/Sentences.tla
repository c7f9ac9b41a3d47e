------------------------------ MODULE Sentences ------------------------------
(***************************************************************************)
(* Sentences: their vectors, which stage 1 of an analysis stores, and the  *)
(* snapshot of an analysed text from which a later one is told stale       *)
(* (services/sentences, services/staleness, jobs/workers/                  *)
(* document-analysis.ts, GET /documents/:id/staleness).                    *)
(*                                                                         *)
(* A text is a sequence of segments, a segment of pieces that end where a  *)
(* sentence may; a hash is the pieces it was made of, and so is a vector.  *)
(* The vector of a sentence is taken from any row, of any document, that   *)
(* has its hash, or asked of the model. Analyses of a document may overlap *)
(* (a stale job is claimed anew), and an edit need not make a version.     *)
(***************************************************************************)
EXTENDS Naturals, Sequences, SequencesExt

CONSTANTS
  Work,        \* documents
  Manuscripts, \* the texts they may have: sequences of segments, of pieces
  LengthOf,    \* [pieces -> Nat]
  Shortest,    \* a shorter piece is no sentence
  Embedder,    \* the analyses that may be under way
  MaxEditions  \* bound: versions of a document

ASSUME SentencesAssumption == Shortest \in Nat \ {0} /\ MaxEditions \in Nat \ {0} /\ Manuscripts # {}

VARIABLES
  prose,        \* documents.content
  edition,      \* documents.currentVersion
  stageOne,     \* the version of the checkpoint that has stage 1, or 0
  vectors,      \* sentence_embeddings: at [doc, segment, start, end], [hash, vector]
  snapshots,    \* analysis_snapshots: the hashes of each document and version
  recorded,     \* the values that documents.lastAnalyzedVersion has had
  embedder,     \* where each analysis stands
  analysed,     \* history: the sentences of the texts that analyses have got through
  unsaved       \* history: the versions that one got through without a snapshot of its own

tableVars == <<prose, edition, stageOne, vectors>>
sentenceVars == <<tableVars, snapshots, recorded, embedder, analysed, unsaved>>

NoEmbedder == [at |-> "rest", doc |-> CHOOSE d \in Work : TRUE, text |-> <<>>, version |-> 0,
               toStore |-> <<>>]

SentenceInit ==
  /\ prose \in [Work -> Manuscripts] /\ edition = [d \in Work |-> 1]
  /\ stageOne = [d \in Work |-> 0]
  /\ vectors = <<>>
  /\ snapshots = [d \in Work |-> [v \in 1..MaxEditions |-> {}]]
  /\ recorded = [d \in Work |-> {}]
  /\ embedder = [r \in Embedder |-> NoEmbedder]
  /\ analysed = [d \in Work |-> {}] /\ unsaved = [d \in Work |-> {}]

--------------------------------------------------------------------------
(* splitIntoSentences *)

LengthOfPieces(pieces) == FoldLeft(LAMBDA sum, x : sum + LengthOf[x], 0, pieces)

\* The pieces that are long enough; if there is none, all of them together.
SplitIntoSentences(pieces) ==
  LET startOf(i) == LengthOfPieces(SubSeq(pieces, 1, i - 1))
      long == {i \in DOMAIN pieces : LengthOf[pieces[i]] >= Shortest}
      all == LengthOfPieces(pieces)
  IN IF long # {}
     THEN {[start |-> startOf(i), end |-> startOf(i + 1), hash |-> <<pieces[i]>>] : i \in long}
     ELSE IF all >= Shortest THEN {[start |-> 0, end |-> all, hash |-> pieces]} ELSE {}

HashesOf == [text \in Manuscripts |-> {s.hash : s \in SplitIntoSentences(FlattenSeq(text))}]

--------------------------------------------------------------------------
(* Stage 1. *)

SetEmbedder(r, run) == embedder' = [embedder EXCEPT ![r] = run]

\* fetchAndValidateDocument. A run that resumes over a checkpoint of the version
\* passes stage 1 over, whatever the text.
BeginAnalysis(r, d) ==
  /\ embedder[r].at = "rest"
  /\ SetEmbedder(r, [at |-> IF stageOne[d] = edition[d] THEN "later" ELSE "segments", doc |-> d,
                     text |-> prose[d], version |-> edition[d], toStore |-> <<>>])
  /\ UNCHANGED <<tableVars, snapshots, recorded, analysed, unsaved>>

\* getCachedByHashes: one of the vectors that rows of the hash have, of any document.
\* If there is none, the model gives it.
CachedVectors(hash) == {vectors[k].vector : k \in {k \in DOMAIN vectors : vectors[k].hash = hash}}
VectorsFor(hash) == IF CachedVectors(hash) = {} THEN {hash} ELSE CachedVectors(hash)

\* toStore has the segments that were looked up, with what is still to be stored of each.
StillToStore(toStore, i, sentences) ==
  [j \in DOMAIN toStore \cup {i} |-> IF j = i THEN sentences ELSE toStore[j]]

\* processSegment, of several segments at once.
LookUp(r, i) ==
  LET run == embedder[r]
      found == SplitIntoSentences(run.text[i])
  IN /\ run.at = "segments" /\ i \in DOMAIN run.text \ DOMAIN run.toStore
     /\ \E chosen \in [found -> UNION {VectorsFor(s.hash) : s \in found}] :
          /\ \A s \in found : chosen[s] \in VectorsFor(s.hash)
          /\ SetEmbedder(r, [run EXCEPT !.toStore = StillToStore(@, i,
               {[sentence |-> s, vector |-> chosen[s], cached |-> CachedVectors(s.hash) # {}] : s \in found})])
     /\ UNCHANGED <<tableVars, snapshots, recorded, analysed, unsaved>>

\* Those with a vector are stored first, then the others, both as they are in the text.
StoredBefore(x, y) ==
  IF x.cached = y.cached THEN x.sentence.start < y.sentence.start ELSE x.cached

\* store: the unique key is the place, and a row there becomes that of the sentence.
Upserted(key, hash, vector) ==
  [k \in DOMAIN vectors \cup {key} |-> IF k = key THEN [hash |-> hash, vector |-> vector] ELSE vectors[k]]

StoreSentence(r, i) ==
  LET run == embedder[r]
  IN /\ run.at = "segments" /\ i \in DOMAIN run.toStore
     /\ \E next \in run.toStore[i] :
          /\ \A other \in run.toStore[i] \ {next} : StoredBefore(next, other)
          /\ vectors' = Upserted([doc |-> run.doc, segment |-> i, start |-> next.sentence.start,
                                  end |-> next.sentence.end], next.sentence.hash, next.vector)
          /\ SetEmbedder(r, [run EXCEPT !.toStore = StillToStore(@, i, @[i] \ {next})])
     /\ UNCHANGED <<prose, edition, stageOne, snapshots, recorded, analysed, unsaved>>

EndStageOne(r) ==
  LET run == embedder[r] IN
  /\ run.at = "segments" /\ \A i \in DOMAIN run.text : i \in DOMAIN run.toStore /\ run.toStore[i] = {}
  /\ stageOne' = [stageOne EXCEPT ![run.doc] = run.version]
  /\ SetEmbedder(r, [run EXCEPT !.at = "later"])
  /\ UNCHANGED <<prose, edition, vectors, snapshots, recorded, analysed, unsaved>>

--------------------------------------------------------------------------
(* The end of an analysis. *)

\* The later stages have run, and the checkpoint is cleared. A text without a sentence
\* has no snapshot, and leaves an older one.
EndStages(r) ==
  LET run == embedder[r]
      blank == HashesOf[run.text] = {}
  IN /\ run.at = "later"
     /\ stageOne' = [stageOne EXCEPT ![run.doc] = 0]
     /\ analysed' = [analysed EXCEPT ![run.doc] = @ \cup HashesOf[run.text]]
     /\ unsaved' = [unsaved EXCEPT ![run.doc] = @ \cup IF blank THEN {run.version} ELSE {}]
     /\ SetEmbedder(r, [run EXCEPT !.at = IF blank THEN "record" ELSE "delete"])
     /\ UNCHANGED <<prose, edition, vectors, snapshots, recorded>>

\* saveAnalysisSnapshot.
DeleteSnapshot(r) ==
  LET run == embedder[r] IN
  /\ run.at = "delete"
  /\ snapshots' = [snapshots EXCEPT ![run.doc][run.version] = {}]
  /\ SetEmbedder(r, [run EXCEPT !.at = "insert"])
  /\ UNCHANGED <<tableVars, recorded, analysed, unsaved>>

LatestMutant(run) == HashesOf[prose[run.doc]]
SnapshotOf(run) == HashesOf[run.text]

\* One insertion; beside another run's rows of the version it is refused, and the
\* analysis fails.
InsertSnapshot(r) ==
  LET run == embedder[r] IN
  /\ run.at = "insert"
  /\ IF snapshots[run.doc][run.version] = {}
     THEN /\ snapshots' = [snapshots EXCEPT ![run.doc][run.version] = SnapshotOf(run)]
          /\ unsaved' = [unsaved EXCEPT ![run.doc] = @ \ {run.version}]
          /\ SetEmbedder(r, [run EXCEPT !.at = "record"])
     ELSE SetEmbedder(r, NoEmbedder) /\ UNCHANGED <<snapshots, unsaved>>
  /\ UNCHANGED <<tableVars, recorded, analysed>>

\* lastAnalyzedVersion. (What else is recorded of the document is in Documents.)
RecordVersion(r) ==
  LET run == embedder[r] IN
  /\ run.at = "record"
  /\ recorded' = [recorded EXCEPT ![run.doc] = @ \cup {run.version}]
  /\ SetEmbedder(r, NoEmbedder)
  /\ UNCHANGED <<tableVars, snapshots, analysed, unsaved>>

\* An error of a query or of the model, or the end of the process.
AnalysisEnds(r) ==
  /\ embedder[r].at # "rest"
  /\ unsaved' = [unsaved EXCEPT ![embedder[r].doc] =
                   @ \cup IF embedder[r].at = "insert" THEN {embedder[r].version} ELSE {}]
  /\ SetEmbedder(r, NoEmbedder)
  /\ UNCHANGED <<tableVars, snapshots, recorded, analysed>>

--------------------------------------------------------------------------
(* The user edits, and asks what has changed since. *)

Rewrite(d) ==
  /\ \E text \in Manuscripts : prose' = [prose EXCEPT ![d] = text]
  /\ \E v \in {edition[d], edition[d] + 1} \cap 1..MaxEditions : edition' = [edition EXCEPT ![d] = v]
  /\ UNCHANGED <<stageOne, vectors, snapshots, recorded, embedder, analysed, unsaved>>

\* detectStaleness, which reads the text, then lastAnalyzedVersion, then the snapshot
\* of that version: each may be of another moment. Without a snapshot nothing is stale.
StaleIn(text, snapshot) == IF snapshot = {} THEN {} ELSE HashesOf[text] \ snapshot

SentenceNext ==
  \/ \E r \in Embedder :
       \/ \E d \in Work : BeginAnalysis(r, d)
       \/ \E i \in DOMAIN embedder[r].text : LookUp(r, i) \/ StoreSentence(r, i)
       \/ EndStageOne(r) \/ EndStages(r) \/ DeleteSnapshot(r) \/ InsertSnapshot(r)
       \/ RecordVersion(r)
       \/ AnalysisEnds(r)
  \/ \E d \in Work : Rewrite(d)

SentenceSpec == SentenceInit /\ [][SentenceNext]_sentenceVars

--------------------------------------------------------------------------
(* Properties. *)

\* The version's snapshot is being replaced: it is deleted, and not yet inserted.
Replacing(d, v) ==
  \E r \in Embedder : embedder[r].at = "insert" /\ embedder[r].doc = d /\ embedder[r].version = v

\* Whatever rows are written over, and from whichever document a vector is taken, a
\* row's vector is that of the text its hash names. And whatever text, recorded version
\* and snapshot a request for what is stale has read, a sentence it does not call stale
\* was in a text of the document that an analysis got through, however edits and
\* analyses overlap; or the snapshot it reads is empty, and then only because one is
\* being replaced, or because the last analysis that got to it ended between deleting
\* and inserting it, or had no sentence to insert: nothing is called stale then,
\* whatever the text.
SentencesSound ==
  /\ \A k \in DOMAIN vectors : vectors[k].vector = vectors[k].hash
  /\ \A d \in Work, text \in Manuscripts : \A v \in recorded[d] :
       \/ HashesOf[text] \ StaleIn(text, snapshots[d][v]) \subseteq analysed[d]
       \/ snapshots[d][v] = {} /\ (Replacing(d, v) \/ v \in unsaved[d])
=============================================================================
