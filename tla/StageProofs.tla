---------------------------- MODULE StageProofs ----------------------------
(***************************************************************************)
(* Proofs about single stages of an analysis: Sentences, ConflictReview,   *)
(* CharacterArcs, ModelBatches, TextAnchors and CausalAnalysis.            *)
(*                                                                         *)
(*   StaleIsTold      a sentence's vector is its own, and what is not told *)
(*                    as stale was analysed, or its snapshot is missing    *)
(*   ReviewIsSound    a saved stage 9 has queued all that it found, and    *)
(*                    two names are judged by the surest of their signals  *)
(*   FacetsAreHeld    a facet stays in its character's sight and goes to   *)
(*                    a state of its place; a transition is within an arc  *)
(*   EveryItemIsAsked batches keep to the budgets and skip no item, and a  *)
(*                    stage that ends with results has them of every item  *)
(*   AnchorsAreHeld   the stored segments cut the content, with ids of     *)
(*                    their own, and a mention is shown where it was found *)
(*   CausalIsSound    the causal order leaves out just what a cycle leads  *)
(*                    to, the threads are the components of the graph, and *)
(*                    a pivotal node alone connects two of its neighbours  *)
(*                                                                         *)
(* SentenceInv says what a run of the embedder is about to store and to    *)
(* record, ReviewInv what a run of stage 9 has yet to insert, ArcInv whose *)
(* are the arc and the states a run has at hand, BatchInv what the batches *)
(* of an unfinished plan cover, AnchorInv of what text a run's segments    *)
(* are, CausalInv what has been ordered and which components are whole.    *)
(* What a LET computes by recursion over a sequence or over positions is   *)
(* read off its equation by SetInduction; Recursion says that there is a   *)
(* function with the equation.                                             *)
(***************************************************************************)
EXTENDS Sentences, ConflictReview, CharacterArcs, ModelBatches, TextAnchors, CausalAnalysis,
        FiniteSetTheorems, SequenceTheorems, RecursionProofs

-----------------------------------------------------------------------------
(* The least and the greatest of some naturals.                            *)

LEMMA LeastIsThere ==
  ASSUME NEW S \in SUBSET Nat, S # {}
  PROVE  Min(S) \in S /\ \A y \in S : Min(S) <= y
<1> DEFINE R == {pair \in Nat \X Nat : pair[1] < pair[2]}
<1>1. IsWellFoundedOn(R, Nat)
  BY NatLessThanWellFounded DEF OpToRel
<1>2. PICK x \in S : \A y \in S : ~(<<y, x>> \in R)
  <2> HIDE DEF R
  <2> QED
    BY <1>1, WFMin
<1>3. ASSUME NEW y \in S PROVE x <= y
  <2>1. <<y, x>> \in Nat \X Nat /\ <<y, x>>[1] = y /\ <<y, x>>[2] = x
    OBVIOUS
  <2>2. ~(y < x)
    BY <1>2, <2>1
  <2> QED
    BY <2>2
<1> QED
  BY <1>3 DEF Min

LEMMA GreatestIsThere ==
  ASSUME NEW n \in Nat, NEW S \in SUBSET (0..n), S # {}
  PROVE  Max(S) \in S /\ \A y \in S : y <= Max(S)
<1> DEFINE T == {y \in 0..n : n - y \in S}
<1>1. T \in SUBSET Nat /\ T # {}
  <2>1. PICK x \in S : TRUE
    OBVIOUS
  <2>2. n - x \in 0..n /\ n - (n - x) = x
    BY <2>1
  <2>3. n - x \in T
    BY <2>1, <2>2
  <2>4. T \in SUBSET Nat
    OBVIOUS
  <2> HIDE DEF T
  <2> QED
    BY <2>3, <2>4
<1>2. PICK t \in T : \A y \in T : t <= y
  <2> HIDE DEF T
  <2> QED
    BY <1>1, LeastIsThere
<1>3. PICK m : m = n - t /\ m \in S
  BY <1>2
<1>4. ASSUME NEW y \in S PROVE y <= m
  <2>1. n - y \in T
    <3>1. n - y \in 0..n /\ n - (n - y) = y
      BY <1>4
    <3> QED
      BY <3>1
  <2>2. t <= n - y /\ t \in 0..n /\ y \in 0..n
    BY <1>2, <2>1
  <2> QED
    BY <1>3, <2>2
<1> QED
  BY <1>3, <1>4 DEF Max

-----------------------------------------------------------------------------
(* The sentences.                                                          *)

\* What a run is about to store is the vector of its sentence, and what it is about to
\* record is the sentences of a text that it got through.
RunSound(run, known) ==
  /\ run = [at |-> run.at, doc |-> run.doc, text |-> run.text, version |-> run.version,
            toStore |-> run.toStore]
  /\ \A i \in DOMAIN run.toStore : \A x \in run.toStore[i] : x.vector = x.sentence.hash
  /\ run.at # "rest" => run.doc \in Work /\ run.text \in Manuscripts /\ run.version \in 1..MaxEditions
  /\ run.at \in {"delete", "insert"} =>
       HashesOf[run.text] \subseteq known[run.doc] /\ HashesOf[run.text] # {}
EmbedderSound(run) == RunSound(run, analysed)

\* A version has a snapshot, or one is about to be inserted, or one ended before that
\* or had nothing to insert.
HasSnapshot(d, v) == snapshots[d][v] # {} \/ Replacing(d, v) \/ v \in unsaved[d]

SentenceInv ==
  /\ prose \in [Work -> Manuscripts]
  /\ edition \in [Work -> 1..MaxEditions]
  /\ DOMAIN embedder = Embedder /\ DOMAIN snapshots = Work /\ DOMAIN analysed = Work
  /\ \A d \in Work : DOMAIN snapshots[d] = 1..MaxEditions
  /\ \A r \in Embedder : EmbedderSound(embedder[r])
  /\ \A k \in DOMAIN vectors : vectors[k].vector = vectors[k].hash
  /\ \A d \in Work, v \in 1..MaxEditions : snapshots[d][v] \subseteq analysed[d]

\* What is recorded, and what a run is about to record, has a snapshot or lacks it for
\* one of those reasons.
RecordInv ==
  /\ recorded \in [Work -> SUBSET (1..MaxEditions)] /\ DOMAIN unsaved = Work
  /\ \A d \in Work : \A v \in recorded[d] : HasSnapshot(d, v)
  /\ \A r \in Embedder : embedder[r].at = "record" => HasSnapshot(embedder[r].doc, embedder[r].version)

LEMMA RunGoesOn ==
  ASSUME NEW old, NEW known, RunSound(old, known), old.at # "rest",
         NEW at, NEW run, run = [old EXCEPT !.at = at],
         NEW more, at \in {"delete", "insert"} =>
                     HashesOf[old.text] \subseteq more[old.doc] /\ HashesOf[old.text] # {}
  PROVE  RunSound(run, more)
<1>1. run = [at |-> at, doc |-> old.doc, text |-> old.text, version |-> old.version,
             toStore |-> old.toStore]
  BY DEF RunSound
<1> QED
  BY <1>1 DEF RunSound

LEMMA RunMoves ==
  ASSUME NEW old, NEW known, RunSound(old, known), NEW at, NEW run, run = [old EXCEPT !.at = at]
  PROVE  run.at = at /\ run.doc = old.doc /\ run.version = old.version
<1>1. run = [at |-> at, doc |-> old.doc, text |-> old.text, version |-> old.version,
             toStore |-> old.toStore]
  BY DEF RunSound
<1> QED
  BY <1>1

LEMMA RunStores ==
  ASSUME NEW old, NEW known, RunSound(old, known), old.at = "segments",
         NEW i, NEW S, \A x \in S : x.vector = x.sentence.hash,
         NEW toStore, toStore = StillToStore(old.toStore, i, S),
         NEW run, run = [old EXCEPT !.toStore = toStore]
  PROVE  RunSound(run, known)
<1>1. \A j \in DOMAIN toStore : \A x \in toStore[j] : x.vector = x.sentence.hash
  BY DEF RunSound, StillToStore
<1>2. run = [at |-> old.at, doc |-> old.doc, text |-> old.text, version |-> old.version, toStore |-> toStore]
  BY DEF RunSound
<1> QED
  BY <1>1, <1>2 DEF RunSound

\* A step of a run that keeps what it is about, and forgets no text of the analyses.
LEMMA EmbedderStep ==
  ASSUME SentenceInv, NEW r \in Embedder, NEW run, NEW known, known = analysed', RunSound(run, known), SetEmbedder(r, run),
         \A d \in Work : analysed[d] \subseteq known[d]
  PROVE  DOMAIN embedder' = Embedder /\ \A o \in Embedder : EmbedderSound(embedder[o])'
<1>1. DOMAIN embedder' = Embedder /\ embedder'[r] = run /\ \A o \in Embedder \ {r} : embedder'[o] = embedder[o]
  BY DEF SentenceInv, SetEmbedder
<1>2. ASSUME NEW o \in Embedder \ {r} PROVE RunSound(embedder[o], known)
  BY DEF SentenceInv, EmbedderSound, RunSound
<1>3. \A o \in Embedder : RunSound(embedder'[o], known)
  BY <1>1, <1>2
<1> QED
  BY <1>1, <1>3 DEF EmbedderSound

LEMMA VectorsAreOwn == SentenceInv => \A hash : VectorsFor(hash) = {hash}
BY DEF SentenceInv, VectorsFor, CachedVectors

LEMMA SentenceNextKeeps == SentenceInv /\ [SentenceNext]_sentenceVars => SentenceInv'
<1> SUFFICES ASSUME SentenceInv, [SentenceNext]_sentenceVars PROVE SentenceInv'
  OBVIOUS
<1>a. PICK known : known = analysed
  OBVIOUS
<1>b. PICK more : more = analysed'
  OBVIOUS
<1>0. \A r \in Embedder : RunSound(embedder[r], known)
  BY <1>a DEF SentenceInv, EmbedderSound
<1>1. ASSUME NEW r \in Embedder, NEW d \in Work, BeginAnalysis(r, d) PROVE SentenceInv'
  <2>1. PICK run : run = [at |-> IF stageOne[d] = edition[d] THEN "later" ELSE "segments", doc |-> d,
                          text |-> prose[d], version |-> edition[d], toStore |-> <<>>]
    OBVIOUS
  <2>2. RunSound(run, more)
    BY <2>1 DEF RunSound, SentenceInv
  <2> QED
    BY <1>1, <1>b, <2>1, <2>2, EmbedderStep DEF BeginAnalysis, SentenceInv, tableVars
<1>2. ASSUME NEW r \in Embedder, NEW i \in DOMAIN embedder[r].text, LookUp(r, i) PROVE SentenceInv'
  <2> DEFINE found == SplitIntoSentences(embedder[r].text[i])
  <2>1. PICK chosen \in [found -> UNION {VectorsFor(s.hash) : s \in found}] :
          /\ \A s \in found : chosen[s] \in VectorsFor(s.hash)
          /\ SetEmbedder(r, [embedder[r] EXCEPT !.toStore = StillToStore(@, i,
               {[sentence |-> s, vector |-> chosen[s], cached |-> CachedVectors(s.hash) # {}] : s \in found})])
    BY <1>2 DEF LookUp
  <2>2. PICK S : S = {[sentence |-> s, vector |-> chosen[s], cached |-> CachedVectors(s.hash) # {}] : s \in found}
    OBVIOUS
  <2>3. \A x \in S : x.vector = x.sentence.hash
    BY <2>1, <2>2, VectorsAreOwn
  <2>4. PICK toStore, run : /\ toStore = StillToStore(embedder[r].toStore, i, S)
                            /\ run = [embedder[r] EXCEPT !.toStore = toStore]
    OBVIOUS
  <2>5. SetEmbedder(r, run) /\ analysed' = analysed
    BY <1>2, <2>1, <2>2, <2>4 DEF LookUp
  <2>6. RunSound(run, known)
    BY <1>0, <1>2, <2>3, <2>4, RunStores DEF LookUp
  <2>7. DOMAIN embedder' = Embedder /\ \A o \in Embedder : EmbedderSound(embedder[o])'
    BY <1>a, <2>5, <2>6, EmbedderStep
  <2> QED
    BY <1>2, <2>7 DEF LookUp, SentenceInv, tableVars
<1>3. ASSUME NEW r \in Embedder, NEW i, StoreSentence(r, i) PROVE SentenceInv'
  <2>1. PICK next \in embedder[r].toStore[i] :
          /\ vectors' = Upserted([doc |-> embedder[r].doc, segment |-> i, start |-> next.sentence.start,
                                  end |-> next.sentence.end], next.sentence.hash, next.vector)
          /\ SetEmbedder(r, [embedder[r] EXCEPT !.toStore = StillToStore(@, i, @[i] \ {next})])
    BY <1>3 DEF StoreSentence
  <2>2. PICK S : S = embedder[r].toStore[i] \ {next}
    OBVIOUS
  <2>3. next.vector = next.sentence.hash /\ \A x \in S : x.vector = x.sentence.hash
    <3>1. RunSound(embedder[r], known) /\ i \in DOMAIN embedder[r].toStore
      BY <1>0, <1>3 DEF StoreSentence
    <3> QED
      BY <2>1, <2>2, <3>1 DEF RunSound
  <2>4. PICK toStore, run : /\ toStore = StillToStore(embedder[r].toStore, i, S)
                            /\ run = [embedder[r] EXCEPT !.toStore = toStore]
    OBVIOUS
  <2>5. SetEmbedder(r, run)
    BY <2>1, <2>2, <2>4
  <2>6. RunSound(run, known)
    BY <1>0, <1>3, <2>3, <2>4, RunStores DEF StoreSentence
  <2>7. DOMAIN embedder' = Embedder /\ \A o \in Embedder : EmbedderSound(embedder[o])'
    BY <1>3, <1>a, <2>5, <2>6, EmbedderStep DEF StoreSentence
  <2>8. \A k \in DOMAIN vectors' : vectors'[k].vector = vectors'[k].hash
    BY <2>1, <2>3 DEF SentenceInv, Upserted
  <2> QED
    BY <1>3, <2>7, <2>8 DEF StoreSentence, SentenceInv
<1>4. ASSUME NEW r \in Embedder, EndStageOne(r) PROVE SentenceInv'
  <2>1. PICK run : run = [embedder[r] EXCEPT !.at = "later"]
    OBVIOUS
  <2>2. RunSound(run, known)
    <3>1. embedder[r].at = "segments"
      BY <1>4 DEF EndStageOne
    <3>2. RunSound(embedder[r], known) /\ ~("later" \in {"delete", "insert"})
      BY <1>0
    <3> QED
      BY <2>1, <3>1, <3>2, RunGoesOn
  <2>3. DOMAIN embedder' = Embedder /\ \A o \in Embedder : EmbedderSound(embedder[o])'
    BY <1>4, <1>a, <2>1, <2>2, EmbedderStep DEF EndStageOne
  <2> QED
    BY <1>4, <2>3 DEF EndStageOne, SentenceInv
<1>5. RunSound(NoEmbedder, known) /\ RunSound(NoEmbedder, more)
  BY DEF RunSound, NoEmbedder
<1>6. ASSUME NEW r \in Embedder, EndStages(r) PROVE SentenceInv'
  <2>1. PICK at, run : /\ at = IF HashesOf[embedder[r].text] = {} THEN "record" ELSE "delete"
                       /\ run = [embedder[r] EXCEPT !.at = at]
    OBVIOUS
  <2>2. embedder[r].doc \in Work /\ embedder[r].text \in Manuscripts
    BY <1>0, <1>6 DEF RunSound, EndStages
  <2>3. /\ DOMAIN analysed' = Work /\ \A d \in Work : analysed[d] \subseteq analysed'[d]
        /\ HashesOf[embedder[r].text] \subseteq analysed'[embedder[r].doc]
    BY <1>6, <2>2 DEF EndStages, SentenceInv
  <2>4. RunSound(run, more)
    <3>1. RunSound(embedder[r], known) /\ embedder[r].at # "rest"
      BY <1>0, <1>6 DEF EndStages
    <3>2. at \in {"delete", "insert"} =>
            HashesOf[embedder[r].text] \subseteq more[embedder[r].doc] /\ HashesOf[embedder[r].text] # {}
      BY <1>b, <2>1, <2>3
    <3> QED
      BY <2>1, <3>1, <3>2, RunGoesOn
  <2>5. DOMAIN embedder' = Embedder /\ \A o \in Embedder : EmbedderSound(embedder[o])'
    BY <1>6, <1>b, <2>1, <2>3, <2>4, EmbedderStep DEF EndStages
  <2> QED
    BY <1>6, <2>3, <2>5 DEF EndStages, SentenceInv
<1>7. ASSUME NEW r \in Embedder, DeleteSnapshot(r) PROVE SentenceInv'
  <2>1. PICK run : run = [embedder[r] EXCEPT !.at = "insert"]
    OBVIOUS
  <2>2. HashesOf[embedder[r].text] \subseteq known[embedder[r].doc] /\ HashesOf[embedder[r].text] # {}
    BY <1>0, <1>7 DEF RunSound, DeleteSnapshot
  <2>3. RunSound(run, known)
    BY <1>0, <1>7, <2>1, <2>2, RunGoesOn DEF DeleteSnapshot
  <2>4. DOMAIN embedder' = Embedder /\ \A o \in Embedder : EmbedderSound(embedder[o])'
    BY <1>7, <1>a, <2>1, <2>3, EmbedderStep DEF DeleteSnapshot
  <2>5. /\ DOMAIN snapshots' = Work
        /\ \A d \in Work : DOMAIN snapshots'[d] = 1..MaxEditions
        /\ \A d \in Work, v \in 1..MaxEditions : snapshots'[d][v] \subseteq analysed[d]
    BY <1>7 DEF DeleteSnapshot, SentenceInv, tableVars
  <2> QED
    BY <1>7, <2>4, <2>5 DEF DeleteSnapshot, SentenceInv, tableVars
<1>8. ASSUME NEW r \in Embedder, InsertSnapshot(r) PROVE SentenceInv'
  <2>0. PICK run : run = [embedder[r] EXCEPT !.at = "record"]
    OBVIOUS
  <2>a. RunSound(run, known)
    <3>1. RunSound(embedder[r], known) /\ embedder[r].at # "rest" /\ ~("record" \in {"delete", "insert"})
      BY <1>0, <1>8 DEF InsertSnapshot
    <3> QED
      BY <2>0, <3>1, RunGoesOn
  <2>1. DOMAIN embedder' = Embedder /\ \A o \in Embedder : EmbedderSound(embedder[o])'
    <3>1. SetEmbedder(r, run) \/ SetEmbedder(r, NoEmbedder)
      BY <1>8, <2>0 DEF InsertSnapshot
    <3> QED
      BY <1>5, <1>8, <1>a, <2>a, <3>1, EmbedderStep DEF InsertSnapshot
  <2>2. SnapshotOf(embedder[r]) \subseteq analysed[embedder[r].doc]
    BY <1>0, <1>8, <1>a DEF RunSound, InsertSnapshot, SnapshotOf
  <2>3. CASE UNCHANGED snapshots
    BY <1>8, <2>1, <2>3 DEF InsertSnapshot, SentenceInv, tableVars
  <2>4. CASE snapshots' = [snapshots EXCEPT ![embedder[r].doc][embedder[r].version] = SnapshotOf(embedder[r])]
    <3>1. /\ DOMAIN snapshots' = Work
          /\ \A d \in Work : DOMAIN snapshots'[d] = 1..MaxEditions
          /\ \A d \in Work, v \in 1..MaxEditions : snapshots'[d][v] \subseteq analysed[d]
      BY <2>2, <2>4 DEF SentenceInv
    <3> QED
      BY <1>8, <2>1, <3>1 DEF InsertSnapshot, SentenceInv, tableVars
  <2> QED
    BY <1>8, <2>3, <2>4 DEF InsertSnapshot
<1>9. ASSUME NEW r \in Embedder, AnalysisEnds(r) PROVE SentenceInv'
  <2>1. DOMAIN embedder' = Embedder /\ \A o \in Embedder : EmbedderSound(embedder[o])'
    BY <1>5, <1>9, <1>a, EmbedderStep DEF AnalysisEnds
  <2> QED
    BY <1>9, <2>1 DEF AnalysisEnds, SentenceInv, tableVars
<1>10. ASSUME NEW d \in Work, Rewrite(d) PROVE SentenceInv'
  BY <1>10 DEF Rewrite, SentenceInv, EmbedderSound
<1>12. ASSUME NEW r \in Embedder, RecordVersion(r) PROVE SentenceInv'
  <2>1. DOMAIN embedder' = Embedder /\ \A o \in Embedder : EmbedderSound(embedder[o])'
    BY <1>5, <1>12, <1>a, EmbedderStep DEF RecordVersion
  <2> QED
    BY <1>12, <2>1 DEF RecordVersion, SentenceInv, tableVars
<1>11. CASE UNCHANGED sentenceVars
  BY <1>11 DEF SentenceInv, EmbedderSound, sentenceVars, tableVars
<1> QED
  BY <1>1, <1>2, <1>3, <1>4, <1>6, <1>7, <1>8, <1>9, <1>10, <1>11, <1>12 DEF SentenceNext

\* What has a snapshot, or lacks it for a reason, still does if the run that took a step
\* was not about to insert it.
LEMMA SnapshotsStay ==
  ASSUME NEW r \in Embedder, NEW run, SentenceInv, SetEmbedder(r, run),
         NEW d, NEW v, HasSnapshot(d, v),
         snapshots'[d][v] = snapshots[d][v], v \in unsaved[d] => v \in unsaved'[d],
         ~(embedder[r].at = "insert" /\ embedder[r].doc = d /\ embedder[r].version = v)
  PROVE  HasSnapshot(d, v)'
<1>1. \A o \in Embedder \ {r} : embedder'[o] = embedder[o]
  BY DEF SetEmbedder, SentenceInv
<1> QED
  BY <1>1 DEF HasSnapshot, Replacing

LEMMA RecordNextKeeps == SentenceInv /\ RecordInv /\ [SentenceNext]_sentenceVars => RecordInv'
<1> SUFFICES ASSUME SentenceInv, RecordInv, [SentenceNext]_sentenceVars PROVE RecordInv'
  OBVIOUS
<1>a. PICK known : known = analysed
  OBVIOUS
<1>0. \A r \in Embedder : RunSound(embedder[r], known)
  BY <1>a DEF SentenceInv, EmbedderSound
\* The steps of a run that neither reach the snapshots nor record.
<1>1. ASSUME NEW r \in Embedder, NEW run, SetEmbedder(r, run), embedder[r].at # "insert",
             UNCHANGED <<snapshots, recorded, unsaved>>, run.at # "record"
      PROVE  RecordInv'
  <2>1. \A d, v : HasSnapshot(d, v) => HasSnapshot(d, v)'
    BY <1>1, SnapshotsStay
  <2>2. embedder'[r].at # "record" /\ \A o \in Embedder \ {r} : embedder'[o] = embedder[o]
    BY <1>1 DEF SetEmbedder, SentenceInv
  <2> QED
    BY <1>1, <2>1, <2>2 DEF RecordInv
<1>2. ASSUME NEW r \in Embedder, NEW d \in Work, BeginAnalysis(r, d) PROVE RecordInv'
  <2>1. PICK run : run = [at |-> IF stageOne[d] = edition[d] THEN "later" ELSE "segments", doc |-> d,
                          text |-> prose[d], version |-> edition[d], toStore |-> <<>>]
    OBVIOUS
  <2> QED
    BY <1>1, <1>2, <2>1 DEF BeginAnalysis
<1>3. ASSUME NEW r \in Embedder, NEW toStore, embedder[r].at = "segments",
             SetEmbedder(r, [embedder[r] EXCEPT !.toStore = toStore]),
             UNCHANGED <<snapshots, recorded, unsaved>>
      PROVE  RecordInv'
  <2>1. PICK run : run = [embedder[r] EXCEPT !.toStore = toStore]
    OBVIOUS
  <2>2. run.at = "segments"
    BY <1>0, <1>3, <2>1 DEF RunSound
  <2> QED
    BY <1>1, <1>3, <2>1, <2>2
<1>4. ASSUME NEW r \in Embedder, NEW i \in DOMAIN embedder[r].text, LookUp(r, i) PROVE RecordInv'
  BY <1>3, <1>4 DEF LookUp
<1>5. ASSUME NEW r \in Embedder, NEW i, StoreSentence(r, i) PROVE RecordInv'
  BY <1>3, <1>5 DEF StoreSentence
<1>6. ASSUME NEW r \in Embedder, EndStageOne(r) PROVE RecordInv'
  <2>1. PICK run : run = [embedder[r] EXCEPT !.at = "later"]
    OBVIOUS
  <2>2. run.at = "later"
    BY <1>0, <2>1 DEF RunSound
  <2> QED
    BY <1>1, <1>6, <2>1, <2>2 DEF EndStageOne
<1>7. ASSUME NEW r \in Embedder, EndStages(r) PROVE RecordInv'
  <2>1. PICK at, run : /\ at = IF HashesOf[embedder[r].text] = {} THEN "record" ELSE "delete"
                       /\ run = [embedder[r] EXCEPT !.at = at]
    OBVIOUS
  <2>2. /\ embedder[r].doc \in Work /\ embedder[r].at = "later" /\ SetEmbedder(r, run)
        /\ run.at = at /\ run.doc = embedder[r].doc /\ run.version = embedder[r].version
    <3>1. RunSound(embedder[r], known) /\ embedder[r].at = "later" /\ SetEmbedder(r, run)
      BY <1>0, <1>7, <2>1 DEF EndStages
    <3>2. embedder[r].doc \in Work
      BY <3>1 DEF RunSound
    <3> QED
      BY <2>1, <3>1, <3>2, RunMoves
  <2>3. /\ DOMAIN unsaved' = Work /\ \A d \in Work : unsaved[d] \subseteq unsaved'[d]
        /\ at = "record" => run.version \in unsaved'[run.doc]
    BY <1>7, <2>1, <2>2 DEF EndStages, RecordInv
  <2>4. \A d \in Work : \A v : HasSnapshot(d, v) => HasSnapshot(d, v)'
    BY <1>7, <2>2, <2>3, SnapshotsStay DEF EndStages
  <2>5. embedder'[r] = run /\ \A o \in Embedder \ {r} : embedder'[o] = embedder[o]
    BY <2>2 DEF SetEmbedder, SentenceInv
  <2>6. ASSUME NEW o \in Embedder, embedder'[o].at = "record"
        PROVE  HasSnapshot(embedder[o].doc, embedder[o].version)'
    <3>1. CASE o = r
      BY <2>2, <2>3, <2>5, <2>6, <3>1 DEF HasSnapshot
    <3>2. CASE o # r
      <4>1. embedder[o].doc \in Work
        BY <1>0, <2>5, <2>6, <3>2 DEF RunSound
      <4> QED
        BY <2>4, <2>5, <2>6, <3>2, <4>1 DEF RecordInv
    <3> QED
      BY <3>1, <3>2
  <2> QED
    BY <1>7, <2>3, <2>4, <2>6 DEF EndStages, RecordInv
<1>8. ASSUME NEW r \in Embedder, DeleteSnapshot(r) PROVE RecordInv'
  <2>1. PICK run : run = [embedder[r] EXCEPT !.at = "insert"]
    OBVIOUS
  <2>2. /\ embedder[r].doc \in Work /\ embedder[r].at = "delete" /\ SetEmbedder(r, run)
        /\ run.at = "insert" /\ run.doc = embedder[r].doc /\ run.version = embedder[r].version
    <3>1. RunSound(embedder[r], known) /\ embedder[r].at = "delete" /\ SetEmbedder(r, run)
      BY <1>0, <1>8, <2>1 DEF DeleteSnapshot
    <3>2. embedder[r].doc \in Work
      BY <3>1 DEF RunSound
    <3> QED
      BY <2>1, <3>1, <3>2, RunMoves
  <2>3. embedder'[r] = run /\ \A o \in Embedder \ {r} : embedder'[o] = embedder[o]
    BY <2>2 DEF SetEmbedder, SentenceInv
  <2>4. ASSUME NEW d, NEW v, HasSnapshot(d, v) PROVE HasSnapshot(d, v)'
    <3>1. CASE d = run.doc /\ v = run.version
      BY <2>2, <2>3, <3>1 DEF HasSnapshot, Replacing
    <3>2. CASE ~(d = run.doc /\ v = run.version)
      <4>1. snapshots'[d][v] = snapshots[d][v]
        BY <1>8, <2>2, <3>2 DEF DeleteSnapshot, SentenceInv
      <4> QED
        BY <1>8, <2>2, <2>4, <4>1, SnapshotsStay DEF DeleteSnapshot
    <3> QED
      BY <3>1, <3>2
  <2> QED
    BY <1>8, <2>2, <2>3, <2>4 DEF DeleteSnapshot, RecordInv
<1>9. ASSUME NEW r \in Embedder, InsertSnapshot(r) PROVE RecordInv'
  <2>1. PICK doc, version : doc = embedder[r].doc /\ version = embedder[r].version
    OBVIOUS
  <2>2. /\ doc \in Work /\ version \in 1..MaxEditions /\ embedder[r].at = "insert"
        /\ SnapshotOf(embedder[r]) # {}
    BY <1>0, <1>9, <2>1 DEF RunSound, InsertSnapshot, SnapshotOf
  <2>3. /\ snapshots'[doc][version] # {} /\ DOMAIN unsaved' = Work
        /\ \A d, v : ~(d = doc /\ v = version) =>
             snapshots'[d][v] = snapshots[d][v] /\ (v \in unsaved[d] => v \in unsaved'[d])
    <3>1. CASE snapshots[doc][version] = {}
      <4>1. /\ snapshots' = [snapshots EXCEPT ![doc][version] = SnapshotOf(embedder[r])]
            /\ unsaved' = [unsaved EXCEPT ![doc] = @ \ {version}]
        BY <1>9, <2>1, <3>1 DEF InsertSnapshot
      <4> QED
        <5>1. snapshots'[doc][version] = SnapshotOf(embedder[r])
          BY <2>2, <4>1 DEF SentenceInv
        <5>2. ASSUME NEW d, NEW v, ~(d = doc /\ v = version)
              PROVE  snapshots'[d][v] = snapshots[d][v] /\ (v \in unsaved[d] => v \in unsaved'[d])
          <6>1. CASE d = doc
            BY <2>2, <4>1, <5>2, <6>1 DEF SentenceInv, RecordInv
          <6>2. CASE d # doc
            BY <4>1, <6>2
          <6> QED
            BY <6>1, <6>2
        <5>3. DOMAIN unsaved' = Work
          BY <4>1 DEF RecordInv
        <5> QED
          BY <2>2, <5>1, <5>2, <5>3
    <3>2. CASE snapshots[doc][version] # {}
      BY <1>9, <2>1, <3>2 DEF InsertSnapshot, RecordInv
    <3> QED
      BY <3>1, <3>2
  <2>4. PICK run : /\ SetEmbedder(r, run)
                   /\ run = NoEmbedder \/ run = [embedder[r] EXCEPT !.at = "record"]
    BY <1>9 DEF InsertSnapshot
  <2>5. run.at = "record" => run.doc = doc /\ run.version = version
    <3>1. RunSound(embedder[r], known) /\ NoEmbedder.at = "rest"
      BY <1>0 DEF NoEmbedder
    <3> QED
      BY <2>1, <2>4, <3>1, RunMoves
  <2>6. ASSUME NEW d, NEW v, HasSnapshot(d, v) \/ (d = doc /\ v = version) PROVE HasSnapshot(d, v)'
    <3>1. CASE d = doc /\ v = version
      BY <2>3, <3>1 DEF HasSnapshot
    <3>2. CASE ~(d = doc /\ v = version)
      BY <2>1, <2>3, <2>4, <2>6, <3>2, SnapshotsStay
    <3> QED
      BY <3>1, <3>2
  <2>7. embedder'[r] = run /\ \A o \in Embedder \ {r} : embedder'[o] = embedder[o]
    BY <2>4 DEF SetEmbedder, SentenceInv
  <2>8. ASSUME NEW o \in Embedder, embedder'[o].at = "record"
        PROVE  HasSnapshot(embedder[o].doc, embedder[o].version)'
    <3>1. CASE o = r
      BY <2>5, <2>6, <2>7, <2>8, <3>1
    <3>2. CASE o # r
      BY <2>6, <2>7, <2>8, <3>2 DEF RecordInv
    <3> QED
      BY <3>1, <3>2
  <2> QED
    BY <1>9, <2>3, <2>6, <2>8 DEF InsertSnapshot, RecordInv
<1>10. ASSUME NEW r \in Embedder, RecordVersion(r) PROVE RecordInv'
  <2>1. PICK doc, version : doc = embedder[r].doc /\ version = embedder[r].version
    OBVIOUS
  <2>2. /\ doc \in Work /\ version \in 1..MaxEditions /\ embedder[r].at = "record" /\ HasSnapshot(doc, version)
    BY <1>0, <1>10, <2>1 DEF RunSound, RecordVersion, RecordInv
  <2>3. SetEmbedder(r, NoEmbedder) /\ UNCHANGED <<snapshots, unsaved>> /\ NoEmbedder.at = "rest"
    BY <1>10 DEF RecordVersion, NoEmbedder
  <2>4. \A d, v : HasSnapshot(d, v) => HasSnapshot(d, v)'
    BY <2>2, <2>3, SnapshotsStay
  <2>5. embedder'[r] = NoEmbedder /\ \A o \in Embedder \ {r} : embedder'[o] = embedder[o]
    BY <2>3 DEF SetEmbedder, SentenceInv
  <2>6. recorded' = [recorded EXCEPT ![doc] = @ \cup {version}]
    BY <1>10, <2>1 DEF RecordVersion
  <2>7. /\ recorded' \in [Work -> SUBSET (1..MaxEditions)]
        /\ \A d \in Work : \A v \in recorded'[d] : v \in recorded[d] \/ (d = doc /\ v = version)
    BY <2>2, <2>6 DEF RecordInv
  <2> QED
    BY <2>2, <2>3, <2>4, <2>5, <2>7 DEF RecordInv
<1>11. ASSUME NEW r \in Embedder, AnalysisEnds(r) PROVE RecordInv'
  <2>1. PICK doc, version : doc = embedder[r].doc /\ version = embedder[r].version
    OBVIOUS
  <2>2. doc \in Work /\ SetEmbedder(r, NoEmbedder) /\ NoEmbedder.at = "rest" /\ UNCHANGED <<snapshots, recorded>>
    BY <1>0, <1>11, <2>1 DEF RunSound, AnalysisEnds, NoEmbedder
  <2>3. /\ DOMAIN unsaved' = Work /\ \A d \in Work : unsaved[d] \subseteq unsaved'[d]
        /\ embedder[r].at = "insert" => version \in unsaved'[doc]
    BY <1>11, <2>1, <2>2 DEF AnalysisEnds, RecordInv
  <2>4. ASSUME NEW d \in Work, NEW v, HasSnapshot(d, v) PROVE HasSnapshot(d, v)'
    <3>1. CASE embedder[r].at = "insert" /\ d = doc /\ v = version
      BY <2>3, <3>1 DEF HasSnapshot
    <3>2. CASE ~(embedder[r].at = "insert" /\ d = doc /\ v = version)
      BY <2>1, <2>2, <2>3, <2>4, <3>2, SnapshotsStay
    <3> QED
      BY <3>1, <3>2
  <2>5. embedder'[r] = NoEmbedder /\ \A o \in Embedder \ {r} : embedder'[o] = embedder[o]
    BY <2>2 DEF SetEmbedder, SentenceInv
  <2>6. ASSUME NEW o \in Embedder, embedder'[o].at = "record"
        PROVE  HasSnapshot(embedder[o].doc, embedder[o].version)'
    <3>1. o # r /\ embedder'[o] = embedder[o]
      BY <2>2, <2>5, <2>6
    <3>2. embedder[o].doc \in Work
      BY <1>0, <2>6, <3>1 DEF RunSound
    <3> QED
      BY <2>4, <2>6, <3>1, <3>2 DEF RecordInv
  <2> QED
    BY <2>2, <2>3, <2>4, <2>6 DEF RecordInv
<1>12. ASSUME NEW d \in Work, Rewrite(d) PROVE RecordInv'
  BY <1>12 DEF Rewrite, RecordInv, HasSnapshot, Replacing
<1>13. CASE UNCHANGED sentenceVars
  BY <1>13 DEF RecordInv, HasSnapshot, Replacing, sentenceVars
<1> QED
  BY <1>2, <1>4, <1>5, <1>6, <1>7, <1>8, <1>9, <1>10, <1>11, <1>12, <1>13 DEF SentenceNext

LEMMA SentenceInvariant == SentenceSpec => [](SentenceInv /\ RecordInv)
<1>1. ASSUME SentenceInit PROVE SentenceInv /\ RecordInv
  <2>1. PICK known : known = analysed
    OBVIOUS
  <2>2. RunSound(NoEmbedder, known) /\ NoEmbedder.at = "rest"
    BY DEF RunSound, NoEmbedder
  <2>3. \A r \in Embedder : EmbedderSound(embedder[r])
    BY <1>1, <2>1, <2>2 DEF SentenceInit, EmbedderSound
  <2>4. \A k \in DOMAIN vectors : vectors[k].vector = vectors[k].hash
    BY <1>1 DEF SentenceInit
  <2>5. edition \in [Work -> 1..MaxEditions]
    BY <1>1, SentencesAssumption DEF SentenceInit
  <2>6. SentenceInv
    BY <1>1, <2>3, <2>4, <2>5 DEF SentenceInit, SentenceInv
  <2>7. RecordInv
    BY <1>1, <2>2 DEF SentenceInit, RecordInv
  <2> QED
    BY <2>6, <2>7
<1> QED
  BY <1>1, SentenceNextKeeps, RecordNextKeeps, PTL DEF SentenceSpec

\* A vector is that of its sentence's text; and what is told as not stale was analysed,
\* or the snapshot that tells it is missing, for a reason of the three.
THEOREM StaleIsTold == SentenceSpec => []SentencesSound
<1>1. SentenceInv /\ RecordInv => SentencesSound
  <2> SUFFICES ASSUME SentenceInv, RecordInv, NEW d \in Work, NEW text \in Manuscripts, NEW v \in recorded[d]
               PROVE  \/ HashesOf[text] \ StaleIn(text, snapshots[d][v]) \subseteq analysed[d]
                      \/ snapshots[d][v] = {} /\ (Replacing(d, v) \/ v \in unsaved[d])
    BY DEF SentencesSound, SentenceInv
  <2>1. HasSnapshot(d, v) /\ v \in 1..MaxEditions
    BY DEF RecordInv
  <2>2. snapshots[d][v] \subseteq analysed[d]
    BY <2>1 DEF SentenceInv
  <2> QED
    BY <2>1, <2>2 DEF HasSnapshot, StaleIn
<1> QED
  BY <1>1, SentenceInvariant, PTL

-----------------------------------------------------------------------------
(* The review. *)

Confidence == {"low", "medium", "high"}
Pairs == Facet \X Facet
Stage9Run == [at : {"none", "detecting", "persisting", "saved", "failed", "dead"},
              unread : SUBSET EntitiesRead, found : SUBSET Pairs, pending : SUBSET Pairs]
Rows == [by : Attempt, pair : Pairs, resolved : BOOLEAN]

InQueue(a, pair) == \E row \in reviewQueue : row.by = a /\ row.pair = pair

\* What a run has yet to insert, it has; the rest of what it found is in the queue.
RunRecorded(a) ==
  /\ stage9[a].at \in {"persisting", "saved"} =>
       \A pair \in stage9[a].found \ stage9[a].pending : InQueue(a, pair)
  /\ stage9[a].at = "saved" => stage9[a].pending = {}

ReviewInv ==
  /\ onEntity \subseteq Facet
  /\ stage9 \in [Attempt -> Stage9Run]
  /\ reviewQueue \subseteq Rows
  /\ \A a \in Attempt : RunRecorded(a)
  /\ signals \in Signals
  /\ verdicts # <<>> => \A k \in Keys : verdicts[k] \in VerdictsOn(GroupOf(k))

LEMMA HigherIsHigher ==
  ASSUME NEW c \in Confidence, NEW d \in Confidence
  PROVE  /\ Rank[HigherConfidence(c, d)] >= Rank[c] /\ Rank[HigherConfidence(c, d)] >= Rank[d]
         /\ Rank[HigherConfidence(c, d)] \in Nat /\ Rank[c] \in Nat
BY DEF Confidence, HigherConfidence, Rank

\* The highest of a group is at least any of it.
LEMMA HighestIsHighest ==
  ASSUME ConflictAssumption, signals \in Signals,
         NEW group \in SUBSET DOMAIN signals, NEW known \in Confidence, NEW i \in group
  PROVE  /\ HighestIn(group, known) \in Confidence
         /\ Rank[HighestIn(group, known)] >= Rank[signals[i].confidence]
<1>1. PICK len : len = Len(signals)
  OBVIOUS
<1>2. len \in Nat /\ DOMAIN signals = 1..len /\ \A n \in 1..len : signals[n].confidence \in Confidence
  <2>1. signals \in Seq([extracted : DOMAIN EntityOf, registry : DOMAIN EntityOf,
                         segment : Nat, confidence : Confidence])
    BY DEF ConflictAssumption, Confidence
  <2>2. \A n \in 1..Len(signals) : signals[n] \in [extracted : DOMAIN EntityOf, registry : DOMAIN EntityOf,
                         segment : Nat, confidence : Confidence]
    BY ONLY <2>1, ElementOfSeq
  <2> QED
    BY <1>1, <2>1, <2>2
<1>3. PICK Step : Step = [p \in Nat \X Confidence |->
                            IF p[1] \in group THEN HigherConfidence(p[2], signals[p[1]].confidence) ELSE p[2]]
  OBVIOUS
<1>4. \A c, d \in Confidence : HigherConfidence(c, d) \in Confidence
  BY DEF HigherConfidence
<1>5. Step \in [Nat \X Confidence -> Confidence]
  BY <1>2, <1>3, <1>4
<1>6. PICK g \in [Nat -> Confidence] : GoesBy(g, known, Step)
  <2>1. known \in Confidence
    OBVIOUS
  <2> QED
    BY ONLY <1>5, <2>1, Recursion
<1>7. PICK f : f = [n \in 0..len |-> g[n]]
  OBVIOUS
<1>8. f = [n \in 0..len |->
             IF n = 0 THEN known
             ELSE IF n \in group THEN HigherConfidence(f[n - 1], signals[n].confidence)
             ELSE f[n - 1]]
  <2>1. ASSUME NEW n \in 0..len, n # 0
        PROVE  f[n] = IF n \in group THEN HigherConfidence(f[n - 1], signals[n].confidence) ELSE f[n - 1]
    <3>1. n - 1 \in Nat /\ (n - 1) + 1 = n /\ n - 1 \in 0..len
      <4>1. len \in Nat
        BY <1>2
      <4> QED
        BY ONLY <2>1, <4>1
    <3>2. g[n] = Step[<<n, g[n - 1]>>]
      BY <1>6, <3>1 DEF GoesBy
    <3>3. <<n, g[n - 1]>> \in Nat \X Confidence
      BY <1>2, <1>6, <3>1
    <3>4. f[n] = g[n] /\ f[n - 1] = g[n - 1]
      BY <1>7, <3>1
    <3> QED
      BY <1>3, <3>2, <3>3, <3>4
  <2>2. f[0] = known
    BY <1>2, <1>6, <1>7 DEF GoesBy
  <2> QED
    BY <1>7, <2>1, <2>2
<1> DEFINE confidence[n \in 0..len] ==
             IF n = 0 THEN known
             ELSE IF n \in group THEN HigherConfidence(confidence[n - 1], signals[n].confidence)
             ELSE confidence[n - 1]
<1>9. confidence = [n \in 0..len |->
             IF n = 0 THEN known
             ELSE IF n \in group THEN HigherConfidence(confidence[n - 1], signals[n].confidence)
             ELSE confidence[n - 1]]
  BY <1>8
<1>10. HighestIn(group, known) = confidence[len]
  BY <1>1 DEF HighestIn
<1>11. PICK h : /\ h = [n \in 0..len |->
                         IF n = 0 THEN known
                         ELSE IF n \in group THEN HigherConfidence(h[n - 1], signals[n].confidence)
                         ELSE h[n - 1]]
                /\ HighestIn(group, known) = h[len]
  <2> HIDE DEF confidence
  <2> QED
    BY <1>9, <1>10
<1> HIDE DEF confidence
<1> DEFINE P == {n \in Nat : n <= len =>
                   /\ h[n] \in Confidence
                   /\ \A j \in group : j <= n => Rank[h[n]] >= Rank[signals[j].confidence]}
<1>12. 0 \in P
  <2>1. h[0] = known
    BY <1>2, <1>11
  <2>2. \A j \in group : j > 0
    BY <1>2
  <2> QED
    BY <2>1, <2>2
<1>13. ASSUME NEW n \in Nat, n \in P PROVE n + 1 \in P
  <2>1. SUFFICES ASSUME n + 1 <= len
                 PROVE  /\ h[n + 1] \in Confidence
                        /\ \A j \in group : j <= n + 1 => Rank[h[n + 1]] >= Rank[signals[j].confidence]
    OBVIOUS
  <2>2. h[n] \in Confidence /\ \A j \in group : j <= n => Rank[h[n]] >= Rank[signals[j].confidence]
    BY <1>2, <1>13, <2>1
  <2>3. h[n + 1] = IF n + 1 \in group THEN HigherConfidence(h[n], signals[n + 1].confidence) ELSE h[n]
    <3>1. n + 1 \in 0..len /\ n + 1 # 0 /\ (n + 1) - 1 = n
      <4>1. len \in Nat
        BY <1>2
      <4> QED
        BY ONLY <1>13, <2>1, <4>1
    <3> QED
      BY <1>11, <3>1
  <2>4. CASE n + 1 \in group
    <3>1. signals[n + 1].confidence \in Confidence
      BY <1>2, <2>1
    <3>2. PICK c, d : c = h[n] /\ d = signals[n + 1].confidence
      OBVIOUS
    <3>3. /\ Rank[HigherConfidence(c, d)] >= Rank[c]
          /\ Rank[HigherConfidence(c, d)] >= Rank[d]
          /\ Rank[HigherConfidence(c, d)] \in Nat /\ Rank[c] \in Nat
      BY <2>2, <3>1, <3>2, HigherIsHigher
    <3>4. h[n + 1] = HigherConfidence(c, d)
      BY <2>3, <2>4, <3>2
    <3>5. h[n + 1] \in Confidence
      BY <1>4, <2>2, <3>1, <3>2, <3>4
    <3>6. ASSUME NEW j \in group, j <= n + 1 PROVE Rank[h[n + 1]] >= Rank[signals[j].confidence]
      <4>1. CASE j = n + 1
        BY <3>2, <3>3, <3>4, <4>1
      <4>2. CASE j <= n
        <5>1. Rank[c] >= Rank[signals[j].confidence]
          BY <2>2, <3>2, <4>2
        <5>2. Rank[signals[j].confidence] \in Nat
          BY <1>2 DEF Rank, Confidence
        <5> QED
          BY <3>3, <3>4, <5>1, <5>2
      <4> QED
        BY <1>2, <3>6, <4>1, <4>2
    <3> QED
      BY <3>5, <3>6
  <2>5. CASE n + 1 \notin group
    <3>1. \A j \in group : j <= n + 1 => j <= n
      BY <1>2, <2>5
    <3> QED
      BY <2>2, <2>3, <2>5, <3>1
  <2> QED
    BY <2>4, <2>5
<1>14. len \in P
  <2> HIDE DEF P
  <2>1. \A n \in Nat : n \in P
    BY <1>12, <1>13, SetInduction
  <2> QED
    BY <1>2, <2>1
<1>15. i <= len
  BY <1>2
<1> QED
  BY <1>2, <1>11, <1>14, <1>15

\* The group of a signal.
LEMMA GroupOfSignal ==
  ASSUME ConflictAssumption, signals \in Signals, NEW s \in Range(signals)
  PROVE  /\ Rank[GroupOf(KeyOf(s)).confidence] >= Rank[s.confidence]
         /\ GroupOf(KeyOf(s)).confidence \in Confidence
         /\ GroupOf(KeyOf(s)).segments =
              Cardinality({t.segment : t \in {t \in Range(signals) : KeyOf(t) = KeyOf(s)}})
<1>1. PICK group : group = {j \in DOMAIN signals : KeyOf(signals[j]) = KeyOf(s)}
  OBVIOUS
<1>2. PICK i \in DOMAIN signals : signals[i] = s
  BY DEF Range
<1>3. i \in group /\ group \in SUBSET DOMAIN signals
  BY <1>1, <1>2
<1>4. signals \in Seq([extracted : DOMAIN EntityOf, registry : DOMAIN EntityOf,
                       segment : Nat, confidence : Confidence])
  BY DEF ConflictAssumption, Confidence
<1>5. DOMAIN signals = 1..Len(signals) /\ Len(signals) \in Nat
  BY <1>4
<1>6. Min(group) \in group
  <2>1. group \in SUBSET Nat /\ group # {}
    BY <1>3, <1>5
  <2> QED
    BY <2>1, LeastIsThere
<1>7. signals[Min(group)].confidence \in Confidence
  <2>1. Min(group) \in 1..Len(signals)
    BY <1>3, <1>5, <1>6
  <2>2. signals[Min(group)] \in [extracted : DOMAIN EntityOf, registry : DOMAIN EntityOf,
                       segment : Nat, confidence : Confidence]
    BY ONLY <1>4, <2>1, ElementOfSeq
  <2> QED
    BY <2>2
<1>8. GroupOf(KeyOf(s)).confidence = HighestIn(group, signals[Min(group)].confidence)
  BY <1>1 DEF GroupOf
<1>9. PICK known : known = signals[Min(group)].confidence
  OBVIOUS
<1>10. /\ HighestIn(group, known) \in Confidence
       /\ Rank[HighestIn(group, known)] >= Rank[signals[i].confidence]
  <2>1. known \in Confidence
    BY <1>7, <1>9
  <2> QED
    BY <1>3, <2>1, HighestIsHighest
<1>11. GroupOf(KeyOf(s)).segments = Cardinality({signals[j].segment : j \in group})
  BY <1>1 DEF GroupOf
<1>12. {signals[j].segment : j \in group} = {t.segment : t \in {t \in Range(signals) : KeyOf(t) = KeyOf(s)}}
  BY <1>1 DEF Range
<1> QED
  BY <1>2, <1>8, <1>9, <1>10, <1>11, <1>12

\* What is decided of a group that is sure enough.
LEMMA VerdictsJudge ==
  ASSUME NEW source, NEW target, NEW count, NEW confidence \in Confidence, NEW least \in Confidence,
         Rank[confidence] >= Rank[least],
         NEW verdict \in VerdictsOn([source |-> source, target |-> target,
                                     segments |-> count, confidence |-> confidence])
  PROVE  /\ least # "low" => verdict # "skipped"
         /\ least = "high" /\ count >= 3 => verdict \in {"auto_merge", "null"}
BY DEF VerdictsOn, Confidence, Rank, RunLLMDisambiguation, RouteToReviewQueue

LEMMA GroupIs ==
  ASSUME NEW key
  PROVE  GroupOf(key) = [source |-> GroupOf(key).source, target |-> GroupOf(key).target,
                         segments |-> GroupOf(key).segments, confidence |-> GroupOf(key).confidence]
BY DEF GroupOf

LEMMA SignalsAreJudged ==
  ASSUME ConflictAssumption, ReviewInv
  PROVE  SignalsJudged
<1>1. SUFFICES ASSUME verdicts # <<>>, NEW s \in Range(signals)
               PROVE  /\ s.confidence # "low" => verdicts[KeyOf(s)] # "skipped"
                      /\ s.confidence = "high" /\ Cardinality({t.segment : t \in {t \in Range(signals) : KeyOf(t) = KeyOf(s)}}) >= 3
                           => verdicts[KeyOf(s)] \in {"auto_merge", "null"}
  BY DEF SignalsJudged
<1>2. PICK g : g = GroupOf(KeyOf(s))
  OBVIOUS
<1>3. verdicts[KeyOf(s)] \in VerdictsOn(g)
  BY <1>1, <1>2 DEF ReviewInv, Keys
<1>4. signals \in Signals
  BY DEF ReviewInv
<1>5. /\ Rank[g.confidence] >= Rank[s.confidence] /\ g.confidence \in Confidence
      /\ g.segments = Cardinality({t.segment : t \in {t \in Range(signals) : KeyOf(t) = KeyOf(s)}})
  BY <1>2, <1>4, GroupOfSignal
<1>6. g = [source |-> g.source, target |-> g.target, segments |-> g.segments, confidence |-> g.confidence]
  BY <1>2, GroupIs
<1>7. s.confidence \in Confidence
  <2>1. signals \in Seq([extracted : DOMAIN EntityOf, registry : DOMAIN EntityOf,
                         segment : Nat, confidence : Confidence])
    BY <1>4 DEF ConflictAssumption, Confidence
  <2>2. PICK i \in DOMAIN signals : signals[i] = s
    BY DEF Range
  <2>3. i \in 1..Len(signals)
    BY <2>1, <2>2
  <2>4. signals[i] \in [extracted : DOMAIN EntityOf, registry : DOMAIN EntityOf,
                        segment : Nat, confidence : Confidence]
    BY ONLY <2>1, <2>3, ElementOfSeq
  <2> QED
    BY <2>2, <2>4
<1>8. PICK source, target, count, confidence, least :
        /\ source = g.source /\ target = g.target /\ count = g.segments
        /\ confidence = g.confidence /\ least = s.confidence
  OBVIOUS
<1>9. verdicts[KeyOf(s)] \in VerdictsOn([source |-> source, target |-> target,
                                         segments |-> count, confidence |-> confidence])
  BY <1>3, <1>6, <1>8
<1>10. confidence \in Confidence /\ least \in Confidence /\ Rank[confidence] >= Rank[least]
  BY <1>5, <1>7, <1>8
<1>11. /\ least # "low" => verdicts[KeyOf(s)] # "skipped"
       /\ least = "high" /\ count >= 3 => verdicts[KeyOf(s)] \in {"auto_merge", "null"}
  BY <1>9, <1>10, VerdictsJudge
<1> QED
  BY <1>5, <1>8, <1>11

LEMMA ComparablePairs ==
  ASSUME onEntity \subseteq Facet, NEW e
  PROVE  \A pairs \in Answers(e) : pairs \in SUBSET Pairs
BY DEF Answers, Comparable, AllFacets, Pairs

\* What a run comes to is a run, and it has recorded what it should have.
RunIsSound(run, rows, a) ==
  /\ run \in Stage9Run
  /\ run.at \in {"persisting", "saved"} =>
       \A pair \in run.found \ run.pending : \E row \in rows : row.by = a /\ row.pair = pair
  /\ run.at = "saved" => run.pending = {}

\* A step of one run.
LEMMA RunStep ==
  ASSUME ReviewInv, NEW a \in Attempt, NEW run, RunIsSound(run, reviewQueue', a),
         stage9' = [stage9 EXCEPT ![a] = run],
         reviewQueue \subseteq reviewQueue', reviewQueue' \subseteq Rows,
         UNCHANGED <<onEntity, signals, verdicts>>
  PROVE  ReviewInv'
<1>1. stage9' \in [Attempt -> Stage9Run]
  BY DEF ReviewInv, RunIsSound
<1>2. ASSUME NEW b \in Attempt PROVE RunRecorded(b)'
  <2>1. CASE b = a
    <3>1. stage9'[b] = run
      BY <2>1 DEF ReviewInv
    <3> QED
      BY <2>1, <3>1 DEF RunRecorded, RunIsSound, InQueue
  <2>2. CASE b # a
    <3>1. stage9'[b] = stage9[b]
      BY <2>2 DEF ReviewInv
    <3>2. RunRecorded(b)
      BY DEF ReviewInv
    <3>3. \A pair : InQueue(b, pair) => InQueue(b, pair)'
      BY DEF InQueue
    <3> QED
      BY <3>1, <3>2, <3>3 DEF RunRecorded
  <2> QED
    BY <2>1, <2>2
<1>3. onEntity' \subseteq Facet /\ signals' \in Signals
  BY DEF ReviewInv
<1>4. (verdicts # <<>> => \A k \in Keys : verdicts[k] \in VerdictsOn(GroupOf(k)))'
  <2>1. verdicts' = verdicts /\ signals' = signals
    OBVIOUS
  <2>2. verdicts # <<>> => \A k \in Keys : verdicts[k] \in VerdictsOn(GroupOf(k))
    BY DEF ReviewInv
  <2>3. ASSUME NEW group, NEW known
        PROVE  HighestIn(group, known)' = HighestIn(group, known)
    BY <2>1 DEF HighestIn, HigherConfidence, Rank
  <2>4. ASSUME NEW k
        PROVE  GroupOf(k)' = GroupOf(k)
    BY <2>1, <2>3 DEF GroupOf, KeyOf
  <2>5. Keys' = Keys
    BY <2>1 DEF Keys, KeyOf
  <2> QED
    BY <2>1, <2>2, <2>4, <2>5
<1> QED
  BY <1>1, <1>2, <1>3, <1>4 DEF ReviewInv

LEMMA RunIs ==
  ASSUME ReviewInv, NEW a \in Attempt
  PROVE  /\ stage9[a] \in Stage9Run /\ RunIsSound(stage9[a], reviewQueue, a)
         /\ DOMAIN stage9 = Attempt
BY DEF ReviewInv, RunRecorded, RunIsSound, InQueue

LEMMA StagesKeep ==
  ASSUME ReviewInv, NEW a \in Attempt,
         StartStage9(a) \/ PersistConflicts(a) \/ SaveStage9(a) \/ Stage9Dies(a)
  PROVE  ReviewInv'
<1>1. PICK run : run = stage9[a]
  OBVIOUS
<1>2. run \in Stage9Run /\ RunIsSound(run, reviewQueue, a)
  BY <1>1, RunIs
<1>3. reviewQueue \subseteq Rows
  BY DEF ReviewInv
<1>4. CASE StartStage9(a)
  <2>1. stage9' = [stage9 EXCEPT ![a] = [run EXCEPT !.at = "detecting"]]
    BY <1>1, <1>4 DEF StartStage9
  <2>2. RunIsSound([run EXCEPT !.at = "detecting"], reviewQueue, a)
    BY <1>2 DEF RunIsSound, Stage9Run
  <2> QED
    BY <1>3, <1>4, <2>1, <2>2, RunStep DEF StartStage9
<1>5. CASE PersistConflicts(a)
  <2>1. stage9' = [stage9 EXCEPT ![a] = [run EXCEPT !.at = "persisting", !.pending = run.found]]
    BY <1>1, <1>5 DEF PersistConflicts
  <2>2. RunIsSound([run EXCEPT !.at = "persisting", !.pending = run.found], reviewQueue, a)
    BY <1>2 DEF RunIsSound, Stage9Run
  <2> QED
    BY <1>3, <1>5, <2>1, <2>2, RunStep DEF PersistConflicts
<1>6. CASE SaveStage9(a)
  <2>1. stage9' = [stage9 EXCEPT ![a] = [run EXCEPT !.at = "saved"]]
    BY <1>1, <1>6 DEF SaveStage9
  <2>2. run.at = "persisting" /\ run.pending = {}
    BY <1>1, <1>6 DEF SaveStage9
  <2>3. RunIsSound([run EXCEPT !.at = "saved"], reviewQueue, a)
    BY <1>2, <2>2 DEF RunIsSound, Stage9Run
  <2> QED
    BY <1>3, <1>6, <2>1, <2>3, RunStep DEF SaveStage9
<1>7. CASE Stage9Dies(a)
  <2>1. stage9' = [stage9 EXCEPT ![a] = [run EXCEPT !.at = "dead", !.pending = {}]]
    BY <1>1, <1>7 DEF Stage9Dies
  <2>2. RunIsSound([run EXCEPT !.at = "dead", !.pending = {}], reviewQueue, a)
    BY <1>2 DEF RunIsSound, Stage9Run
  <2> QED
    BY <1>3, <1>7, <2>1, <2>2, RunStep DEF Stage9Dies
<1> QED
  BY <1>4, <1>5, <1>6, <1>7

LEMMA DetectingKeeps ==
  ASSUME ReviewInv, NEW a \in Attempt, NEW e, DetectContradictions(a, e)
  PROVE  ReviewInv'
<1>1. PICK run : run = stage9[a]
  OBVIOUS
<1>2. run \in Stage9Run /\ run.at = "detecting" /\ reviewQueue' = reviewQueue
  BY <1>1, RunIs DEF DetectContradictions
<1>3. PICK pairs \in Answers(e) :
        stage9' = [stage9 EXCEPT ![a] = [run EXCEPT !.unread = run.unread \ {e}, !.found = run.found \cup pairs]]
  BY <1>1 DEF DetectContradictions
<1>4. pairs \in SUBSET Pairs
  BY ComparablePairs DEF ReviewInv
<1>5. RunIsSound([run EXCEPT !.unread = run.unread \ {e}, !.found = run.found \cup pairs], reviewQueue', a)
  BY <1>2, <1>4 DEF RunIsSound, Stage9Run
<1> QED
  BY <1>2, <1>3, <1>5, RunStep DEF DetectContradictions, ReviewInv

LEMMA InsertingKeeps ==
  ASSUME ReviewInv, NEW a \in Attempt, NEW pair \in stage9[a].pending,
         InsertRow(a, pair) \/ InsertFails(a, pair)
  PROVE  ReviewInv'
<1>1. PICK run : run = stage9[a]
  OBVIOUS
<1>2. run \in Stage9Run /\ RunIsSound(run, reviewQueue, a) /\ pair \in run.pending /\ pair \in Pairs
  BY <1>1, RunIs DEF Stage9Run
<1>3. reviewQueue \subseteq Rows
  BY DEF ReviewInv
<1>4. CASE InsertRow(a, pair)
  <2>1. stage9' = [stage9 EXCEPT ![a] = [run EXCEPT !.pending = run.pending \ {pair}]]
    BY <1>1, <1>4 DEF InsertRow
  <2>2. PICK row : row = ReviewRow(a, pair)
    OBVIOUS
  <2>3. row \in Rows /\ row.by = a /\ row.pair = pair
    BY <1>2, <2>2 DEF ReviewRow, Rows
  <2>4. reviewQueue' = reviewQueue \cup {row}
    BY <1>4, <2>2 DEF InsertRow
  <2>5. RunIsSound([run EXCEPT !.pending = run.pending \ {pair}], reviewQueue', a)
    <3>1. [run EXCEPT !.pending = run.pending \ {pair}] \in Stage9Run
      BY <1>2 DEF Stage9Run
    <3>2. PICK rows : rows = reviewQueue'
      OBVIOUS
    <3>3. \A other : (\E q \in reviewQueue : q.by = a /\ q.pair = other) => \E q \in rows : q.by = a /\ q.pair = other
      BY <2>4, <3>2
    <3>4. \E q \in rows : q.by = a /\ q.pair = pair
      BY <2>3, <2>4, <3>2
    <3>5. run.at # "saved"
      BY <1>2 DEF RunIsSound
    <3>6. run.at \in {"persisting", "saved"} =>
            \A other \in run.found \ (run.pending \ {pair}) : \E q \in rows : q.by = a /\ q.pair = other
      BY <1>2, <3>3, <3>4 DEF RunIsSound
    <3>7. PICK next : next = [run EXCEPT !.pending = run.pending \ {pair}]
      OBVIOUS
    <3>8. next.at = run.at /\ next.found = run.found /\ next.pending = run.pending \ {pair}
      BY <1>2, <3>7 DEF Stage9Run
    <3>9. RunIsSound(next, rows, a)
      BY <3>1, <3>5, <3>6, <3>7, <3>8 DEF RunIsSound
    <3> QED
      BY <3>2, <3>7, <3>9
  <2> QED
    BY <1>3, <1>4, <2>1, <2>3, <2>4, <2>5, RunStep DEF InsertRow
<1>5. CASE InsertFails(a, pair)
  <2>1. PICK next : next = Rejected([run EXCEPT !.pending = run.pending \ {pair}])
    OBVIOUS
  <2>2. stage9' = [stage9 EXCEPT ![a] = next]
    BY <1>1, <1>5, <2>1 DEF InsertFails
  <2>3. RunIsSound(next, reviewQueue, a)
    <3>1. PICK less : less = [run EXCEPT !.pending = run.pending \ {pair}]
      OBVIOUS
    <3>2. less \in Stage9Run /\ less.at = run.at
      BY <1>2, <3>1 DEF Stage9Run
    <3>3. run.at # "saved"
      BY <1>2 DEF RunIsSound
    <3>4. next \in Stage9Run /\ next.at \notin {"persisting", "saved"}
      BY <2>1, <3>1, <3>2, <3>3 DEF Rejected, Stage9Run
    <3> QED
      BY <3>4 DEF RunIsSound
  <2> QED
    BY <1>3, <1>5, <2>2, <2>3, RunStep DEF InsertFails
<1> QED
  BY <1>4, <1>5

\* A step that leaves the runs and the signals alone, and no row disappears in.
LEMMA QueueStep ==
  ASSUME ReviewInv, UNCHANGED <<stage9, signals>>, onEntity' \subseteq onEntity,
         reviewQueue' \subseteq Rows,
         \A row \in reviewQueue : \E q \in reviewQueue' : q.by = row.by /\ q.pair = row.pair,
         verdicts' # <<>> => \A k \in Keys : verdicts'[k] \in VerdictsOn(GroupOf(k))
  PROVE  ReviewInv'
<1>1. onEntity' \subseteq Facet /\ stage9' \in [Attempt -> Stage9Run] /\ signals' \in Signals
  BY DEF ReviewInv
<1>2. ASSUME NEW a \in Attempt PROVE RunRecorded(a)'
  <2>1. RunRecorded(a)
    BY DEF ReviewInv
  <2>2. \A pair : InQueue(a, pair) => InQueue(a, pair)'
    BY DEF InQueue
  <2> QED
    BY <2>1, <2>2 DEF RunRecorded
<1>3. (verdicts # <<>> => \A k \in Keys : verdicts[k] \in VerdictsOn(GroupOf(k)))'
  <2>1. signals' = signals
    OBVIOUS
  <2>2. ASSUME NEW group, NEW known
        PROVE  HighestIn(group, known)' = HighestIn(group, known)
    BY <2>1 DEF HighestIn, HigherConfidence, Rank
  <2>3. ASSUME NEW k
        PROVE  GroupOf(k)' = GroupOf(k)
    BY <2>1, <2>2 DEF GroupOf, KeyOf
  <2>4. Keys' = Keys
    BY <2>1 DEF Keys, KeyOf
  <2> QED
    BY <2>3, <2>4
<1> QED
  BY <1>1, <1>2, <1>3 DEF ReviewInv

LEMMA ResolvingKeeps ==
  ASSUME ReviewInv, ResolveRow
  PROVE  ReviewInv'
<1>1. PICK row \in reviewQueue :
        reviewQueue' = {IF q.by = row.by /\ q.pair = row.pair THEN [q EXCEPT !.resolved = TRUE] ELSE q : q \in reviewQueue}
  BY DEF ResolveRow
<1>2. reviewQueue \subseteq Rows
  BY DEF ReviewInv
<1>3. ASSUME NEW q \in Rows
      PROVE  /\ [q EXCEPT !.resolved = TRUE] \in Rows
             /\ [q EXCEPT !.resolved = TRUE].by = q.by /\ [q EXCEPT !.resolved = TRUE].pair = q.pair
  BY DEF Rows
<1>4. reviewQueue' \subseteq Rows
  BY <1>1, <1>2, <1>3
<1>5. \A p \in reviewQueue : \E q \in reviewQueue' : q.by = p.by /\ q.pair = p.pair
  BY <1>1, <1>2, <1>3
<1>6. verdicts' = verdicts /\ UNCHANGED <<stage9, signals>> /\ onEntity' = onEntity
  BY DEF ResolveRow
<1>7. verdicts' # <<>> => \A k \in Keys : verdicts'[k] \in VerdictsOn(GroupOf(k))
  BY <1>6 DEF ReviewInv
<1> QED
  BY <1>4, <1>5, <1>6, <1>7, QueueStep

LEMMA ReviewNextKeeps == ConflictAssumption /\ ReviewInv /\ [ConflictNext]_conflictVars => ReviewInv'
<1>1. SUFFICES ASSUME ReviewInv, [ConflictNext]_conflictVars PROVE ReviewInv'
  OBVIOUS
<1>2. CASE \E a \in Attempt : StartStage9(a) \/ PersistConflicts(a) \/ SaveStage9(a) \/ Stage9Dies(a)
  BY <1>1, <1>2, StagesKeep
<1>3. CASE \E a \in Attempt : \E e \in EntitiesRead : DetectContradictions(a, e)
  BY <1>1, <1>3, DetectingKeeps
<1>4. CASE \E a \in Attempt : \E pair \in stage9[a].pending : InsertRow(a, pair) \/ InsertFails(a, pair)
  BY <1>1, <1>4, InsertingKeeps
<1>5. CASE \E f \in Facet : FacetLeaves(f)
  <2>1. onEntity' \subseteq onEntity /\ UNCHANGED <<stage9, reviewQueue, signals, verdicts>>
    BY <1>5 DEF FacetLeaves
  <2>2. reviewQueue' \subseteq Rows /\ \A row \in reviewQueue : \E q \in reviewQueue' : q.by = row.by /\ q.pair = row.pair
    BY <1>1, <2>1 DEF ReviewInv
  <2>3. verdicts' # <<>> => \A k \in Keys : verdicts'[k] \in VerdictsOn(GroupOf(k))
    BY <1>1, <2>1 DEF ReviewInv
  <2> QED
    BY <1>1, <2>1, <2>2, <2>3, QueueStep
<1>6. CASE ResolveRow
  BY <1>1, <1>6, ResolvingKeeps
<1>7. CASE DisambiguateMergeSignals
  <2>1. UNCHANGED <<onEntity, stage9, reviewQueue, signals>>
    BY <1>7 DEF DisambiguateMergeSignals
  <2>2. reviewQueue' \subseteq Rows /\ \A row \in reviewQueue : \E q \in reviewQueue' : q.by = row.by /\ q.pair = row.pair
    BY <1>1, <2>1 DEF ReviewInv
  <2>3. \A k \in Keys : verdicts'[k] \in VerdictsOn(GroupOf(k))
    BY <1>7 DEF DisambiguateMergeSignals
  <2> QED
    BY <1>1, <2>1, <2>2, <2>3, QueueStep
<1>8. CASE UNCHANGED conflictVars
  <2>1. UNCHANGED <<onEntity, stage9, reviewQueue, signals, verdicts>>
    BY <1>8 DEF conflictVars
  <2>2. reviewQueue' \subseteq Rows /\ \A row \in reviewQueue : \E q \in reviewQueue' : q.by = row.by /\ q.pair = row.pair
    BY <1>1, <2>1 DEF ReviewInv
  <2>3. verdicts' # <<>> => \A k \in Keys : verdicts'[k] \in VerdictsOn(GroupOf(k))
    BY <1>1, <2>1 DEF ReviewInv
  <2> QED
    BY <1>1, <2>1, <2>2, <2>3, QueueStep
<1>9. \/ \E a \in Attempt : StartStage9(a) \/ PersistConflicts(a) \/ SaveStage9(a) \/ Stage9Dies(a)
      \/ \E a \in Attempt : \E e \in EntitiesRead : DetectContradictions(a, e)
      \/ \E a \in Attempt : \E pair \in stage9[a].pending : InsertRow(a, pair) \/ InsertFails(a, pair)
      \/ \E f \in Facet : FacetLeaves(f)
      \/ ResolveRow \/ DisambiguateMergeSignals \/ UNCHANGED conflictVars
  BY <1>1 DEF ConflictNext
<1> QED
  BY <1>2, <1>3, <1>4, <1>5, <1>6, <1>7, <1>8, <1>9

LEMMA ReviewInvariant == ConflictSpec => []ReviewInv
<1>1. ConflictInit => ReviewInv
  BY ConflictAssumption DEF ConflictInit, ReviewInv, RunRecorded, NotRun, Stage9Run, EntitiesRead, Pairs, Rows
<1>2. ReviewInv /\ [ConflictNext]_conflictVars => ReviewInv'
  BY ConflictAssumption, ReviewNextKeeps
<1> QED
  BY <1>1, <1>2, PTL DEF ConflictSpec

\* What an analysis that has saved its stage 9 found is in the queue of the author, and
\* two names a segment was sure of are neither skipped nor asked about (stage 9 of
\* pipeline.ts, mergeReview.ts).
THEOREM ReviewIsSound == ConflictSpec => []ReviewSound
<1>1. ReviewInv => ConflictsRecorded
  BY DEF ReviewInv, RunRecorded, InQueue, ConflictsRecorded
<1>2. ReviewInv => SignalsJudged
  BY ConflictAssumption, SignalsAreJudged
<1>3. ReviewInv => ReviewSound
  BY <1>1, <1>2 DEF ReviewSound
<1> QED
  BY <1>3, ReviewInvariant, PTL

-----------------------------------------------------------------------------
(* Stages 7 and 8: the arcs, the states and the facets.                     *)

StateRow == [who : Character, order : Nat, linked : BOOLEAN, arcs : SUBSET (1..MaxArcs)]
ArcRow == [who : Character, linked : BOOLEAN]
ArcStage == {"stopped", "ask", "arc", "hasArc", "state", "inArc", "hasState", "facets",
             "attach", "default", "hasDefault", "move", "done"}
InAnArc == {"state", "inArc", "hasState", "facets"}
ArcRun == [at : ArcStage, stage : {7, 8}, todo : SUBSET Character, told : ArcAnswer, who : Character,
           arc : Nat, made : Seq(Nat), facets : SUBSET StateFacet, states : SUBSET Nat]

\* A transition from a state that its character has is within an arc of that character.
Arcs(states, arcs, transitions) ==
  /\ states \in Seq(StateRow) /\ Len(states) <= MaxStates
  /\ arcs \in Seq(ArcRow) /\ Len(arcs) <= MaxArcs
  /\ transitions \subseteq (1..Len(states)) \X (1..Len(states))
  /\ \A t \in transitions : states[t[1]].linked =>
       \E a \in 1..Len(arcs) : /\ arcs[a].linked /\ arcs[a].who = states[t[1]].who
                               /\ a \in states[t[1]].arcs /\ a \in states[t[2]].arcs

\* A state that a run has made for the character at hand, and nothing leads from.
MadeFor(s, who, states, transitions) ==
  /\ s \in 1..Len(states) /\ states[s].who = who
  /\ \A t \in transitions : t[1] # s

\* In the middle of an arc: as long as the character is there the arc is its own, and
\* so is the arc of any state made for it.
ArcUnderway(run, states, arcs, transitions, there) ==
  /\ run.arc \in 1..Len(arcs) /\ arcs[run.arc].who = run.who
  /\ run.who \in there => arcs[run.arc].linked
  /\ \A i \in 1..Len(run.made) :
       /\ MadeFor(run.made[i], run.who, states, transitions)
       /\ states[run.made[i]].linked => arcs[run.arc].linked
       /\ i < Len(run.made) \/ run.at # "inArc" => run.arc \in states[run.made[i]].arcs
  /\ run.at # "state" => run.made # <<>>

RunFitsArcs(run, states, arcs, transitions, there) ==
  /\ run.at = "hasArc" => /\ run.arc \in 1..Len(arcs) /\ arcs[run.arc].who = run.who /\ run.made = <<>>
  /\ run.at \in InAnArc => ArcUnderway(run, states, arcs, transitions, there)
  /\ run.at \in {"default", "hasDefault", "move"} => \A f \in run.facets : CharacterOf[f] = run.who
  /\ run.at = "default" => run.made = <<>>
  /\ run.at = "hasDefault" => run.made # <<>> /\ MadeFor(Last(run.made), run.who, states, transitions)
  /\ run.at = "move" => /\ run.states # {} /\ run.states \subseteq 1..Len(states)
                        /\ run.who \in there => \A s \in run.states : states[s].linked /\ states[s].who = run.who

ArcInv ==
  /\ characters \in SUBSET Character /\ own \in SUBSET StateFacet
  /\ held \in [StateId -> SUBSET StateFacet]
  /\ deletingArcs \in BOOLEAN
  /\ arcRun \in ArcRun
  /\ Arcs(state, arc, changes)
  /\ RunFitsArcs(arcRun, state, arc, changes, characters)


LEMMA RowChanged ==
  ASSUME NEW S, NEW s \in Seq(S), NEW k \in 1..Len(s), NEW row \in S
  PROVE  /\ [s EXCEPT ![k] = row] \in Seq(S) /\ Len([s EXCEPT ![k] = row]) = Len(s)
         /\ \A j \in 1..Len(s) : [s EXCEPT ![k] = row][j] = IF j = k THEN row ELSE s[j]
OBVIOUS

LEMMA RowAdded ==
  ASSUME NEW S, NEW s \in Seq(S), NEW row \in S
  PROVE  /\ Append(s, row) \in Seq(S) /\ Len(Append(s, row)) = Len(s) + 1
         /\ \A j \in 1..Len(s) : Append(s, row)[j] = s[j]
         /\ Append(s, row)[Len(s) + 1] = row
OBVIOUS

LEMMA RowsChanged ==
  ASSUME NEW S, NEW s \in Seq(S), NEW g \in [1..Len(s) -> S]
  PROVE  g \in Seq(S) /\ Len(g) = Len(s)
OBVIOUS

\* Another row in the place of a state that none of the transitions starts from, or
\* that is no more linked than it was.
LEMMA StateChanged ==
  ASSUME NEW states, NEW arcs, NEW transitions, Arcs(states, arcs, transitions),
         NEW k \in 1..Len(states), NEW row \in StateRow, NEW new,
         new = [states EXCEPT ![k] = row],
         row.who = states[k].who, states[k].arcs \subseteq row.arcs,
         row.linked => states[k].linked \/ \A t \in transitions : t[1] # k
  PROVE  /\ Arcs(new, arcs, transitions) /\ Len(new) = Len(states)
         /\ \A j \in 1..Len(states) : new[j] = IF j = k THEN row ELSE states[j]
<1>1. /\ new \in Seq(StateRow) /\ Len(new) = Len(states)
      /\ \A j \in 1..Len(states) : new[j] = IF j = k THEN row ELSE states[j]
  BY RowChanged DEF Arcs
<1>2. ASSUME NEW t \in transitions, new[t[1]].linked
      PROVE  \E a \in 1..Len(arcs) : /\ arcs[a].linked /\ arcs[a].who = new[t[1]].who
                                    /\ a \in new[t[1]].arcs /\ a \in new[t[2]].arcs
  <2>1. t[1] \in 1..Len(states) /\ t[2] \in 1..Len(states)
    BY DEF Arcs
  <2>2. \A j \in 1..Len(states) : new[j].who = states[j].who /\ states[j].arcs \subseteq new[j].arcs
    BY <1>1
  <2>3. states[t[1]].linked
    BY <1>1, <1>2, <2>1
  <2>4. PICK a \in 1..Len(arcs) : /\ arcs[a].linked /\ arcs[a].who = states[t[1]].who
                                  /\ a \in states[t[1]].arcs /\ a \in states[t[2]].arcs
    BY <2>3 DEF Arcs
  <2> QED
    BY <2>1, <2>2, <2>4
<1> QED
  BY <1>1, <1>2 DEF Arcs

LEMMA StateAdded ==
  ASSUME NEW states, NEW arcs, NEW transitions, Arcs(states, arcs, transitions),
         Len(states) < MaxStates, NEW row \in StateRow, NEW new, new = Append(states, row)
  PROVE  /\ Arcs(new, arcs, transitions) /\ Len(new) = Len(states) + 1
         /\ new[Len(states) + 1] = row
         /\ \A j \in 1..Len(states) : new[j] = states[j]
<1>1. /\ new \in Seq(StateRow) /\ Len(new) = Len(states) + 1
      /\ new[Len(states) + 1] = row
      /\ \A j \in 1..Len(states) : new[j] = states[j]
  BY RowAdded DEF Arcs
<1>2. Len(states) \in Nat
  BY DEF Arcs
<1>3. \A t \in transitions : /\ t[1] \in 1..Len(states) /\ t[2] \in 1..Len(states)
                             /\ t \in (1..Len(new)) \X (1..Len(new))
  <2>1. 1..Len(states) \subseteq 1..Len(new)
    BY <1>1, <1>2
  <2> QED
    BY <2>1 DEF Arcs
<1>4. Len(new) <= MaxStates
  BY <1>1, <1>2, CharacterArcsAssumption
<1> QED
  BY <1>1, <1>3, <1>4 DEF Arcs

LEMMA ArcAdded ==
  ASSUME NEW states, NEW arcs, NEW transitions, Arcs(states, arcs, transitions),
         Len(arcs) < MaxArcs, NEW row \in ArcRow, NEW new, new = Append(arcs, row)
  PROVE  /\ Arcs(states, new, transitions) /\ Len(new) = Len(arcs) + 1
         /\ new[Len(arcs) + 1] = row
         /\ \A j \in 1..Len(arcs) : new[j] = arcs[j]
<1>1. /\ new \in Seq(ArcRow) /\ Len(new) = Len(arcs) + 1
      /\ new[Len(arcs) + 1] = row
      /\ \A j \in 1..Len(arcs) : new[j] = arcs[j]
  BY RowAdded DEF Arcs
<1>2. Len(arcs) \in Nat
  BY DEF Arcs
<1>3. 1..Len(arcs) \subseteq 1..Len(new)
  BY <1>1, <1>2
<1>4. Len(new) <= MaxArcs
  BY <1>1, <1>2, CharacterArcsAssumption
<1> QED
  BY <1>1, <1>3, <1>4 DEF Arcs

LEMMA ArcChanged ==
  ASSUME NEW states, NEW arcs, NEW transitions, Arcs(states, arcs, transitions),
         NEW k \in 1..Len(arcs), NEW row \in ArcRow, NEW new, new = [arcs EXCEPT ![k] = row],
         row.who = arcs[k].who, row.linked
  PROVE  /\ Arcs(states, new, transitions) /\ Len(new) = Len(arcs)
         /\ \A j \in 1..Len(arcs) : new[j] = IF j = k THEN row ELSE arcs[j]
<1>1. /\ new \in Seq(ArcRow) /\ Len(new) = Len(arcs)
      /\ \A j \in 1..Len(arcs) : new[j] = IF j = k THEN row ELSE arcs[j]
  BY RowChanged DEF Arcs
<1>2. \A j \in 1..Len(arcs) : new[j].who = arcs[j].who /\ (arcs[j].linked => new[j].linked)
  BY <1>1
<1> QED
  BY <1>1, <1>2 DEF Arcs


Quiet == {"stopped", "ask", "arc", "attach", "done"}

LEMMA QuietFits ==
  ASSUME NEW run, run.at \in Quiet, NEW states, NEW arcs, NEW transitions, NEW there
  PROVE  RunFitsArcs(run, states, arcs, transitions, there)
BY DEF Quiet, RunFitsArcs, InAnArc

LEMMA StoppedIs ==
  ASSUME NEW stage \in {7, 8}
  PROVE  Stopped(stage) \in ArcRun /\ Stopped(stage).at = "stopped"
<1>1. (CHOOSE t \in ArcAnswer : TRUE) \in ArcAnswer /\ (CHOOSE c \in Character : TRUE) \in Character
  BY CharacterArcsAssumption
<1>2. <<>> \in Seq(Nat) /\ {} \in SUBSET Nat
  OBVIOUS
<1> QED
  BY <1>1, <1>2 DEF Stopped, ArcRun, ArcStage

\* A run that is about to do nothing in particular.
LEMMA QuietKeeps ==
  ASSUME ArcInv, characters' \in SUBSET Character, own' \in SUBSET StateFacet,
         held' \in [StateId -> SUBSET StateFacet], deletingArcs' \in BOOLEAN,
         Arcs(state', arc', changes'), arcRun' \in ArcRun, arcRun'.at \in Quiet
  PROVE  ArcInv'
<1>1. RunFitsArcs(arcRun', state', arc', changes', characters')
  BY QuietFits
<1> QED
  BY <1>1 DEF ArcInv

LEMMA StoppingKeeps ==
  ASSUME ArcInv,
         \/ StartAnalysis \/ Resume \/ StopRun \/ AskForArcs \/ EndStage7 \/ FacetsMoved \/ EndStage8
  PROVE  ArcInv'
<1>1. PICK run : run = arcRun
  OBVIOUS
<1>2. run \in ArcRun /\ Arcs(state, arc, changes)
  BY <1>1 DEF ArcInv
<1>3. Stopped(7) \in ArcRun /\ Stopped(8) \in ArcRun /\ Stopped(run.stage) \in ArcRun
      /\ Stopped(7).at = "stopped" /\ Stopped(8).at = "stopped" /\ Stopped(run.stage).at = "stopped"
  BY <1>2, StoppedIs DEF ArcRun
<1>4. UNCHANGED <<held, state, arc, changes, deletingArcs>>
  BY DEF StartAnalysis, Resume, StopRun, AskForArcs, EndStage7, FacetsMoved, EndStage8
<1>5. held' \in [StateId -> SUBSET StateFacet] /\ deletingArcs' \in BOOLEAN /\ Arcs(state', arc', changes')
  BY <1>2, <1>4 DEF ArcInv
<1>6. characters' \in SUBSET Character /\ own' \in SUBSET StateFacet
  BY DEF StartAnalysis, Resume, StopRun, AskForArcs, EndStage7, FacetsMoved, EndStage8, ArcInv
<1>7. arcRun' \in ArcRun /\ arcRun'.at \in Quiet
  <2>1. CASE StartAnalysis
    <3>1. arcRun' = [Stopped(7) EXCEPT !.at = "ask"]
      BY <2>1 DEF StartAnalysis
    <3> QED
      BY <1>3, <3>1 DEF ArcRun, ArcStage, Quiet
  <2>2. CASE Resume
    <3>1. arcRun' = IF run.stage = 7 THEN [run EXCEPT !.at = "ask"]
                    ELSE [run EXCEPT !.at = "attach", !.todo = characters]
      BY <1>1, <2>2 DEF Resume
    <3>2. characters \in SUBSET Character
      BY DEF ArcInv
    <3> QED
      BY <1>2, <3>1, <3>2 DEF ArcRun, ArcStage, Quiet
  <2>3. CASE StopRun
    <3>1. arcRun' = Stopped(run.stage)
      BY <1>1, <2>3 DEF StopRun
    <3> QED
      BY <1>3, <3>1 DEF Quiet
  <2>4. CASE AskForArcs
    <3>1. PICK told \in ArcAnswer :
            arcRun' = [run EXCEPT !.at = "arc", !.told = told,
                                  !.todo = {c \in Character : told[c] # <<>> /\ ~Skipped(told[c])}]
      BY <1>1, <2>4 DEF AskForArcs
    <3>2. {c \in Character : told[c] # <<>> /\ ~Skipped(told[c])} \in SUBSET Character
      OBVIOUS
    <3> QED
      BY <1>2, <3>1, <3>2 DEF ArcRun, ArcStage, Quiet
  <2>5. CASE EndStage7
    <3>1. arcRun' = [Stopped(8) EXCEPT !.at = "attach", !.todo = characters]
      BY <2>5 DEF EndStage7
    <3>2. characters \in SUBSET Character
      BY DEF ArcInv
    <3> QED
      BY <1>3, <3>1, <3>2 DEF ArcRun, ArcStage, Quiet
  <2>6. CASE FacetsMoved
    <3>1. arcRun' = [run EXCEPT !.at = "attach"]
      BY <1>1, <2>6 DEF FacetsMoved
    <3> QED
      BY <1>2, <3>1 DEF ArcRun, ArcStage, Quiet
  <2>7. CASE EndStage8
    <3>1. arcRun' = [Stopped(8) EXCEPT !.at = "done"]
      BY <2>7 DEF EndStage8
    <3> QED
      BY <1>3, <3>1 DEF ArcRun, ArcStage, Quiet
  <2> QED
    BY <2>1, <2>2, <2>3, <2>4, <2>5, <2>6, <2>7
<1> QED
  BY <1>5, <1>6, <1>7, QuietKeeps

LEMMA CreateArcKeeps ==
  ASSUME ArcInv, NEW c \in Character, CreateArc(c)
  PROVE  ArcInv'
<1>1. PICK run, number : run = arcRun /\ number = Len(arc) + 1
  OBVIOUS
<1>2. run \in ArcRun /\ Arcs(state, arc, changes)
  BY <1>1 DEF ArcInv
<1>3. PICK row : row = [who |-> c, linked |-> FALSE]
  OBVIOUS
<1>4. row \in ArcRow /\ arc' = Append(arc, row) /\ Len(arc) < MaxArcs
  BY <1>3 DEF ArcRow, CreateArc
<1>5. Arcs(state, arc', changes) /\ Len(arc') = number /\ arc'[number] = row
  <2>1. Arcs(state, arc', changes)
    BY <1>2, <1>4, ArcAdded
  <2>2. Len(arc') = Len(arc) + 1
    BY <1>2, <1>4, ArcAdded
  <2>3. arc'[Len(arc) + 1] = row
    BY <1>2, <1>4, ArcAdded
  <2> QED
    BY <1>1, <2>1, <2>2, <2>3
<1>6. number \in 1..Len(arc') /\ number \in Nat
  <2>1. Len(arc) \in Nat
    BY <1>2 DEF Arcs
  <2> QED
    BY <1>1, <1>5, <2>1
<1>7. arcRun' = [run EXCEPT !.at = "hasArc", !.todo = run.todo \ {c}, !.who = c, !.arc = number, !.made = <<>>]
  BY <1>1 DEF CreateArc
<1>8. /\ arcRun' \in ArcRun /\ arcRun'.at = "hasArc" /\ arcRun'.who = c /\ arcRun'.arc = number
      /\ arcRun'.made = <<>>
  <2>1. run.todo \ {c} \in SUBSET Character /\ <<>> \in Seq(Nat) /\ "hasArc" \in ArcStage
    BY <1>2 DEF ArcRun, ArcStage
  <2> QED
    BY <1>2, <1>6, <1>7, <2>1 DEF ArcRun
<1>9. RunFitsArcs(arcRun', state', arc', changes', characters')
  BY <1>3, <1>5, <1>6, <1>8 DEF RunFitsArcs, InAnArc
<1>10. UNCHANGED <<characters, own, held, state, changes, deletingArcs>>
  BY DEF CreateArc
<1> QED
  BY <1>5, <1>8, <1>9, <1>10 DEF ArcInv

LEMMA LinkArcKeeps ==
  ASSUME ArcInv, LinkArc
  PROVE  ArcInv'
<1>1. PICK run : run = arcRun
  OBVIOUS
<1>2. run \in ArcRun /\ run.at = "hasArc" /\ Arcs(state, arc, changes)
  BY <1>1 DEF ArcInv, LinkArc
<1>3. run.arc \in 1..Len(arc) /\ arc[run.arc].who = run.who /\ run.made = <<>>
  BY <1>1, <1>2 DEF ArcInv, RunFitsArcs
<1>4. UNCHANGED <<characters, own, held, state, changes, deletingArcs>>
  BY DEF LinkArc
<1>5. CASE run.who \in characters
  <2>1. PICK row : row = [arc[run.arc] EXCEPT !.linked = TRUE]
    OBVIOUS
  <2>2. arc[run.arc] \in ArcRow
    BY <1>2, <1>3, ElementOfSeq DEF Arcs
  <2>3. row \in ArcRow /\ row.who = arc[run.arc].who /\ row.linked
    BY <2>1, <2>2 DEF ArcRow
  <2>4. arc' = [arc EXCEPT ![run.arc] = row]
    BY <1>1, <1>5, <2>1 DEF LinkArc
  <2>5. Arcs(state, arc', changes) /\ Len(arc') = Len(arc) /\ arc'[run.arc] = row
    <3>1. Arcs(state, arc', changes)
      <4>1. Arcs(state, [arc EXCEPT ![run.arc] = row], changes)
        BY ONLY <1>2, <1>3, <2>3, ArcChanged
      <4> QED
        BY <2>4, <4>1
    <3>2. Len(arc') = Len(arc)
      BY <1>2, <1>3, <2>3, <2>4, ArcChanged
    <3>3. arc'[run.arc] = row
      BY <1>2, <1>3, <2>3, <2>4, ArcChanged
    <3> QED
      BY <3>1, <3>2, <3>3
  <2>6. arcRun' = [run EXCEPT !.at = "state"]
    BY <1>1, <1>5 DEF LinkArc
  <2>7. /\ arcRun' \in ArcRun /\ arcRun'.at = "state" /\ arcRun'.who = run.who /\ arcRun'.arc = run.arc
        /\ arcRun'.made = <<>>
    BY <1>2, <1>3, <2>6 DEF ArcRun, ArcStage
  <2>8. ArcUnderway(arcRun', state', arc', changes', characters')
    <3>1. Len(arcRun'.made) = 0
      BY <2>7
    <3> QED
      BY <1>3, <2>3, <2>5, <2>7, <3>1 DEF ArcUnderway
  <2>9. RunFitsArcs(arcRun', state', arc', changes', characters')
    BY <2>7, <2>8 DEF RunFitsArcs, InAnArc
  <2> QED
    BY <1>4, <2>5, <2>7, <2>9 DEF ArcInv
<1>6. CASE run.who \notin characters
  <2>1. arcRun' = [run EXCEPT !.at = "arc"] /\ arc' = arc
    BY <1>1, <1>6 DEF LinkArc
  <2>2. arcRun' \in ArcRun /\ arcRun'.at \in Quiet
    BY <1>2, <2>1 DEF ArcRun, ArcStage, Quiet
  <2> QED
    BY <1>2, <1>4, <2>1, <2>2, QuietKeeps DEF ArcInv
<1> QED
  BY <1>5, <1>6

\* What LinkFacet and FacetsLinked leave alone.
LEMMA LinkingFacetsKeeps ==
  ASSUME ArcInv, FacetsLinked \/ \E f \in StateFacet : LinkFacet(f)
  PROVE  ArcInv'
<1>1. PICK run : run = arcRun
  OBVIOUS
<1>2. run \in ArcRun /\ run.at = "facets" /\ ArcUnderway(run, state, arc, changes, characters)
  BY <1>1 DEF ArcInv, LinkFacet, FacetsLinked, RunFitsArcs, InAnArc
<1>3. UNCHANGED <<characters, own, state, arc, changes, deletingArcs>>
  BY DEF LinkFacet, FacetsLinked
<1>4. \/ arcRun' = [run EXCEPT !.at = "state"]
      \/ \E f \in StateFacet : arcRun' = [run EXCEPT !.facets = run.facets \ {f}]
  BY <1>1 DEF LinkFacet, FacetsLinked
<1>5. /\ arcRun' \in ArcRun /\ arcRun'.at \in {"state", "facets"}
      /\ arcRun'.arc = run.arc /\ arcRun'.who = run.who /\ arcRun'.made = run.made
  BY <1>2, <1>4 DEF ArcRun, ArcStage
<1>6. ArcUnderway(arcRun', state, arc, changes, characters)
  BY <1>2, <1>5 DEF ArcUnderway
<1>7. RunFitsArcs(arcRun', state, arc, changes, characters)
  BY <1>5, <1>6 DEF RunFitsArcs, InAnArc
<1>8. held' \in [StateId -> SUBSET StateFacet]
  <2>1. CASE FacetsLinked
    BY <2>1 DEF FacetsLinked, ArcInv
  <2>2. CASE \E f \in StateFacet : LinkFacet(f)
    <3>1. PICK f \in StateFacet : LinkFacet(f)
      BY <2>2
    <3>2. held \in [StateId -> SUBSET StateFacet] /\ own \in SUBSET StateFacet
      BY DEF ArcInv
    <3> QED
      BY <3>1, <3>2 DEF LinkFacet
  <2> QED
    BY <2>1, <2>2
<1> QED
  BY <1>3, <1>5, <1>7, <1>8 DEF ArcInv

\* A new state, for an arc or by default.
NewlyMade(k, who, states, transitions) == MadeFor(k, who, states, transitions) /\ ~states[k].linked
WithState(new, run, next, k) ==
  /\ new \in ArcRun /\ new.at = next /\ new.who = run.who /\ new.arc = run.arc /\ new.facets = run.facets
  /\ k \in Nat /\ new.made = Append(run.made, k)

LEMMA NewStateAdds ==
  ASSUME NEW run \in ArcRun, run = arcRun, Arcs(state, arc, changes),
         NEW c \in Character, NEW order \in Nat, NEW next \in ArcStage, NewState(c, order, next)
  PROVE  /\ Arcs(state', arc, changes)
         /\ \A j \in 1..Len(state) : j \in 1..Len(state') /\ state'[j] = state[j]
         /\ \E k : NewlyMade(k, c, state', changes) /\ WithState(arcRun', run, next, k)
<1>1. PICK row, k : row = [who |-> c, order |-> order, linked |-> FALSE, arcs |-> {}] /\ k = Len(state) + 1
  OBVIOUS
<1>2. row \in StateRow /\ row.who = c /\ ~row.linked
  BY <1>1 DEF StateRow
<1>3. Len(state) < MaxStates /\ state' = Append(state, row)
  BY <1>1 DEF NewState
<1>4. /\ Arcs(state', arc, changes) /\ Len(state') = Len(state) + 1 /\ state'[k] = row
      /\ \A j \in 1..Len(state) : state'[j] = state[j]
  <2>1. Arcs(state', arc, changes)
    BY <1>2, <1>3, StateAdded
  <2>2. Len(state') = Len(state) + 1
    BY <1>2, <1>3, StateAdded
  <2>3. state'[Len(state) + 1] = row
    BY <1>2, <1>3, StateAdded
  <2>4. \A j \in 1..Len(state) : state'[j] = state[j]
    BY <1>2, <1>3, StateAdded
  <2> QED
    BY <1>1, <2>1, <2>2, <2>3, <2>4
<1>5. Len(state) \in Nat
  BY DEF Arcs
<1>6. k \in 1..Len(state') /\ k \in Nat /\ \A j \in 1..Len(state) : j \in 1..Len(state') /\ j # k
  BY <1>1, <1>4, <1>5
<1>7. \A t \in changes : t[1] # k
  BY <1>6 DEF Arcs
<1>8. arcRun' = [run EXCEPT !.at = next, !.made = Append(run.made, k)]
  BY <1>1 DEF NewState
<1>9. Append(run.made, k) \in Seq(Nat)
  BY <1>6 DEF ArcRun
<1>10. WithState(arcRun', run, next, k)
  BY <1>6, <1>8, <1>9 DEF WithState, ArcRun
<1>11. NewlyMade(k, c, state', changes)
  BY <1>1, <1>2, <1>4, <1>6, <1>7 DEF NewlyMade, MadeFor
<1> QED
  BY <1>4, <1>6, <1>10, <1>11

LEMMA CreateStateKeeps ==
  ASSUME ArcInv, CreateState
  PROVE  ArcInv'
<1>1. PICK run : run = arcRun
  OBVIOUS
<1>2. run \in ArcRun /\ run.at = "state" /\ Arcs(state, arc, changes)
      /\ ArcUnderway(run, state, arc, changes, characters)
  BY <1>1 DEF ArcInv, CreateState, RunFitsArcs, InAnArc
<1>3. run.who \in Character /\ run.made \in Seq(Nat) /\ Len(run.made) \in Nat
  BY <1>2 DEF ArcRun
<1>4. PICK order : /\ order = run.told[run.who][Len(run.made) + 1].order /\ order \in Nat
  <2>1. run.told \in [Character -> Seq([order : Nat, known : BOOLEAN, facets : SUBSET StateFacet])]
    BY <1>2, CharacterArcsAssumption DEF ArcRun
  <2>2. PICK phases : phases = run.told[run.who]
    OBVIOUS
  <2>3. phases \in Seq([order : Nat, known : BOOLEAN, facets : SUBSET StateFacet])
    BY <1>3, <2>1, <2>2
  <2>4. Len(run.made) < Len(phases)
    BY <1>1, <2>2 DEF CreateState
  <2>5. Len(run.made) + 1 \in 1..Len(phases)
    BY <1>3, <2>3, <2>4
  <2>6. phases[Len(run.made) + 1] \in [order : Nat, known : BOOLEAN, facets : SUBSET StateFacet]
    BY ONLY <2>3, <2>5, ElementOfSeq
  <2> QED
    BY <2>2, <2>6
<1>5. NewState(run.who, order, "inArc")
  BY <1>1, <1>4 DEF CreateState
<1>6. /\ Arcs(state', arc, changes)
      /\ \A j \in 1..Len(state) : j \in 1..Len(state') /\ state'[j] = state[j]
      /\ \E k : NewlyMade(k, run.who, state', changes) /\ WithState(arcRun', run, "inArc", k)
  <2>1. "inArc" \in ArcStage
    BY DEF ArcStage
  <2> QED
    BY <1>1, <1>2, <1>3, <1>4, <1>5, <2>1, NewStateAdds
<1>7. PICK k : NewlyMade(k, run.who, state', changes) /\ WithState(arcRun', run, "inArc", k)
  BY <1>6
<1>8. /\ arcRun' \in ArcRun /\ arcRun'.at = "inArc" /\ arcRun'.who = run.who /\ arcRun'.arc = run.arc
      /\ arcRun'.made = Append(run.made, k) /\ k \in Nat
  BY <1>7 DEF WithState
<1>9. PICK made : made = Append(run.made, k)
  OBVIOUS
<1>10. /\ Len(made) = Len(run.made) + 1 /\ made[Len(run.made) + 1] = k /\ made # <<>>
       /\ \A i \in 1..Len(run.made) : made[i] = run.made[i]
  BY <1>3, <1>8, <1>9
<1>11. UNCHANGED <<characters, own, held, arc, changes, deletingArcs>>
  BY DEF CreateState
<1>12. ASSUME NEW i \in 1..Len(made)
       PROVE  /\ MadeFor(made[i], run.who, state', changes)
              /\ state'[made[i]].linked => arc[run.arc].linked
              /\ i < Len(made) => run.arc \in state'[made[i]].arcs
  <2>1. CASE i = Len(run.made) + 1
    BY <1>3, <1>7, <1>10, <2>1 DEF MadeFor, NewlyMade
  <2>2. CASE i \in 1..Len(run.made)
    <3>1. /\ MadeFor(run.made[i], run.who, state, changes)
          /\ state[run.made[i]].linked => arc[run.arc].linked
          /\ run.arc \in state[run.made[i]].arcs
      BY <1>2, <2>2 DEF ArcUnderway
    <3>2. made[i] = run.made[i] /\ made[i] \in 1..Len(state)
      BY <1>10, <2>2, <3>1 DEF MadeFor
    <3>3. made[i] \in 1..Len(state') /\ state'[made[i]] = state[made[i]]
      BY <1>6, <3>2
    <3> QED
      BY <3>1, <3>2, <3>3 DEF MadeFor
  <2> QED
    BY <1>3, <1>10, <2>1, <2>2
<1>13. ArcUnderway(arcRun', state', arc, changes, characters)
  BY <1>2, <1>8, <1>9, <1>10, <1>12 DEF ArcUnderway
<1>14. RunFitsArcs(arcRun', state', arc, changes, characters)
  BY <1>8, <1>13 DEF RunFitsArcs, InAnArc
<1> QED
  BY <1>6, <1>8, <1>11, <1>14 DEF ArcInv

\* The state made last.
LEMMA LastMade ==
  ASSUME NEW run \in ArcRun, run.made # <<>>
  PROVE  Len(run.made) \in 1..Len(run.made) /\ Last(run.made) = run.made[Len(run.made)]
BY DEF ArcRun, Last

LEMMA LinkStateToArcKeeps ==
  ASSUME ArcInv, LinkStateToArc
  PROVE  ArcInv'
<1>1. PICK run : run = arcRun
  OBVIOUS
<1>2. run \in ArcRun /\ run.at = "inArc" /\ Arcs(state, arc, changes)
      /\ ArcUnderway(run, state, arc, changes, characters)
  BY <1>1 DEF ArcInv, LinkStateToArc, RunFitsArcs, InAnArc
<1>3. Len(run.made) \in 1..Len(run.made) /\ Last(run.made) = run.made[Len(run.made)]
  BY <1>2, LastMade DEF ArcUnderway
<1>4. PICK k : k = run.made[Len(run.made)]
  OBVIOUS
<1>5. k \in 1..Len(state) /\ run.arc \in 1..MaxArcs
  <2>1. MadeFor(k, run.who, state, changes)
    BY <1>2, <1>3, <1>4 DEF ArcUnderway
  <2>2. run.arc \in 1..Len(arc) /\ Len(arc) <= MaxArcs /\ Len(arc) \in Nat
    BY <1>2 DEF ArcUnderway, Arcs
  <2> QED
    BY <2>1, <2>2, CharacterArcsAssumption DEF MadeFor
<1>6. state[k] \in StateRow
  BY <1>2, <1>5, ElementOfSeq DEF Arcs
<1>7. PICK row : row = [state[k] EXCEPT !.arcs = state[k].arcs \cup {run.arc}]
  OBVIOUS
<1>8. /\ row \in StateRow /\ row.who = state[k].who /\ row.linked = state[k].linked
      /\ row.arcs = state[k].arcs \cup {run.arc}
  BY <1>5, <1>6, <1>7 DEF StateRow
<1>9. state' = [state EXCEPT ![k] = row]
  BY <1>1, <1>3, <1>4, <1>7 DEF LinkStateToArc
<1>10. /\ Arcs(state', arc, changes) /\ Len(state') = Len(state)
       /\ \A j \in 1..Len(state) : state'[j] = IF j = k THEN row ELSE state[j]
  <2>1. Arcs(state', arc, changes)
    BY <1>2, <1>5, <1>8, <1>9, StateChanged
  <2>2. Len(state') = Len(state)
    BY <1>2, <1>5, <1>8, <1>9, StateChanged
  <2>3. \A j \in 1..Len(state) : state'[j] = IF j = k THEN row ELSE state[j]
    BY <1>2, <1>5, <1>8, <1>9, StateChanged
  <2> QED
    BY <2>1, <2>2, <2>3
<1>11. arcRun' = [run EXCEPT !.at = "hasState"]
  BY <1>1 DEF LinkStateToArc
<1>12. /\ arcRun' \in ArcRun /\ arcRun'.at = "hasState" /\ arcRun'.who = run.who /\ arcRun'.arc = run.arc
       /\ arcRun'.made = run.made
  BY <1>2, <1>11 DEF ArcRun, ArcStage
<1>13. ASSUME NEW i \in 1..Len(run.made)
       PROVE  /\ MadeFor(run.made[i], run.who, state', changes)
              /\ state'[run.made[i]].linked => arc[run.arc].linked
              /\ run.arc \in state'[run.made[i]].arcs
  <2>1. /\ MadeFor(run.made[i], run.who, state, changes)
        /\ state[run.made[i]].linked => arc[run.arc].linked
        /\ i < Len(run.made) => run.arc \in state[run.made[i]].arcs
    BY <1>2 DEF ArcUnderway
  <2>2. PICK j : j = run.made[i]
    OBVIOUS
  <2>3. j \in 1..Len(state)
    BY <2>1, <2>2 DEF MadeFor
  <2>4. state'[j].who = state[j].who /\ state'[j].linked = state[j].linked /\ state[j].arcs \subseteq state'[j].arcs
    BY <1>8, <1>10, <2>3
  <2>5. i < Len(run.made) \/ j = k
    BY <1>3, <1>4, <2>2
  <2>6. run.arc \in state'[j].arcs
    <3>1. CASE j = k
      BY <1>8, <1>10, <2>3, <3>1
    <3>2. CASE i < Len(run.made)
      BY <2>1, <2>2, <2>4, <3>2
    <3> QED
      BY <2>5, <3>1, <3>2
  <2> QED
    BY <1>10, <2>1, <2>2, <2>3, <2>4, <2>6 DEF MadeFor
<1>14. ArcUnderway(arcRun', state', arc, changes, characters)
  BY <1>2, <1>12, <1>13 DEF ArcUnderway
<1>15. RunFitsArcs(arcRun', state', arc, changes, characters)
  BY <1>12, <1>14 DEF RunFitsArcs, InAnArc
<1>16. UNCHANGED <<characters, own, held, arc, changes, deletingArcs>>
  BY DEF LinkStateToArc
<1> QED
  BY <1>10, <1>12, <1>15, <1>16 DEF ArcInv

LEMMA LinkCharacterToStateKeeps ==
  ASSUME ArcInv, LinkCharacterToState
  PROVE  ArcInv'
<1>1. PICK run : run = arcRun
  OBVIOUS
<1>2. run \in ArcRun /\ run.at = "hasState" /\ Arcs(state, arc, changes)
      /\ ArcUnderway(run, state, arc, changes, characters)
  BY <1>1 DEF ArcInv, LinkCharacterToState, RunFitsArcs, InAnArc
<1>3. UNCHANGED <<characters, own, held, arc, changes, deletingArcs>>
  BY DEF LinkCharacterToState
<1>4. CASE run.who \notin characters
  <2>1. arcRun' = [run EXCEPT !.at = "arc"] /\ state' = state
    BY <1>1, <1>4 DEF LinkCharacterToState
  <2>2. arcRun' \in ArcRun /\ arcRun'.at \in Quiet
    BY <1>2, <2>1 DEF ArcRun, ArcStage, Quiet
  <2> QED
    BY <1>2, <1>3, <2>1, <2>2, QuietKeeps DEF ArcInv
<1>5. CASE run.who \in characters
  <2>1. Len(run.made) \in 1..Len(run.made) /\ Last(run.made) = run.made[Len(run.made)]
    BY <1>2, LastMade DEF ArcUnderway
  <2>2. PICK k : k = run.made[Len(run.made)]
    OBVIOUS
  <2>3. k \in 1..Len(state) /\ \A t \in changes : t[1] # k
    BY <1>2, <2>1, <2>2 DEF ArcUnderway, MadeFor
  <2>4. state[k] \in StateRow
    BY <1>2, <2>3, ElementOfSeq DEF Arcs
  <2>5. PICK row : row = [state[k] EXCEPT !.linked = TRUE]
    OBVIOUS
  <2>6. row \in StateRow /\ row.who = state[k].who /\ row.arcs = state[k].arcs
    BY <2>4, <2>5 DEF StateRow
  <2>7. state' = [state EXCEPT ![k] = row]
    BY <1>1, <1>5, <2>1, <2>2, <2>5 DEF LinkCharacterToState
  <2>8. /\ Arcs(state', arc, changes) /\ Len(state') = Len(state)
        /\ \A j \in 1..Len(state) : state'[j] = IF j = k THEN row ELSE state[j]
    <3>1. Arcs(state', arc, changes)
      BY <1>2, <2>3, <2>6, <2>7, StateChanged
    <3>2. Len(state') = Len(state)
      BY <1>2, <2>3, <2>6, <2>7, StateChanged
    <3>3. \A j \in 1..Len(state) : state'[j] = IF j = k THEN row ELSE state[j]
      BY <1>2, <2>3, <2>6, <2>7, StateChanged
    <3> QED
      BY <3>1, <3>2, <3>3
  <2>9. PICK facets \in SUBSET StateFacet : arcRun' = [run EXCEPT !.at = "facets", !.facets = facets]
    <3>1. PICK facets : facets = PhaseOfRun.facets \cap FacetsOfCharacter(arcRun.who)
      OBVIOUS
    <3>2. facets \in SUBSET StateFacet
      BY <3>1 DEF FacetsOfCharacter, ArcInv
    <3>3. arcRun' = [run EXCEPT !.at = "facets", !.facets = facets]
      BY <1>1, <1>5, <3>1 DEF LinkCharacterToState
    <3> QED
      BY <3>2, <3>3
  <2>10. /\ arcRun' \in ArcRun /\ arcRun'.at = "facets" /\ arcRun'.who = run.who /\ arcRun'.arc = run.arc
         /\ arcRun'.made = run.made
    BY <1>2, <2>9 DEF ArcRun, ArcStage
  <2>11. arc[run.arc].linked
    BY <1>2, <1>5 DEF ArcUnderway
  <2>12. ASSUME NEW i \in 1..Len(run.made)
         PROVE  /\ MadeFor(run.made[i], run.who, state', changes)
                /\ run.arc \in state'[run.made[i]].arcs
    <3>1. MadeFor(run.made[i], run.who, state, changes) /\ run.arc \in state[run.made[i]].arcs
      BY <1>2 DEF ArcUnderway
    <3>2. PICK j : j = run.made[i]
      OBVIOUS
    <3>3. j \in 1..Len(state)
      BY <3>1, <3>2 DEF MadeFor
    <3>4. state'[j].who = state[j].who /\ state'[j].arcs = state[j].arcs
      BY <2>6, <2>8, <3>3
    <3> QED
      BY <2>8, <3>1, <3>2, <3>3, <3>4 DEF MadeFor
  <2>13. ArcUnderway(arcRun', state', arc, changes, characters)
    BY <1>2, <2>10, <2>11, <2>12 DEF ArcUnderway
  <2>14. RunFitsArcs(arcRun', state', arc, changes, characters)
    BY <2>10, <2>13 DEF RunFitsArcs, InAnArc
  <2> QED
    BY <1>3, <2>8, <2>10, <2>14 DEF ArcInv
<1> QED
  BY <1>4, <1>5

LEMMA EndArcKeeps ==
  ASSUME ArcInv, EndArc
  PROVE  ArcInv'
<1>1. PICK run : run = arcRun
  OBVIOUS
<1>2. run \in ArcRun /\ run.at = "state" /\ Arcs(state, arc, changes)
      /\ ArcUnderway(run, state, arc, changes, characters)
  BY <1>1 DEF ArcInv, EndArc, RunFitsArcs, InAnArc
<1>3. UNCHANGED <<characters, own, held, state, arc, deletingArcs>>
  BY DEF EndArc
<1>4. changes' = changes \cup {<<run.made[i], run.made[i + 1]>> : i \in 1..(Len(run.made) - 1)}
  BY <1>1 DEF EndArc
<1>5. ASSUME NEW i \in 1..(Len(run.made) - 1), NEW t, t = <<run.made[i], run.made[i + 1]>>
      PROVE  /\ t \in (1..Len(state)) \X (1..Len(state))
             /\ state[t[1]].linked =>
                  \E a \in 1..Len(arc) : /\ arc[a].linked /\ arc[a].who = state[t[1]].who
                                         /\ a \in state[t[1]].arcs /\ a \in state[t[2]].arcs
  <2>1. i \in 1..Len(run.made) /\ i + 1 \in 1..Len(run.made)
    BY <1>2 DEF ArcRun
  <2>2. \A j \in 1..Len(run.made) : /\ MadeFor(run.made[j], run.who, state, changes)
                                    /\ state[run.made[j]].linked => arc[run.arc].linked
                                    /\ run.arc \in state[run.made[j]].arcs
    BY <1>2 DEF ArcUnderway
  <2>3. PICK from, to : from = run.made[i] /\ to = run.made[i + 1]
    OBVIOUS
  <2>4. /\ from \in 1..Len(state) /\ to \in 1..Len(state) /\ state[from].who = run.who
        /\ state[from].linked => arc[run.arc].linked
        /\ run.arc \in state[from].arcs /\ run.arc \in state[to].arcs
    BY <2>1, <2>2, <2>3 DEF MadeFor
  <2>5. t = <<from, to>> /\ t[1] = from /\ t[2] = to
    BY <1>5, <2>3
  <2>6. run.arc \in 1..Len(arc) /\ arc[run.arc].who = run.who
    BY <1>2 DEF ArcUnderway
  <2> QED
    BY <2>4, <2>5, <2>6
<1>6. Arcs(state, arc, changes')
  BY <1>2, <1>4, <1>5 DEF Arcs
<1>7. arcRun' = [run EXCEPT !.at = "arc"]
  BY <1>1 DEF EndArc
<1>8. arcRun' \in ArcRun /\ arcRun'.at \in Quiet
  BY <1>2, <1>7 DEF ArcRun, ArcStage, Quiet
<1> QED
  BY <1>3, <1>6, <1>8, QuietKeeps DEF ArcInv

LEMMA AttachCharacterKeeps ==
  ASSUME ArcInv, NEW c \in Character, AttachCharacter(c)
  PROVE  ArcInv'
<1>1. PICK run : run = arcRun
  OBVIOUS
<1>2. run \in ArcRun /\ Arcs(state, arc, changes)
  BY <1>1 DEF ArcInv
<1>3. UNCHANGED <<characters, own, held, state, arc, changes, deletingArcs>>
  BY DEF AttachCharacter
<1>4. CASE FacetsOfCharacter(c) = {}
  <2>1. arcRun' = [run EXCEPT !.todo = run.todo \ {c}]
    BY <1>1, <1>4 DEF AttachCharacter
  <2>2. run.at = "attach"
    BY <1>1 DEF AttachCharacter
  <2>3. arcRun' \in ArcRun /\ arcRun'.at \in Quiet
    BY <1>2, <2>1, <2>2 DEF ArcRun, Quiet
  <2> QED
    BY <1>2, <1>3, <2>3, QuietKeeps DEF ArcInv
<1>5. CASE FacetsOfCharacter(c) # {}
  <2>1. PICK states, facets, at :
          states = StatesOf(c) /\ facets = FacetsOfCharacter(c) /\ at = IF StatesOf(c) = {} THEN "default" ELSE "move"
    OBVIOUS
  <2>2. arcRun' = [run EXCEPT !.at = at, !.todo = run.todo \ {c}, !.who = c, !.made = <<>>,
                              !.facets = facets, !.states = states]
    BY <1>1, <1>5, <2>1 DEF AttachCharacter
  <2>3. facets \in SUBSET StateFacet /\ \A f \in facets : CharacterOf[f] = c
    BY <2>1 DEF FacetsOfCharacter, ArcInv
  <2>4. states \subseteq 1..Len(state) /\ \A s \in states : state[s].linked /\ state[s].who = c
    BY <2>1 DEF StatesOf
  <2>5. states \in SUBSET Nat
    BY <2>4
  <2>6. /\ arcRun' \in ArcRun /\ arcRun'.at = at /\ arcRun'.who = c /\ arcRun'.made = <<>>
        /\ arcRun'.facets = facets /\ arcRun'.states = states
    <3>1. at \in ArcStage /\ <<>> \in Seq(Nat)
      BY <2>1 DEF ArcStage
    <3> QED
      BY <1>2, <2>2, <2>3, <2>5, <3>1 DEF ArcRun
  <2>7. at = "default" \/ (at = "move" /\ states # {})
    BY <2>1
  <2>8. RunFitsArcs(arcRun', state, arc, changes, characters)
    BY <2>3, <2>4, <2>6, <2>7 DEF RunFitsArcs, InAnArc
  <2> QED
    BY <1>2, <1>3, <2>6, <2>8 DEF ArcInv
<1> QED
  BY <1>4, <1>5

LEMMA CreateDefaultStateKeeps ==
  ASSUME ArcInv, CreateDefaultState
  PROVE  ArcInv'
<1>1. PICK run : run = arcRun
  OBVIOUS
<1>2. run \in ArcRun /\ run.at = "default" /\ Arcs(state, arc, changes) /\ run.who \in Character
      /\ run.made = <<>> /\ \A f \in run.facets : CharacterOf[f] = run.who
  BY <1>1 DEF ArcInv, CreateDefaultState, RunFitsArcs, ArcRun
<1>3. NewState(run.who, 0, "hasDefault")
  BY <1>1 DEF CreateDefaultState
<1>4. /\ Arcs(state', arc, changes)
      /\ \E k : NewlyMade(k, run.who, state', changes) /\ WithState(arcRun', run, "hasDefault", k)
  <2>1. "hasDefault" \in ArcStage /\ 0 \in Nat
    BY DEF ArcStage
  <2> QED
    BY <1>1, <1>2, <1>3, <2>1, NewStateAdds
<1>5. PICK k : NewlyMade(k, run.who, state', changes) /\ WithState(arcRun', run, "hasDefault", k)
  BY <1>4
<1>6. /\ arcRun' \in ArcRun /\ arcRun'.at = "hasDefault" /\ arcRun'.who = run.who
      /\ arcRun'.facets = run.facets /\ arcRun'.made = Append(run.made, k)
  BY <1>5 DEF WithState
<1>7. Append(run.made, k) = <<k>> /\ <<k>> # <<>> /\ Last(<<k>>) = k
  BY <1>2 DEF Last
<1>8. MadeFor(k, run.who, state', changes)
  BY <1>5 DEF NewlyMade
<1>9. RunFitsArcs(arcRun', state', arc, changes, characters)
  BY <1>2, <1>6, <1>7, <1>8 DEF RunFitsArcs, InAnArc
<1>10. UNCHANGED <<characters, own, held, arc, changes, deletingArcs>>
  BY DEF CreateDefaultState
<1> QED
  BY <1>4, <1>6, <1>9, <1>10 DEF ArcInv

LEMMA LinkDefaultStateKeeps ==
  ASSUME ArcInv, LinkDefaultState
  PROVE  ArcInv'
<1>1. PICK run : run = arcRun
  OBVIOUS
<1>2. run \in ArcRun /\ run.at = "hasDefault" /\ Arcs(state, arc, changes) /\ run.made # <<>>
      /\ MadeFor(Last(run.made), run.who, state, changes) /\ \A f \in run.facets : CharacterOf[f] = run.who
  BY <1>1 DEF ArcInv, LinkDefaultState, RunFitsArcs
<1>3. UNCHANGED <<characters, own, held, arc, changes, deletingArcs>>
  BY DEF LinkDefaultState
<1>4. CASE run.who \notin characters
  <2>1. arcRun' = Stopped(8) /\ state' = state
    BY <1>1, <1>4 DEF LinkDefaultState
  <2>2. arcRun' \in ArcRun /\ arcRun'.at \in Quiet
    BY <2>1, StoppedIs DEF Quiet
  <2> QED
    BY <1>2, <1>3, <2>1, <2>2, QuietKeeps DEF ArcInv
<1>5. CASE run.who \in characters
  <2>1. PICK k : k = Last(run.made)
    OBVIOUS
  <2>2. k \in 1..Len(state) /\ state[k].who = run.who /\ \A t \in changes : t[1] # k
    BY <1>2, <2>1 DEF MadeFor
  <2>3. state[k] \in StateRow
    BY <1>2, <2>2, ElementOfSeq DEF Arcs
  <2>4. PICK row : row = [state[k] EXCEPT !.linked = TRUE]
    OBVIOUS
  <2>5. row \in StateRow /\ row.who = state[k].who /\ row.arcs = state[k].arcs /\ row.linked
    BY <2>3, <2>4 DEF StateRow
  <2>6. state' = [state EXCEPT ![k] = row]
    BY <1>1, <1>5, <2>1, <2>4 DEF LinkDefaultState
  <2>7. /\ Arcs(state', arc, changes) /\ Len(state') = Len(state)
        /\ \A j \in 1..Len(state) : state'[j] = IF j = k THEN row ELSE state[j]
    <3>1. Arcs(state', arc, changes)
      BY <1>2, <2>2, <2>5, <2>6, StateChanged
    <3>2. Len(state') = Len(state)
      BY <1>2, <2>2, <2>5, <2>6, StateChanged
    <3>3. \A j \in 1..Len(state) : state'[j] = IF j = k THEN row ELSE state[j]
      BY <1>2, <2>2, <2>5, <2>6, StateChanged
    <3> QED
      BY <3>1, <3>2, <3>3
  <2>8. arcRun' = [run EXCEPT !.at = "move", !.states = {k}]
    BY <1>1, <1>5, <2>1 DEF LinkDefaultState
  <2>9. /\ arcRun' \in ArcRun /\ arcRun'.at = "move" /\ arcRun'.who = run.who
        /\ arcRun'.facets = run.facets /\ arcRun'.states = {k}
    <3>1. {k} \in SUBSET Nat
      BY <2>2
    <3> QED
      BY <1>2, <2>8, <3>1 DEF ArcRun, ArcStage
  <2>10. {k} # {} /\ {k} \subseteq 1..Len(state') /\ \A s \in {k} : state'[s].linked /\ state'[s].who = run.who
    BY <2>2, <2>5, <2>7
  <2>11. RunFitsArcs(arcRun', state', arc, changes, characters)
    BY <1>2, <2>9, <2>10 DEF RunFitsArcs, InAnArc
  <2> QED
    BY <1>3, <2>7, <2>9, <2>11 DEF ArcInv
<1> QED
  BY <1>4, <1>5

\* The first and the last of some states are there.
LEMMA LastIsLast ==
  ASSUME Arcs(state, arc, changes), NEW S \in SUBSET (1..Len(state)), S # {}
  PROVE  LastSorted(S) \in S /\ \A s \in S : SortsBefore(s, LastSorted(S))
<1>1. Len(state) \in Nat /\ \A s \in 1..Len(state) : state[s].order \in Nat
  <2>1. state \in Seq(StateRow)
    BY DEF Arcs
  <2>2. \A s \in 1..Len(state) : state[s] \in StateRow
    BY <2>1, ElementOfSeq
  <2> QED
    BY <2>1, <2>2 DEF StateRow
<1> DEFINE P == {n \in Nat : n <= Len(state) =>
                   \/ S \cap (1..n) = {}
                   \/ \E s \in S \cap (1..n) : \A t \in S \cap (1..n) : SortsBefore(t, s)}
<1>2. 0 \in P
  OBVIOUS
<1>3. ASSUME NEW n \in Nat, n \in P PROVE n + 1 \in P
  <2>1. SUFFICES ASSUME n + 1 <= Len(state)
                 PROVE  \/ S \cap (1..(n + 1)) = {}
                        \/ \E s \in S \cap (1..(n + 1)) : \A t \in S \cap (1..(n + 1)) : SortsBefore(t, s)
    OBVIOUS
  <2>2. CASE n + 1 \notin S
    <3>1. S \cap (1..(n + 1)) = S \cap (1..n)
      BY <2>2
    <3>2. n <= Len(state)
      BY <1>1, <2>1
    <3> QED
      BY <1>3, <3>1, <3>2
  <2>3. CASE n + 1 \in S /\ S \cap (1..n) = {}
    <3>1. S \cap (1..(n + 1)) = {n + 1}
      BY <2>3
    <3>2. SortsBefore(n + 1, n + 1)
      BY <1>1, <2>3 DEF SortsBefore
    <3> QED
      BY <3>1, <3>2
  <2>4. CASE n + 1 \in S /\ S \cap (1..n) # {}
    <3>0. n <= Len(state)
      BY <1>1, <2>1
    <3>1. PICK s \in S \cap (1..n) : \A t \in S \cap (1..n) : SortsBefore(t, s)
      BY <1>3, <2>4, <3>0
    <3>2. \A t \in S \cap (1..(n + 1)) : t \in S \cap (1..n) \/ t = n + 1
      OBVIOUS
    <3>3. CASE SortsBefore(s, n + 1)
      <4>1. \A t \in S \cap (1..n) : SortsBefore(t, n + 1)
        BY <1>1, <2>4, <3>1, <3>3 DEF SortsBefore
      <4>2. SortsBefore(n + 1, n + 1) /\ n + 1 \in S \cap (1..(n + 1))
        BY <1>1, <2>4 DEF SortsBefore
      <4> QED
        BY <3>2, <4>1, <4>2
    <3>4. CASE ~SortsBefore(s, n + 1)
      <4>1. SortsBefore(n + 1, s)
        BY <1>1, <2>4, <3>4 DEF SortsBefore
      <4>2. s \in S \cap (1..(n + 1))
        OBVIOUS
      <4> QED
        BY <3>1, <3>2, <4>1, <4>2
    <3> QED
      BY <3>3, <3>4
  <2> QED
    BY <2>2, <2>3, <2>4
<1>4. Len(state) \in P
  <2> HIDE DEF P
  <2>1. \A n \in Nat : n \in P
    BY <1>2, <1>3, SetInduction
  <2> QED
    BY <1>1, <2>1
<1>5. \E s \in S : \A t \in S : SortsBefore(t, s)
  <2>1. S \cap (1..Len(state)) = S
    OBVIOUS
  <2> QED
    BY <1>1, <1>4, <2>1
<1> QED
  BY <1>5 DEF LastSorted

LEMMA FirstIsFirst ==
  ASSUME Arcs(state, arc, changes), NEW S \in SUBSET (1..Len(state)), S # {}
  PROVE  FirstSorted(S) \in S /\ \A s \in S : SortsBefore(FirstSorted(S), s)
<1>1. Len(state) \in Nat /\ \A s \in 1..Len(state) : state[s].order \in Nat
  <2>1. state \in Seq(StateRow)
    BY DEF Arcs
  <2>2. \A s \in 1..Len(state) : state[s] \in StateRow
    BY <2>1, ElementOfSeq
  <2> QED
    BY <2>1, <2>2 DEF StateRow
<1> DEFINE P == {n \in Nat : n <= Len(state) =>
                   \/ S \cap (1..n) = {}
                   \/ \E s \in S \cap (1..n) : \A t \in S \cap (1..n) : SortsBefore(s, t)}
<1>2. 0 \in P
  OBVIOUS
<1>3. ASSUME NEW n \in Nat, n \in P PROVE n + 1 \in P
  <2>1. SUFFICES ASSUME n + 1 <= Len(state)
                 PROVE  \/ S \cap (1..(n + 1)) = {}
                        \/ \E s \in S \cap (1..(n + 1)) : \A t \in S \cap (1..(n + 1)) : SortsBefore(s, t)
    OBVIOUS
  <2>2. CASE n + 1 \notin S
    <3>1. S \cap (1..(n + 1)) = S \cap (1..n)
      BY <2>2
    <3>2. n <= Len(state)
      BY <1>1, <2>1
    <3> QED
      BY <1>3, <3>1, <3>2
  <2>3. CASE n + 1 \in S /\ S \cap (1..n) = {}
    <3>1. S \cap (1..(n + 1)) = {n + 1}
      BY <2>3
    <3>2. SortsBefore(n + 1, n + 1)
      BY <1>1, <2>3 DEF SortsBefore
    <3> QED
      BY <3>1, <3>2
  <2>4. CASE n + 1 \in S /\ S \cap (1..n) # {}
    <3>1. PICK s \in S \cap (1..n) : \A t \in S \cap (1..n) : SortsBefore(s, t)
      BY <1>1, <1>3, <2>1, <2>4
    <3>2. \A t \in S \cap (1..(n + 1)) : t \in S \cap (1..n) \/ t = n + 1
      OBVIOUS
    <3>3. CASE SortsBefore(n + 1, s)
      <4>1. \A t \in S \cap (1..n) : SortsBefore(n + 1, t)
        BY <1>1, <2>4, <3>1, <3>3 DEF SortsBefore
      <4>2. SortsBefore(n + 1, n + 1) /\ n + 1 \in S \cap (1..(n + 1))
        BY <1>1, <2>4 DEF SortsBefore
      <4> QED
        BY <3>2, <4>1, <4>2
    <3>4. CASE ~SortsBefore(n + 1, s)
      <4>1. SortsBefore(s, n + 1)
        BY <1>1, <2>4, <3>4 DEF SortsBefore
      <4>2. s \in S \cap (1..(n + 1))
        OBVIOUS
      <4> QED
        BY <3>1, <3>2, <4>1, <4>2
    <3> QED
      BY <3>3, <3>4
  <2> QED
    BY <2>2, <2>3, <2>4
<1>4. Len(state) \in P
  <2> HIDE DEF P
  <2>1. \A n \in Nat : n \in P
    BY <1>2, <1>3, SetInduction
  <2> QED
    BY <1>1, <2>1
<1>5. \E s \in S : \A t \in S : SortsBefore(s, t)
  <2>1. S \cap (1..Len(state)) = S
    OBVIOUS
  <2> QED
    BY <1>1, <1>4, <2>1
<1> QED
  BY <1>5 DEF FirstSorted

\* A facet goes to a state of the run, and to the one of its place in the text.
TargetOf(f, s) ==
  IF Positions(f) = {}
  THEN \A other \in arcRun.states : state[other].order <= state[s].order
  ELSE \E p \in Positions(f) :
         LET there == StateAtPosition(arcRun.states, p)
         IN IF there # {} THEN s \in there
            ELSE \A other \in arcRun.states : state[s].order <= state[other].order

LEMMA TargetsAreRight ==
  ASSUME ArcInv, arcRun.at = "move", NEW f \in StateFacet, NEW s \in Targets(f)
  PROVE  s \in arcRun.states /\ TargetOf(f, s)
<1>1. PICK states : states = arcRun.states
  OBVIOUS
<1>2. Arcs(state, arc, changes) /\ states # {} /\ states \in SUBSET (1..Len(state))
  BY <1>1 DEF ArcInv, RunFitsArcs
<1>3. \A k \in states : state[k].order \in Nat
  <2>1. state \in Seq(StateRow)
    BY <1>2 DEF Arcs
  <2>2. \A k \in 1..Len(state) : state[k] \in StateRow
    BY <2>1, ElementOfSeq
  <2> QED
    BY <1>2, <2>2 DEF StateRow
<1>4. CASE Cardinality(states) = 1
  <2>1. IsFiniteSet(states)
    <3>1. Len(state) \in Nat
      BY <1>2 DEF Arcs
    <3>2. IsFiniteSet(1..Len(state))
      BY <3>1, FS_Interval
    <3> QED
      BY <1>2, <3>2, FS_Subset
  <2>2. PICK k : states = {k}
    BY <1>4, <2>1, FS_Singleton
  <2>3. s = k
    BY <1>1, <1>4, <2>2 DEF Targets
  <2>4. CASE Positions(f) = {}
    BY <1>1, <1>3, <2>2, <2>3, <2>4 DEF TargetOf
  <2>5. CASE Positions(f) # {}
    <3>1. PICK p \in Positions(f) : TRUE
      BY <2>5
    <3>2. PICK there : there = StateAtPosition(arcRun.states, p)
      OBVIOUS
    <3>3. there \subseteq {k}
      BY <1>1, <2>2, <3>2 DEF StateAtPosition
    <3>4. IF there # {} THEN s \in there ELSE \A other \in arcRun.states : state[s].order <= state[other].order
      BY <1>1, <1>3, <2>2, <2>3, <3>3
    <3> QED
      <4>1. TargetOf(f, s)
        BY ONLY <2>5, <3>1, <3>2, <3>4 DEF TargetOf
      <4> QED
        BY <1>1, <2>2, <2>3, <4>1
  <2> QED
    BY <1>1, <2>2, <2>3, <2>4, <2>5
<1>5. CASE Cardinality(states) # 1 /\ Positions(f) = {}
  <2>1. s = LastSorted(states)
    BY <1>1, <1>5 DEF Targets
  <2>2. s \in states /\ \A other \in states : SortsBefore(other, s)
    BY <1>2, <2>1, LastIsLast
  <2>3. \A other \in states : state[other].order <= state[s].order
    BY <1>3, <2>2 DEF SortsBefore
  <2> QED
    BY <1>1, <1>5, <2>2, <2>3 DEF TargetOf
<1>6. CASE Cardinality(states) # 1 /\ Positions(f) # {}
  <2>1. PICK p \in Positions(f) : s = FindStateForPosition(p)
    BY <1>1, <1>6 DEF Targets
  <2>2. PICK begun : begun = {k \in states : state[k].order <= p}
    OBVIOUS
  <2>3. PICK there : there = StateAtPosition(arcRun.states, p)
    OBVIOUS
  <2>4. CASE begun = {}
    <3>1. s = FirstSorted(states)
      BY <1>1, <2>1, <2>2, <2>4 DEF FindStateForPosition
    <3>2. s \in states /\ \A other \in states : SortsBefore(s, other)
      BY <1>2, <3>1, FirstIsFirst
    <3>3. \A other \in states : state[s].order <= state[other].order
      BY <1>3, <3>2 DEF SortsBefore
    <3>4. there = {}
      BY <1>1, <2>2, <2>3, <2>4 DEF StateAtPosition
    <3> QED
      BY <1>1, <1>6, <2>3, <3>2, <3>3, <3>4 DEF TargetOf
  <2>5. CASE begun # {}
    <3>1. s = LastSorted(begun) /\ begun \in SUBSET (1..Len(state))
      BY <1>1, <1>2, <2>1, <2>2, <2>5 DEF FindStateForPosition
    <3>2. s \in begun /\ \A other \in begun : SortsBefore(other, s)
      BY <1>2, <2>5, <3>1, LastIsLast
    <3>3. s \in states /\ \A other \in begun : state[other].order <= state[s].order
      BY <1>3, <2>2, <3>2 DEF SortsBefore
    <3>4. s \in there
      BY <1>1, <2>2, <2>3, <3>2, <3>3 DEF StateAtPosition
    <3>5. IF there # {} THEN s \in there ELSE \A other \in arcRun.states : state[s].order <= state[other].order
      BY <3>4
    <3> QED
      BY <1>1, <1>6, <2>3, <3>3, <3>5 DEF TargetOf
  <2> QED
    BY <2>4, <2>5
<1> QED
  BY <1>4, <1>5, <1>6

LEMMA MoveFacetKeeps ==
  ASSUME ArcInv, NEW f \in StateFacet, MoveFacet(f)
  PROVE  ArcInv'
<1>1. PICK run : run = arcRun
  OBVIOUS
<1>2. /\ run \in ArcRun /\ run.at = "move" /\ Arcs(state, arc, changes)
      /\ \A g \in run.facets : CharacterOf[g] = run.who
      /\ run.states # {} /\ run.states \subseteq 1..Len(state)
      /\ run.who \in characters => \A s \in run.states : state[s].linked /\ state[s].who = run.who
  BY <1>1 DEF ArcInv, MoveFacet, RunFitsArcs
<1>3. UNCHANGED <<characters, state, arc, changes, deletingArcs>>
  BY DEF MoveFacet
<1>4. arcRun' = [run EXCEPT !.facets = run.facets \ {f}]
  BY <1>1 DEF MoveFacet
<1>5. /\ arcRun' \in ArcRun /\ arcRun'.at = "move" /\ arcRun'.who = run.who
      /\ arcRun'.facets = run.facets \ {f} /\ arcRun'.states = run.states
  BY <1>2, <1>4 DEF ArcRun
<1>6. RunFitsArcs(arcRun', state, arc, changes, characters)
  BY <1>2, <1>5 DEF RunFitsArcs, InAnArc
<1>7. own' \in SUBSET StateFacet /\ held' \in [StateId -> SUBSET StateFacet]
  <2>1. own \in SUBSET StateFacet /\ held \in [StateId -> SUBSET StateFacet]
    BY DEF ArcInv
  <2>2. CASE f \in own
    <3>1. PICK s \in Targets(f) : own' = own \ {f} /\ held' = [held EXCEPT ![s] = @ \cup {f}]
      BY <2>2 DEF MoveFacet
    <3> QED
      BY <2>1, <3>1
  <2>3. CASE f \notin own
    BY <2>1, <2>3 DEF MoveFacet
  <2> QED
    BY <2>2, <2>3
<1> QED
  BY <1>2, <1>3, <1>5, <1>6, <1>7 DEF ArcInv

LEMMA DeletingKeeps ==
  ASSUME ArcInv, DeleteFacets \/ DeleteNodes
  PROVE  ArcInv'
<1>1. CASE DeleteFacets
  <2>1. UNCHANGED <<characters, state, arc, changes, arcRun>> /\ deletingArcs' = TRUE /\ own' = {}
    BY <1>1 DEF DeleteFacets
  <2>2. held' \in [StateId -> SUBSET StateFacet]
    BY <1>1 DEF DeleteFacets, ArcInv
  <2> QED
    BY <2>1, <2>2 DEF ArcInv
<1>2. CASE DeleteNodes
  <2>1. /\ UNCHANGED <<held, changes, arcRun>> /\ deletingArcs' = FALSE /\ own' = {} /\ characters' = {}
    BY <1>2 DEF DeleteNodes
  <2>2. PICK run, sts, as : run = arcRun /\ sts = state' /\ as = arc'
    OBVIOUS
  <2>3. Arcs(state, arc, changes) /\ run \in ArcRun /\ RunFitsArcs(run, state, arc, changes, characters)
    BY <2>2 DEF ArcInv
  <2>4. sts = [s \in 1..Len(state) |-> [state[s] EXCEPT !.linked = FALSE]]
    BY <1>2, <2>2 DEF DeleteNodes
  <2>5. as = [a \in 1..Len(arc) |-> [arc[a] EXCEPT !.linked = FALSE]]
    BY <1>2, <2>2 DEF DeleteNodes
  <2>6. /\ sts \in Seq(StateRow) /\ Len(sts) = Len(state)
        /\ \A s \in 1..Len(state) : sts[s].who = state[s].who /\ ~sts[s].linked /\ sts[s].arcs = state[s].arcs
    <3>1. state \in Seq(StateRow)
      BY <2>3 DEF Arcs
    <3>2. \A s \in 1..Len(state) : state[s] \in StateRow
      BY <3>1, ElementOfSeq
    <3>3. \A s \in 1..Len(state) : /\ sts[s] \in StateRow /\ sts[s].who = state[s].who
                                  /\ ~sts[s].linked /\ sts[s].arcs = state[s].arcs
      BY <2>4, <3>2 DEF StateRow
    <3>4. sts \in [1..Len(state) -> StateRow]
      BY <2>4, <3>3
    <3> QED
      BY <3>1, <3>3, <3>4, RowsChanged
  <2>7. /\ as \in Seq(ArcRow) /\ Len(as) = Len(arc)
        /\ \A a \in 1..Len(arc) : as[a].who = arc[a].who
    <3>1. arc \in Seq(ArcRow)
      BY <2>3 DEF Arcs
    <3>2. \A a \in 1..Len(arc) : arc[a] \in ArcRow
      BY <3>1, ElementOfSeq
    <3>3. \A a \in 1..Len(arc) : as[a] \in ArcRow /\ as[a].who = arc[a].who
      BY <2>5, <3>2 DEF ArcRow
    <3>4. as \in [1..Len(arc) -> ArcRow]
      BY <2>5, <3>3
    <3> QED
      BY <3>1, <3>3, <3>4, RowsChanged
  <2>8. Arcs(sts, as, changes)
    BY <2>3, <2>6, <2>7 DEF Arcs
  <2>9. \A s : MadeFor(s, run.who, state, changes) => MadeFor(s, run.who, sts, changes)
    BY <2>6 DEF MadeFor
  <2>10. ArcUnderway(run, state, arc, changes, characters) => ArcUnderway(run, sts, as, changes, {})
    <3>1. SUFFICES ASSUME ArcUnderway(run, state, arc, changes, characters)
                   PROVE  ArcUnderway(run, sts, as, changes, {})
      OBVIOUS
    <3>2. run.arc \in 1..Len(as) /\ as[run.arc].who = run.who
      BY <2>7, <3>1 DEF ArcUnderway
    <3>3. ASSUME NEW i \in 1..Len(run.made)
          PROVE  /\ MadeFor(run.made[i], run.who, sts, changes)
                 /\ sts[run.made[i]].linked => as[run.arc].linked
                 /\ i < Len(run.made) \/ run.at # "inArc" => run.arc \in sts[run.made[i]].arcs
      <4>1. /\ MadeFor(run.made[i], run.who, state, changes)
            /\ i < Len(run.made) \/ run.at # "inArc" => run.arc \in state[run.made[i]].arcs
        BY <3>1 DEF ArcUnderway
      <4>2. run.made[i] \in 1..Len(state)
        BY <4>1 DEF MadeFor
      <4> QED
        BY <2>6, <2>9, <4>1, <4>2
    <3>4. run.at # "state" => run.made # <<>>
      BY <3>1 DEF ArcUnderway
    <3> QED
      BY <3>2, <3>3, <3>4 DEF ArcUnderway
  <2>11. RunFitsArcs(run, sts, as, changes, {})
    BY <2>3, <2>6, <2>7, <2>9, <2>10 DEF RunFitsArcs
  <2> QED
    BY <2>1, <2>2, <2>3, <2>8, <2>11 DEF ArcInv
<1> QED
  BY <1>1, <1>2

LEMMA ArcNextKeeps == ArcInv /\ [ArcNext]_arcVars => ArcInv'
<1> SUFFICES ASSUME ArcInv, [ArcNext]_arcVars PROVE ArcInv'
  OBVIOUS
<1>1. CASE UNCHANGED arcVars
  BY <1>1 DEF arcVars, ArcInv
<1>2. CASE StartAnalysis \/ Resume \/ StopRun \/ AskForArcs \/ EndStage7 \/ FacetsMoved \/ EndStage8
  BY <1>2, StoppingKeeps
<1>3. CASE LinkArc
  BY <1>3, LinkArcKeeps
<1>4. CASE CreateState
  BY <1>4, CreateStateKeeps
<1>5. CASE LinkStateToArc
  BY <1>5, LinkStateToArcKeeps
<1>6. CASE LinkCharacterToState
  BY <1>6, LinkCharacterToStateKeeps
<1>7. CASE FacetsLinked \/ \E f \in StateFacet : LinkFacet(f)
  BY <1>7, LinkingFacetsKeeps
<1>8. CASE EndArc
  BY <1>8, EndArcKeeps
<1>9. CASE \E c \in Character : CreateArc(c)
  BY <1>9, CreateArcKeeps
<1>10. CASE \E c \in Character : AttachCharacter(c)
  BY <1>10, AttachCharacterKeeps
<1>11. CASE CreateDefaultState
  BY <1>11, CreateDefaultStateKeeps
<1>12. CASE LinkDefaultState
  BY <1>12, LinkDefaultStateKeeps
<1>13. CASE \E f \in StateFacet : MoveFacet(f)
  BY <1>13, MoveFacetKeeps
<1>14. CASE DeleteFacets \/ DeleteNodes
  BY <1>14, DeletingKeeps
<1> QED
  BY <1>1, <1>2, <1>3, <1>4, <1>5, <1>6, <1>7, <1>8, <1>9, <1>10, <1>11, <1>12, <1>13, <1>14 DEF ArcNext

LEMMA ArcStart == ArcInit => ArcInv
<1> SUFFICES ASSUME ArcInit PROVE ArcInv
  OBVIOUS
<1>1. arcRun \in ArcRun /\ arcRun.at \in Quiet
  BY StoppedIs DEF ArcInit, Quiet
<1>2. RunFitsArcs(arcRun, state, arc, changes, characters)
  BY <1>1, QuietFits
<1>3. Arcs(<<>>, <<>>, {})
  BY CharacterArcsAssumption DEF Arcs
<1>4. state = <<>> /\ arc = <<>> /\ changes = {}
  BY DEF ArcInit
<1>5. held \in [StateId -> SUBSET StateFacet] /\ deletingArcs \in BOOLEAN /\ own \in SUBSET StateFacet
      /\ characters \in SUBSET Character
  BY DEF ArcInit
<1> QED
  BY <1>1, <1>2, <1>3, <1>4, <1>5 DEF ArcInv

LEMMA ArcInvariant == ArcSpec => []ArcInv
BY ArcStart, ArcNextKeeps, PTL DEF ArcSpec

\* Only a move takes a facet from its character, but for a deletion.
LEMMA OnlyMovesTake ==
  ASSUME ArcInv, [ArcNext]_arcVars, NEW f \in own \ own', deletingArcs' = deletingArcs
  PROVE  MoveFacet(f)
<1>1. f \in StateFacet /\ own' # own
  BY DEF ArcInv
<1>2. CASE UNCHANGED arcVars
  BY <1>1, <1>2 DEF arcVars
<1>3. CASE StartAnalysis
  BY <1>3 DEF StartAnalysis
<1>4. CASE DeleteFacets \/ DeleteNodes
  BY <1>4 DEF DeleteFacets, DeleteNodes, ArcInv
<1>5. CASE \E g \in StateFacet : MoveFacet(g)
  BY <1>5 DEF MoveFacet
<1> QED
  BY <1>1, <1>2, <1>3, <1>4, <1>5
     DEF ArcNext, Resume, StopRun, AskForArcs, LinkArc, CreateState, LinkStateToArc,
         LinkCharacterToState, FacetsLinked, EndArc, EndStage7, CreateArc, AttachCharacter,
         CreateDefaultState, LinkDefaultState, FacetsMoved, EndStage8, LinkFacet

LEMMA FacetsStayReachable == ArcInv /\ [ArcNext]_arcVars => Reachable
<1>1. SUFFICES ASSUME ArcInv, [ArcNext]_arcVars, NEW f \in own \ own',
                      CharacterOf[f] \in characters', deletingArcs' = deletingArcs
               PROVE  CharacterOf[f] \in Attachment(f)'
  BY DEF Reachable
<1>2. MoveFacet(f) /\ f \in StateFacet
  BY <1>1, OnlyMovesTake DEF ArcInv
<1>3. /\ characters' = characters /\ state' = state /\ arcRun.at = "move" /\ f \in arcRun.facets /\ f \in own
  BY <1>1, <1>2 DEF MoveFacet
<1>4. PICK s \in Targets(f) : held' = [held EXCEPT ![s] = @ \cup {f}]
  BY <1>2, <1>3 DEF MoveFacet
<1>5. s \in arcRun.states
  BY <1>1, <1>2, <1>3, TargetsAreRight
<1>6. CharacterOf[f] = arcRun.who /\ s \in 1..Len(state) /\ state[s].linked /\ state[s].who = CharacterOf[f]
  BY <1>1, <1>3, <1>5 DEF ArcInv, RunFitsArcs
<1>7. s \in StateId
  <2>1. Len(state) \in Nat /\ Len(state) <= MaxStates
    BY <1>1 DEF ArcInv, Arcs
  <2> QED
    BY <1>6, <2>1, CharacterArcsAssumption DEF StateId
<1>8. f \in held'[s]
  BY <1>1, <1>4, <1>7 DEF ArcInv
<1>9. s \in {k \in 1..Len(state) : state[k].linked /\ f \in held'[k]}
  BY <1>6, <1>8
<1>10. Attachment(f)' = {state[k].who : k \in {k \in 1..Len(state) : state[k].linked /\ f \in held'[k]}}
  BY <1>3, <1>9 DEF Attachment, FacetsForState
<1> QED
  BY <1>6, <1>9, <1>10

LEMMA FacetsGoToTheirWindow == ArcInv /\ [ArcNext]_arcVars => InItsWindow
<1>1. SUFFICES ASSUME ArcInv, [ArcNext]_arcVars, arcRun.at = "move",
                      NEW f \in StateFacet, NEW s \in StateId, f \in held'[s] \ held[s]
               PROVE  TargetOf(f, s)
  BY DEF InItsWindow, TargetOf
<1>2. held' # held
  BY <1>1
<1>3. CASE DeleteFacets
  BY <1>1, <1>3 DEF DeleteFacets
<1>4. CASE \E g \in StateFacet : MoveFacet(g)
  <2>1. PICK g \in StateFacet : MoveFacet(g)
    BY <1>4
  <2>2. g \in own
    BY <1>2, <2>1 DEF MoveFacet
  <2>3. PICK k \in Targets(g) : held' = [held EXCEPT ![k] = @ \cup {g}]
    BY <2>1, <2>2 DEF MoveFacet
  <2>4. s = k /\ f = g
    BY <1>1, <2>3 DEF ArcInv
  <2> QED
    BY <1>1, <2>3, <2>4, TargetsAreRight
<1>5. CASE \E g \in StateFacet : LinkFacet(g)
  BY <1>1, <1>5 DEF LinkFacet
<1> QED
  BY <1>1, <1>2, <1>3, <1>4, <1>5
     DEF ArcNext, arcVars, StartAnalysis, DeleteNodes, Resume, StopRun, AskForArcs, LinkArc, CreateState,
         LinkStateToArc, LinkCharacterToState, FacetsLinked, EndArc, EndStage7, CreateArc,
         AttachCharacter, CreateDefaultState, LinkDefaultState, FacetsMoved, EndStage8

LEMMA TransitionsAreInArcs == ArcInv => TransitionsInArcs
<1>1. SUFFICES ASSUME ArcInv, NEW c \in Character, NEW t \in StateTransitions(c)
               PROVE  \E a \in CharacterArcsOf(c) : {t[1], t[2]} \subseteq ArcStates(a)
  BY DEF TransitionsInArcs
<1>2. t \in changes /\ state[t[1]].linked /\ state[t[1]].who = c
  BY <1>1 DEF StateTransitions
<1>3. Arcs(state, arc, changes)
  BY <1>1 DEF ArcInv
<1>4. PICK a \in 1..Len(arc) : /\ arc[a].linked /\ arc[a].who = c
                               /\ a \in state[t[1]].arcs /\ a \in state[t[2]].arcs
  BY <1>2, <1>3 DEF Arcs
<1>5. t[1] \in 1..Len(state) /\ t[2] \in 1..Len(state)
  BY <1>2, <1>3 DEF Arcs
<1>6. a \in CharacterArcsOf(c) /\ {t[1], t[2]} \subseteq ArcStates(a)
  BY <1>4, <1>5 DEF CharacterArcsOf, ArcStates
<1> QED
  BY <1>6

\* Stages 7 and 8 take no facet out of its character's sight, give none to a state of
\* another part of the story, and make no transition between states of different arcs
\* (processCharacterArcs, processStateFacetAttachment).
THEOREM FacetsAreHeld == ArcSpec => FacetsHeld
<1>1. ArcInv' => TransitionsInArcs'
  BY TransitionsAreInArcs, PTL
<1>2. ArcInv /\ ArcInv' /\ [ArcNext]_arcVars => [Reachable /\ InItsWindow /\ TransitionsInArcs']_arcVars
  BY <1>1, FacetsStayReachable, FacetsGoToTheirWindow
<1> QED
  BY <1>2, ArcInvariant, PTL DEF ArcSpec, FacetsHeld

-----------------------------------------------------------------------------
(* ModelBatches: the invariant. *)

StageAt == {"idle", "plan", "ask", "thrown", "done"}
Asking == [at : StageAt, next : Nat \ {0}, parts : Nat, attempt : Nat]
Calibration == [history : Seq({"hit", "under", "over"}), multiplier : Nat]

\* Batches that follow one another.
Follows(list, overlap) ==
  \A b \in 1..Len(list) :
    /\ list[b] # <<>>
    /\ b > 1 => Head(list[b]) \in {Last(list[b - 1]) + 1, Last(list[b - 1]) + 1 - overlap}

CoveredBy(list) == UNION {Range(list[b]) : b \in 1..Len(list)}
Fitting == {pair \in Seq(Items) \X Nat : Fits(plannedBy, pair[1], pair[2])}
ContextOf(load, list, b) == IF load.stage = "extraction" /\ b > 1 THEN load.sizes[Last(list[b - 1])] ELSE 0
KeepTo(load, list, fitting) == \A b \in 1..Len(list) : <<list[b], ContextOf(load, list, b)>> \in fitting
InOrder == workload.stage # "cross"

\* In the middle of a plan what comes before the next batch is in one, or
\* has been answered.
PlanSound ==
  /\ asking.next = 1 /\ current \in Items /\ plannedBy = calibrator
  /\ batches = <<>> => \A i \in Items : i < current => i \in answered
  /\ InOrder => \A i \in Items : i < current => i \in answered \cup CoveredBy(batches)
  /\ InOrder /\ batches # <<>> => current \in {Last(Last(batches)) + 1, Last(Last(batches)) + 1 - OverlapSize}

\* A planned stage covers all, and of the batches it has passed every item is answered.
AskSound ==
  /\ InOrder \/ Len(batches) <= 1 => Items \subseteq answered \cup CoveredBy(batches)
  /\ \A b \in 1..Len(batches) : b < asking.next => Range(batches[b]) \subseteq answered

BatchTypeOK ==
  /\ workload \in Workloads /\ batches \in Seq(Seq(Items)) /\ current \in Nat
  /\ asking \in Asking /\ answered \in SUBSET Items /\ lost \in BOOLEAN /\ calibrator \in Calibration

BatchInv ==
  /\ BatchTypeOK
  /\ KeepTo(workload, batches, Fitting)
  /\ asking.at = "plan" => PlanSound
  /\ asking.at = "ask" => AskSound
  /\ InOrder => Follows(batches, OverlapSize)
  /\ ~Serial /\ asking.at # "done" => answered = {}
  /\ asking.at = "done" /\ (InOrder \/ Len(batches) <= 1) /\ ~lost => answered = Items
  /\ asking.at = "thrown" => calibrator.multiplier > Uncalibrated.multiplier

-----------------------------------------------------------------------------
(* The items of a workload. *)

LEMMA ItemsAre ==
  ASSUME workload \in Workloads
  PROVE  /\ Len(workload.sizes) \in Nat /\ Items = 1..Len(workload.sizes)
         /\ \A i \in Items : workload.sizes[i] \in Nat /\ workload.rank[i] \in Nat
         /\ workload.stage \in {"extraction", "relations", "cross"}
<1>1. PICK sizes, rank : sizes = workload.sizes /\ rank = workload.rank
  OBVIOUS
<1>2. sizes \in Seq(Nat) /\ rank \in Seq(Nat) /\ Len(sizes) = Len(rank)
      /\ workload.stage \in {"extraction", "relations", "cross"}
  BY <1>1, ModelBatchesAssumption
<1>3. Items = DOMAIN sizes
  BY <1>1 DEF Items
<1>4. /\ Len(sizes) \in Nat /\ DOMAIN sizes = 1..Len(sizes)
      /\ \A i \in 1..Len(sizes) : sizes[i] \in Nat /\ rank[i] \in Nat
  BY ONLY <1>2
<1> QED
  BY <1>1, <1>2, <1>3, <1>4

SumsTo(h, items) ==
  h = [k \in 0..Len(items) |-> IF k = 0 THEN 0 ELSE h[k - 1] + workload.sizes[items[k]]]

LEMMA SizeIsSum ==
  ASSUME NEW items, NEW f, SumsTo(f, items)
  PROVE  \E h : SumsTo(h, items) /\ SizeOf(items) = h[Len(items)]
<1> DEFINE sum[k \in 0..Len(items)] == IF k = 0 THEN 0 ELSE sum[k - 1] + workload.sizes[items[k]]
<1>1. sum = [k \in 0..Len(items) |-> IF k = 0 THEN 0 ELSE sum[k - 1] + workload.sizes[items[k]]]
  BY DEF SumsTo
<1>2. SizeOf(items) = sum[Len(items)]
  BY DEF SizeOf
<1> HIDE DEF sum
<1> QED
  BY <1>1, <1>2 DEF SumsTo

LEMMA SizeOfFew ==
  ASSUME workload \in Workloads
  PROVE  SizeOf(<<>>) = 0 /\ \A i \in Items : SizeOf(<<i>>) = workload.sizes[i]
<1>1. SizeOf(<<>>) = 0
  <2>1. PICK f : f = [k \in 0..0 |-> 0]
    OBVIOUS
  <2>2. SumsTo(f, <<>>)
    BY <2>1 DEF SumsTo
  <2>3. PICK h : SumsTo(h, <<>>) /\ SizeOf(<<>>) = h[Len(<<>>)]
    BY <2>2, SizeIsSum
  <2> QED
    BY <2>3 DEF SumsTo
<1>2. ASSUME NEW i \in Items PROVE SizeOf(<<i>>) = workload.sizes[i]
  <2>1. PICK items, size : items = <<i>> /\ size = workload.sizes[i]
    OBVIOUS
  <2>2. size \in Nat /\ Len(items) = 1 /\ items[1] = i
    BY <2>1, ItemsAre
  <2>3. PICK f : f = [k \in 0..1 |-> IF k = 0 THEN 0 ELSE size]
    OBVIOUS
  <2>4. SumsTo(f, items)
    <3>1. \A k \in 0..1 : k # 0 => k = 1 /\ f[k - 1] + workload.sizes[items[k]] = size
      BY <2>1, <2>2, <2>3
    <3> QED
      BY <2>2, <2>3, <3>1 DEF SumsTo
  <2>5. PICK h : SumsTo(h, items) /\ SizeOf(items) = h[Len(items)]
    BY <2>4, SizeIsSum
  <2>6. h[0] = 0 /\ h[1] = h[0] + workload.sizes[items[1]]
    BY <2>2, <2>5 DEF SumsTo
  <2> QED
    BY <2>1, <2>2, <2>5, <2>6
<1> QED
  BY <1>1, <1>2

LEMMA ItemsFromAre ==
  ASSUME workload \in Workloads, NEW i \in Items, NEW j \in i..Len(workload.sizes)
  PROVE  /\ ItemsFrom(i, j) \in Seq(Items) /\ Len(ItemsFrom(i, j)) = j - i + 1
         /\ \A k \in 1..(j - i + 1) : ItemsFrom(i, j)[k] = i + k - 1
         /\ Range(ItemsFrom(i, j)) = i..j
<1>1. PICK n, last : n = j - i + 1 /\ last = Len(workload.sizes)
  OBVIOUS
<1>2. i \in 1..last /\ j \in i..last /\ last \in Nat /\ n \in Nat /\ Items = 1..last
  BY <1>1, ItemsAre
<1>3. PICK items : items = [k \in 1..n |-> i + k - 1]
  OBVIOUS
<1>4. items \in [1..n -> Items]
  BY <1>2, <1>3, <1>1
<1>5. items \in Seq(Items) /\ Len(items) = n
  BY <1>2, <1>4
<1>6. Range(items) = i..j
  <2>1. \A k \in 1..n : i + k - 1 \in i..j
    BY <1>1, <1>2
  <2>2. \A m \in i..j : m - i + 1 \in 1..n /\ i + (m - i + 1) - 1 = m
    BY <1>1, <1>2
  <2>3. DOMAIN items = 1..n /\ \A k \in 1..n : items[k] = i + k - 1
    BY <1>3
  <2> QED
    BY <2>1, <2>2, <2>3 DEF Range
<1> QED
  BY <1>1, <1>3, <1>5, <1>6 DEF ItemsFrom

LEMMA SortIsPermutation ==
  ASSUME workload \in Workloads, NEW i \in Items, NEW j \in i..Len(workload.sizes)
  PROVE  /\ Prioritize(ItemsFrom(i, j)) \in Seq(Items)
         /\ Len(Prioritize(ItemsFrom(i, j))) = j - i + 1
         /\ Range(Prioritize(ItemsFrom(i, j))) = i..j
<1>1. PICK n, items, R : n = j - i + 1 /\ items = ItemsFrom(i, j) /\ R = i..j
  OBVIOUS
<1>2. items \in Seq(Items) /\ Len(items) = n /\ Range(items) = R
  BY <1>1, ItemsFromAre
<1>3. CASE workload.stage # "cross"
  <2>1. Prioritize(items) = items
    BY <1>3 DEF Prioritize
  <2> QED
    BY <1>1, <1>2, <2>1
<1>4. CASE workload.stage = "cross"
  <2>1. n \in Nat /\ R \subseteq Items /\ i \in Int /\ j \in Int /\ i <= j
    BY <1>1, ItemsAre
  <2>2. IsFiniteSet(R) /\ Cardinality(R) = n
    BY <1>1, <2>1, FS_Interval
  <2>3. \A x \in R : x \in Nat /\ workload.rank[x] \in Nat
    BY <2>1, ItemsAre
  <2>4. PICK below : below = [x \in R |-> Cardinality(Before(x, items))]
    OBVIOUS
  <2>5. ASSUME NEW x \in R PROVE below[x] \in 0..(n - 1)
    <3>1. Before(x, items) \in SUBSET (R \ {x})
      BY <1>2, <2>3 DEF Before, Precedes
    <3>2. IsFiniteSet(R \ {x}) /\ Cardinality(R \ {x}) = n - 1
      BY <2>2, FS_RemoveElement
    <3>3. Cardinality(Before(x, items)) \in Nat /\ Cardinality(Before(x, items)) <= n - 1
      BY <3>1, <3>2, FS_Subset, FS_CardinalityType
    <3> QED
      BY <2>1, <2>4, <3>3
  <2>6. ASSUME NEW x \in R, NEW y \in R, Precedes(x, y) PROVE below[x] < below[y]
    <3>1. Before(x, items) \subseteq Before(y, items) \ {x}
      BY <1>2, <2>3, <2>6 DEF Before, Precedes
    <3>2. x \in Before(y, items) /\ Before(y, items) \in SUBSET R
      BY <1>2, <2>6 DEF Before
    <3>3. IsFiniteSet(Before(y, items))
      BY <2>2, <3>2, FS_Subset
    <3>4. /\ IsFiniteSet(Before(y, items) \ {x})
          /\ Cardinality(Before(y, items) \ {x}) = Cardinality(Before(y, items)) - 1
      BY <3>2, <3>3, FS_RemoveElement
    <3>5. Cardinality(Before(x, items)) <= Cardinality(Before(y, items)) - 1
      BY <3>1, <3>4, FS_Subset
    <3>6. below[x] \in 0..(n - 1) /\ below[y] \in 0..(n - 1)
      BY <2>5
    <3> QED
      BY <2>4, <3>5, <3>6
  <2>7. ASSUME NEW x \in R, NEW y \in R, x # y PROVE below[x] # below[y]
    <3>1. Precedes(x, y) \/ Precedes(y, x)
      BY <2>3, <2>7 DEF Precedes
    <3>2. below[x] \in 0..(n - 1) /\ below[y] \in 0..(n - 1)
      BY <2>5
    <3> QED
      BY <2>6, <3>1, <3>2
  <2>8. below \in Injection(R, 0..(n - 1))
    BY <2>4, <2>5, <2>7 DEF Injection, IsInjective
  <2>9. IsFiniteSet(0..(n - 1)) /\ Cardinality(0..(n - 1)) = n
    <3>1. n >= 1
      BY <1>1, <2>1
    <3> QED
      BY <2>1, <3>1, FS_Interval
  <2>10. \A k \in 0..(n - 1) : \E x \in R : below[x] = k
    <3>1. below \in Surjection(R, 0..(n - 1))
      BY <2>2, <2>8, <2>9, FS_Injection
    <3> QED
      BY <3>1 DEF Surjection
  <2>11. PICK order : order = [k \in 1..n |-> CHOOSE x \in R : Cardinality(Before(x, items)) = k - 1]
    OBVIOUS
  <2>12. ASSUME NEW k \in 1..n PROVE order[k] \in R /\ below[order[k]] = k - 1
    <3>1. k - 1 \in 0..(n - 1)
      BY <2>1
    <3>2. \E x \in R : Cardinality(Before(x, items)) = k - 1
      BY <2>4, <2>10, <3>1
    <3> QED
      BY <2>4, <2>11, <3>2
  <2>13. ASSUME NEW x \in R PROVE \E k \in 1..n : order[k] = x
    <3>1. below[x] + 1 \in 1..n /\ (below[x] + 1) - 1 = below[x]
      BY <2>1, <2>5
    <3>2. order[below[x] + 1] \in R /\ below[order[below[x] + 1]] = below[x]
      BY <2>12, <3>1
    <3> QED
      BY <2>7, <3>1, <3>2
  <2>14. order \in Seq(Items) /\ Len(order) = n
    <3>1. order \in [1..n -> Items]
      BY <2>1, <2>11, <2>12
    <3> QED
      BY <2>1, <3>1
  <2>15. Range(order) = R
    <3>1. DOMAIN order = 1..n
      BY <2>11
    <3> QED
      BY <2>12, <2>13, <3>1 DEF Range
  <2>16. Prioritize(items) = order
    <3>1. DOMAIN items = 1..n
      BY <1>2
    <3> QED
      BY <1>2, <1>4, <2>11, <3>1 DEF Prioritize
  <2> QED
    BY <1>1, <2>14, <2>15, <2>16
<1> QED
  BY <1>3, <1>4

-----------------------------------------------------------------------------
(* A batch. *)

\* The first k in the order of asking all fit, one by one, and no more of them.
Takes(order, k, fixed) ==
  /\ k \in 0..Len(order)
  /\ \A m \in 1..k : Fits(calibrator, SubSeq(order, 1, m), fixed)
  /\ \A n \in 0..Len(order) : (\A m \in 1..n : Fits(calibrator, SubSeq(order, 1, m), fixed)) => n <= k

LEMMA IncludedIs ==
  ASSUME NEW items, NEW fixed, NEW order, order = Prioritize(items), Len(order) \in Nat
  PROVE  \E k : Included(items, fixed) = SubSeq(order, 1, k) /\ Takes(order, k, fixed)
<1>1. PICK fitting : fitting = {k \in 0..Len(order) : \A m \in 1..k : Fits(calibrator, SubSeq(order, 1, m), fixed)}
  OBVIOUS
<1>2. fitting \in SUBSET (0..Len(order)) /\ 0 \in fitting
  BY <1>1
<1>3. Max(fitting) \in fitting /\ \A n \in fitting : n <= Max(fitting)
  BY <1>2, GreatestIsThere
<1>4. Included(items, fixed) = SubSeq(order, 1, Max(fitting))
  BY <1>1 DEF Included
<1>5. Takes(order, Max(fitting), fixed)
  BY <1>1, <1>3 DEF Takes
<1> QED
  BY <1>4, <1>5

LEMMA PrefixIs ==
  ASSUME NEW S, NEW s \in Seq(S), NEW k \in 0..Len(s)
  PROVE  /\ SubSeq(s, 1, k) \in Seq(S) /\ Len(SubSeq(s, 1, k)) = k
         /\ \A m \in 1..k : SubSeq(s, 1, k)[m] = s[m]
<1>1. \A m \in 1..k : s[m] \in S
  OBVIOUS
<1>2. Len(SubSeq(s, 1, k)) = IF 1 <= k THEN k - 1 + 1 ELSE 0
  BY <1>1, SubSeqProperties
<1>3. SubSeq(s, 1, k) \in Seq(S)
  BY <1>1, SubSeqProperties
<1>4. ASSUME NEW m \in 1..k PROVE SubSeq(s, 1, k)[m] = s[m]
  <2>1. m \in 1..(k - 1 + 1) /\ 1 + m - 1 = m
    OBVIOUS
  <2> QED
    BY <1>1, <2>1, SubSeqProperties
<1> QED
  BY <1>2, <1>3, <1>4

\* What a batch is that was planned from one item to another.
IsBatch(batch, i, j, fixed) ==
  /\ batch \in Seq(Items) /\ Len(batch) \in 0..(j - i + 1) /\ Range(batch) \subseteq i..j
  /\ Len(batch) = j - i + 1 => Range(batch) = i..j
  /\ workload.stage # "cross" => \A k \in 1..Len(batch) : batch[k] = i + k - 1
  /\ Len(batch) # 0 => Fits(calibrator, batch, fixed)
  /\ Len(batch) = 0 => ~Fits(calibrator, <<Prioritize(ItemsFrom(i, j))[1]>>, fixed)
                       /\ Prioritize(ItemsFrom(i, j))[1] \in i..j

LEMMA BatchIs ==
  ASSUME workload \in Workloads, NEW i \in Items, NEW j \in i..Len(workload.sizes), NEW fixed
  PROVE  IsBatch(Included(ItemsFrom(i, j), fixed), i, j, fixed)
<1>1. PICK order, n : order = Prioritize(ItemsFrom(i, j)) /\ n = j - i + 1
  OBVIOUS
<1>2. order \in Seq(Items) /\ Len(order) = n /\ Range(order) = i..j
  BY <1>1, SortIsPermutation
<1>3. n \in Nat /\ n >= 1
  BY <1>1, ItemsAre
<1>4. PICK k : Included(ItemsFrom(i, j), fixed) = SubSeq(order, 1, k) /\ Takes(order, k, fixed)
  BY <1>1, <1>2, <1>3, IncludedIs
<1>5. PICK batch : batch = SubSeq(order, 1, k)
  OBVIOUS
<1>6. k \in 0..n
  BY <1>2, <1>4 DEF Takes
<1>7. batch \in Seq(Items) /\ Len(batch) = k /\ \A m \in 1..k : batch[m] = order[m]
  BY <1>2, <1>5, <1>6, PrefixIs
<1>8. DOMAIN batch = 1..k /\ DOMAIN order = 1..n
  BY <1>2, <1>7
<1>9. Range(batch) \subseteq i..j
  BY <1>2, <1>6, <1>7, <1>8 DEF Range
<1>10. ASSUME k = n PROVE Range(batch) = i..j
  BY <1>2, <1>7, <1>8, <1>10 DEF Range
<1>11. ASSUME workload.stage # "cross" PROVE \A m \in 1..k : batch[m] = i + m - 1
  <2>1. order = ItemsFrom(i, j)
    BY <1>1, <1>11 DEF Prioritize
  <2>2. \A m \in 1..n : order[m] = i + m - 1
    BY <1>1, <2>1, ItemsFromAre
  <2>3. \A m \in 1..k : m \in 1..n
    BY <1>3, <1>6
  <2> QED
    BY <1>7, <2>2, <2>3
<1>12. ASSUME k # 0 PROVE Fits(calibrator, batch, fixed)
  <2>1. k \in 1..k
    BY <1>6, <1>12
  <2> QED
    BY <1>4, <1>5, <2>1 DEF Takes
<1>13. ASSUME k = 0 PROVE ~Fits(calibrator, <<order[1]>>, fixed) /\ order[1] \in i..j
  <2>1. 1 \in 0..n /\ 1 \in 1..n
    BY <1>3
  <2>2. SubSeq(order, 1, 1) = <<order[1]>>
    <3>1. /\ SubSeq(order, 1, 1) \in Seq(Items) /\ Len(SubSeq(order, 1, 1)) = 1
          /\ SubSeq(order, 1, 1)[1] = order[1]
      BY <1>2, <2>1, PrefixIs
    <3>2. PICK first : first = order[1]
      OBVIOUS
    <3>3. <<first>> \in Seq(Items) /\ Len(<<first>>) = 1 /\ <<first>>[1] = first
      BY <1>2, <2>1, <3>2
    <3>4. \A m \in 1..1 : SubSeq(order, 1, 1)[m] = <<first>>[m]
      BY <3>1, <3>2, <3>3
    <3> QED
      BY <3>1, <3>2, <3>3, <3>4, SeqEqual
  <2>3. ~Fits(calibrator, SubSeq(order, 1, 1), fixed)
    <3>1. \A m \in 1..1 : m = 1
      OBVIOUS
    <3>2. ~(\A m \in 1..1 : Fits(calibrator, SubSeq(order, 1, m), fixed))
      BY <1>2, <1>4, <1>13, <2>1 DEF Takes
    <3> QED
      BY <3>1, <3>2
  <2>4. order[1] \in Range(order)
    BY <1>8, <2>1 DEF Range
  <2> QED
    BY <1>2, <2>2, <2>3, <2>4
<1>14. IsBatch(batch, i, j, fixed)
  BY <1>1, <1>6, <1>7, <1>9, <1>10, <1>11, <1>12, <1>13 DEF IsBatch
<1> QED
  BY <1>4, <1>5, <1>14

\* Half of what fits in the document's order fits.
LEMMA HalfFits ==
  ASSUME workload \in Workloads, workload.stage # "cross", NEW i \in Items,
         NEW j \in i..Len(workload.sizes), NEW fixed, NEW h \in 1..(j - i + 1),
         h <= Len(Included(ItemsFrom(i, j), fixed))
  PROVE  Len(Included(ItemsFrom(i, i + h - 1), fixed)) = h
<1>1. PICK all, half, m : all = ItemsFrom(i, j) /\ half = ItemsFrom(i, m) /\ m = i + h - 1
  OBVIOUS
<1>2. m \in i..Len(workload.sizes) /\ m - i + 1 = h
  BY <1>1, ItemsAre
<1>3. /\ all \in Seq(Items) /\ Len(all) = j - i + 1 /\ half \in Seq(Items) /\ Len(half) = h
      /\ \A k \in 1..h : half[k] = all[k]
  <2>1. all \in Seq(Items) /\ Len(all) = j - i + 1 /\ \A k \in 1..(j - i + 1) : all[k] = i + k - 1
    BY <1>1, ItemsFromAre
  <2>2. half \in Seq(Items) /\ Len(half) = h /\ \A k \in 1..h : half[k] = i + k - 1
    BY <1>1, <1>2, ItemsFromAre
  <2>3. \A k \in 1..h : k \in 1..(j - i + 1)
    BY ItemsAre
  <2> QED
    BY <2>1, <2>2, <2>3
<1>4. Prioritize(all) = all /\ Prioritize(half) = half
  BY DEF Prioritize
<1>5. PICK k : Included(all, fixed) = SubSeq(all, 1, k) /\ Takes(all, k, fixed)
  <2>1. Len(all) \in Nat
    BY <1>3
  <2> QED
    BY <1>4, <2>1, IncludedIs
<1>6. PICK l : Included(half, fixed) = SubSeq(half, 1, l) /\ Takes(half, l, fixed)
  <2>1. Len(half) \in Nat
    BY <1>3
  <2> QED
    BY <1>4, <2>1, IncludedIs
<1>7. k \in 0..Len(all) /\ l \in 0..h
  BY <1>3, <1>5, <1>6 DEF Takes
<1>8. h <= k
  <2>1. Len(SubSeq(all, 1, k)) = k
    BY <1>3, <1>7, PrefixIs
  <2> QED
    BY <1>1, <1>5, <2>1
<1>9. ASSUME NEW n \in 1..h PROVE Fits(calibrator, SubSeq(half, 1, n), fixed)
  <2>1. n \in 0..Len(all) /\ n \in 0..Len(half) /\ n \in 1..k
    BY <1>3, <1>7, <1>8
  <2>2. /\ SubSeq(all, 1, n) \in Seq(Items) /\ Len(SubSeq(all, 1, n)) = n
        /\ \A p \in 1..n : SubSeq(all, 1, n)[p] = all[p]
    BY <1>3, <2>1, PrefixIs
  <2>3. /\ SubSeq(half, 1, n) \in Seq(Items) /\ Len(SubSeq(half, 1, n)) = n
        /\ \A p \in 1..n : SubSeq(half, 1, n)[p] = half[p]
    BY <1>3, <2>1, PrefixIs
  <2>4. SubSeq(half, 1, n) = SubSeq(all, 1, n)
    BY <1>3, <2>2, <2>3, SeqEqual
  <2>5. Fits(calibrator, SubSeq(all, 1, n), fixed)
    BY <1>5, <2>1 DEF Takes
  <2> QED
    BY <2>4, <2>5
<1>10. h <= l
  BY <1>3, <1>6, <1>9 DEF Takes
<1>11. Len(SubSeq(half, 1, l)) = l
  BY <1>3, <1>7, PrefixIs
<1> QED
  BY <1>1, <1>6, <1>7, <1>10, <1>11

\* As long as the calibrator has not backed off, an item can be asked about, after
\* another or itself as overlap.
LEMMA OneFits ==
  ASSUME workload \in Workloads, calibrator \in Calibration, calibrator.multiplier <= 6,
         NEW i \in Items, NEW fixed,
         fixed = 0 \/ (Serial /\ \E j \in Items : j \in {i - 1, i} /\ fixed = workload.sizes[j])
  PROVE  Fits(calibrator, <<i>>, fixed)
<1>1. PICK size : size = workload.sizes[i]
  OBVIOUS
<1>2. size \in Nat /\ SizeOf(<<i>>) = size /\ Len(<<i>>) = 1 /\ i \in DOMAIN workload.sizes
  BY <1>1, ItemsAre, SizeOfFew DEF Items
<1>3. {ContextBudget, OutputBudget, Overhead, PerItem} \subseteq Nat
  BY ModelBatchesAssumption
<1>4. CASE ~Serial
  <2>1. PerItem <= OutputBudget /\ size + PerItem <= ContextBudget
    BY <1>1, <1>2, <1>4, ItemsCanBeAsked DEF Serial
  <2>2. OutputReserve(calibrator, <<i>>) = PerItem
    BY <1>2, <1>3, <1>4 DEF OutputReserve
  <2> QED
    BY <1>2, <1>3, <1>4, <2>1, <2>2 DEF Fits
<1>5. CASE Serial
  <2>1. PICK m : m = calibrator.multiplier
    OBVIOUS
  <2>2. m \in 0..6
    BY <2>1 DEF Calibration
  <2>3. PICK reserve, most : /\ reserve = OutputReserve(calibrator, <<i>>)
                             /\ most \in {size + Overhead, (size * 6) \div 4}
                             /\ reserve \in Nat /\ most \in Nat /\ reserve <= most
    <3>1. CASE Len(calibrator.history) < EnoughData
      <4>1. OutputReserve(calibrator, <<i>>) = size + Overhead
        BY <1>2, <1>5, <3>1 DEF OutputReserve
      <4> QED
        BY <1>2, <1>3, <4>1
    <3>2. CASE ~(Len(calibrator.history) < EnoughData)
      <4>1. OutputReserve(calibrator, <<i>>) = (size * m) \div 4
        BY <1>2, <1>5, <2>1, <3>2 DEF OutputReserve
      <4>2. size * m \in Nat /\ size * m <= size * 6
        <5>1. m = 0 \/ m = 1 \/ m = 2 \/ m = 3 \/ m = 4 \/ m = 5 \/ m = 6
          BY <2>2
        <5> QED
          BY <1>2, <5>1
      <4>3. \A a, b \in Nat : a <= b => a \div 4 \in Nat /\ b \div 4 \in Nat /\ a \div 4 <= b \div 4
        OBVIOUS
      <4>4. size * 6 \in Nat
        BY <1>2
      <4> QED
        BY <4>1, <4>2, <4>3, <4>4
    <3> QED
      BY <3>1, <3>2
  <2>4. most <= OutputBudget /\ \A j \in DOMAIN workload.sizes \cap {i - 1, i} :
                                  workload.sizes[j] + size + most <= ContextBudget
    BY <1>1, <1>2, <1>5, <2>3, ItemsCanBeAsked DEF Serial
  <2>5. fixed \in Nat /\ fixed + size + most <= ContextBudget
    <3>1. CASE fixed = 0
      <4>1. size + size + most <= ContextBudget
        BY <1>1, <1>2, <2>4
      <4> QED
        BY <1>2, <1>3, <2>3, <3>1, <4>1
    <3>2. CASE fixed # 0
      <4>1. PICK j \in Items : j \in {i - 1, i} /\ fixed = workload.sizes[j]
        BY <3>2
      <4>2. j \in DOMAIN workload.sizes /\ fixed \in Nat
        BY <4>1, ItemsAre DEF Items
      <4> QED
        BY <2>4, <4>1, <4>2
    <3> QED
      BY <3>1, <3>2
  <2>6. reserve <= OutputBudget /\ fixed + size + reserve <= ContextBudget
    BY <1>2, <1>3, <2>3, <2>4, <2>5
  <2> QED
    BY <1>2, <2>3, <2>6 DEF Fits
<1> QED
  BY <1>4, <1>5

\* The empty batch fits; stage 6 may plan one where it halves.
LEMMA NothingFits ==
  ASSUME workload \in Workloads, ~Serial
  PROVE  Fits(calibrator, <<>>, 0)
<1>1. SizeOf(<<>>) = 0
  BY SizeOfFew
<1>2. {ContextBudget, OutputBudget, PerItem} \subseteq Nat
  BY ModelBatchesAssumption
<1>3. OutputReserve(calibrator, <<>>) = 0
  BY <1>2 DEF OutputReserve
<1> QED
  BY <1>1, <1>2, <1>3 DEF Fits

-----------------------------------------------------------------------------
(* A plan. *)

LEMMA ListGrows ==
  ASSUME NEW S, NEW list \in Seq(Seq(S)), NEW batch \in Seq(S), NEW new, new = Append(list, batch)
  PROVE  /\ new \in Seq(Seq(S)) /\ Len(new) = Len(list) + 1 /\ Len(list) \in Nat /\ new # <<>>
         /\ \A b \in 1..Len(list) : new[b] = list[b]
         /\ new[Len(list) + 1] = batch
         /\ list # <<>> => Len(list) \in 1..Len(list) /\ Last(list) = list[Len(list)]
         /\ \A b \in 1..Len(new) : b \in 1..Len(list) \/ b = Len(list) + 1
<1>1. new \in Seq(Seq(S)) /\ Len(new) = Len(list) + 1 /\ Len(list) \in Nat /\ new # <<>>
  OBVIOUS
<1>2. (\A b \in 1..Len(list) : new[b] = list[b]) /\ new[Len(list) + 1] = batch
  OBVIOUS
<1>4. list # <<>> => Len(list) \in 1..Len(list) /\ Last(list) = list[Len(list)]
  BY DEF Last
<1>5. \A b \in 1..Len(new) : b \in 1..Len(list) \/ b = Len(list) + 1
  BY <1>1
<1> QED
  BY <1>1, <1>2, <1>4, <1>5

LEMMA LastGrown ==
  ASSUME NEW S, NEW list \in Seq(Seq(S)), NEW batch \in Seq(S)
  PROVE  Last(Append(list, batch)) = batch
<1>1. PICK new, len : new = Append(list, batch) /\ len = Len(list)
  OBVIOUS
<1>2. new \in Seq(Seq(S)) /\ Len(new) = len + 1 /\ new[len + 1] = batch
  BY <1>1
<1>3. Last(new) = new[Len(new)]
  BY DEF Last
<1> QED
  BY <1>1, <1>2, <1>3

LEMMA StillFollows ==
  ASSUME NEW S, NEW list \in Seq(Seq(S)), NEW batch \in Seq(S), NEW overlap, Follows(list, overlap), batch # <<>>,
         list # <<>> => Head(batch) \in {Last(Last(list)) + 1, Last(Last(list)) + 1 - overlap}
  PROVE  Follows(Append(list, batch), overlap)
<1>1. PICK len, new : len = Len(list) /\ new = Append(list, batch)
  OBVIOUS
<1>2. /\ Len(new) = len + 1 /\ len \in Nat /\ \A b \in 1..len : new[b] = list[b]
      /\ new[len + 1] = batch
      /\ list # <<>> => len \in 1..len /\ Last(list) = list[len]
  <2>1. Len(new) = len + 1 /\ len \in Nat /\ (\A b \in 1..len : new[b] = list[b]) /\ new[len + 1] = batch
    BY <1>1, ListGrows
  <2>2. list # <<>> => len \in 1..len /\ Last(list) = list[len]
    BY <1>1 DEF Last
  <2> QED
    BY <2>1, <2>2
<1>3. ASSUME NEW b \in 1..len
      PROVE  /\ new[b] # <<>>
             /\ b > 1 => Head(new[b]) \in {Last(new[b - 1]) + 1, Last(new[b - 1]) + 1 - overlap}
  <2>1. b > 1 => b - 1 \in 1..len
    BY <1>2
  <2>2. /\ list[b] # <<>>
        /\ b > 1 => Head(list[b]) \in {Last(list[b - 1]) + 1, Last(list[b - 1]) + 1 - overlap}
    BY <1>1 DEF Follows
  <2> QED
    BY <1>2, <2>1, <2>2
<1>4. /\ new[len + 1] # <<>>
      /\ len + 1 > 1 => Head(new[len + 1]) \in {Last(new[(len + 1) - 1]) + 1, Last(new[(len + 1) - 1]) + 1 - overlap}
  <2>1. len + 1 > 1 => list # <<>> /\ len \in 1..len /\ (len + 1) - 1 = len
    BY <1>1, <1>2
  <2> QED
    BY <1>2, <2>1
<1>5. \A b \in 1..Len(new) : b \in 1..len \/ b = len + 1
  BY <1>2
<1> QED
  BY <1>1, <1>3, <1>4, <1>5 DEF Follows

LEMMA StillKeepTo ==
  ASSUME NEW S, NEW list \in Seq(Seq(S)), NEW batch \in Seq(S), NEW new, new = Append(list, batch),
         NEW load, NEW fitting, KeepTo(load, list, fitting), NEW fixed, <<batch, fixed>> \in fitting,
         fixed = IF load.stage = "extraction" /\ list # <<>> THEN load.sizes[Last(Last(list))] ELSE 0
  PROVE  KeepTo(load, new, fitting)
<1>1. PICK len : len = Len(list)
  OBVIOUS
<1>2. /\ Len(new) = len + 1 /\ len \in Nat /\ \A b \in 1..len : new[b] = list[b]
      /\ new[len + 1] = batch
      /\ list # <<>> => len \in 1..len /\ Last(list) = list[len]
  <2>1. Len(new) = len + 1 /\ len \in Nat /\ (\A b \in 1..len : new[b] = list[b]) /\ new[len + 1] = batch
    BY <1>1, ListGrows
  <2>2. list # <<>> => len \in 1..len /\ Last(list) = list[len]
    BY <1>1 DEF Last
  <2> QED
    BY <2>1, <2>2
<1>3. ASSUME NEW b \in 1..len PROVE <<new[b], ContextOf(load, new, b)>> \in fitting
  <2>1. b > 1 => b - 1 \in 1..len
    BY <1>2
  <2>2. ContextOf(load, new, b) = ContextOf(load, list, b)
    BY <1>2, <2>1 DEF ContextOf
  <2> QED
    BY <1>1, <1>2, <2>2 DEF KeepTo
<1>4. ContextOf(load, new, len + 1) = fixed
  <2>1. (len + 1) - 1 = len /\ (len + 1 > 1 <=> list # <<>>)
    BY <1>1, <1>2
  <2> QED
    BY <1>2, <2>1 DEF ContextOf
<1>5. \A b \in 1..Len(new) : b \in 1..len \/ b = len + 1
  BY <1>2
<1> QED
  BY <1>2, <1>3, <1>4, <1>5 DEF KeepTo

LEMMA CoversMore ==
  ASSUME NEW S, NEW list \in Seq(Seq(S)), NEW batch \in Seq(S), NEW new, new = Append(list, batch)
  PROVE  CoveredBy(new) = CoveredBy(list) \cup Range(batch)
<1>1. PICK len : len = Len(list)
  OBVIOUS
<1>2. /\ Len(new) = len + 1 /\ len \in Nat /\ \A b \in 1..len : new[b] = list[b]
      /\ new[len + 1] = batch
  BY <1>1, ListGrows
<1>3. \A b \in 1..(len + 1) : b \in 1..len \/ b = len + 1
  BY <1>2
<1>4. len + 1 \in 1..(len + 1) /\ \A b \in 1..len : b \in 1..(len + 1)
  BY <1>2
<1> QED
  BY <1>1, <1>2, <1>3, <1>4 DEF CoveredBy

LEMMA WorkloadStays ==
  ASSUME workload' = workload
  PROVE  Items' = Items /\ Serial' = Serial /\ OverlapSize' = OverlapSize /\ InOrder' = InOrder
BY DEF Items, Serial, OverlapSize, InOrder

LEMMA FittingStays ==
  ASSUME UNCHANGED <<workload, plannedBy>>
  PROVE  Fitting' = Fitting
<1>1. Items' = Items /\ Serial' = Serial
  BY WorkloadStays
<1>2. ASSUME NEW batch, NEW fixed PROVE Fits(plannedBy, batch, fixed)' = Fits(plannedBy, batch, fixed)
  <2>1. SizeOf(batch)' = SizeOf(batch)
    BY DEF SizeOf
  <2>2. OutputReserve(plannedBy, batch)' = OutputReserve(plannedBy, batch)
    BY <1>1, <2>1 DEF OutputReserve
  <2> QED
    BY <2>1, <2>2 DEF Fits
<1> QED
  BY <1>1, <1>2 DEF Fitting

\* A batch of n items is added to the plan, which goes on or is complete.
LEMMA PlanGrows ==
  ASSUME BatchInv, asking.at = "plan", NEW batch \in Seq(Items), NEW n \in Nat \ {0}, NEW len,
         len = Len(workload.sizes), <<batch, FixedContext>> \in Fitting,
         InOrder => Len(batch) = n /\ \A k \in 1..n : batch[k] = current + k - 1,
         batches' = Append(batches, batch), current' = Advance(current, n),
         UNCHANGED <<workload, plannedBy, answered, lost, calibrator>>,
         \/ asking' = asking /\ current + n - 1 < len
         \/ /\ asking' = [asking EXCEPT !.at = "ask"] /\ current + n - 1 = len
            /\ Len(batch) = n => Range(batch) = current..len
            /\ batches = <<>> => Len(batch) = n
  PROVE  BatchInv'
<1>1. /\ workload \in Workloads /\ batches \in Seq(Seq(Items)) /\ asking \in Asking /\ answered \in SUBSET Items
      /\ lost \in BOOLEAN /\ calibrator \in Calibration
  BY DEF BatchInv, BatchTypeOK
<1>2. len \in Nat /\ Items = 1..len /\ current \in 1..len
  BY ItemsAre, <1>1 DEF BatchInv, PlanSound
<1>3. /\ Items' = Items /\ Serial' = Serial /\ OverlapSize' = OverlapSize /\ InOrder' = InOrder
      /\ Fitting' = Fitting /\ workload' = workload /\ OverlapSize \in {0, 1}
  BY WorkloadStays, FittingStays DEF OverlapSize
<1>4. batches' \in Seq(Seq(Items)) /\ batches' # <<>>
  <2>1. Append(batches, batch) \in Seq(Seq(Items)) /\ Append(batches, batch) # <<>>
    BY <1>1
  <2> QED
    BY <2>1
<1>4a. Last(batches') = batch
  <2>1. Last(Append(batches, batch)) = batch
    BY <1>1, LastGrown
  <2> QED
    BY <2>1
<1>5. CoveredBy(batches') = CoveredBy(batches) \cup Range(batch)
  BY <1>1, CoversMore
<1>6. asking' \in Asking /\ asking'.next = 1 /\ asking'.at \in {"plan", "ask"}
  <2>1. asking.next = 1
    BY DEF BatchInv, PlanSound
  <2> QED
    BY <1>1, <2>1 DEF Asking, StageAt
<1>7. current' \in Nat /\ current' >= current /\ current' <= current + n
      /\ current' \in {current + n, current + n - OverlapSize}
  BY <1>2, <1>3 DEF Advance
<1>8. ASSUME InOrder
      PROVE  /\ batch # <<>> /\ Head(batch) = current /\ Last(batch) = current + n - 1
             /\ \A i \in 1..len : current <= i /\ i <= current + n - 1 => i \in Range(batch)
  <2>1. Len(batch) = n /\ (\A k \in 1..n : batch[k] = current + k - 1) /\ 1 \in 1..n /\ n \in 1..n
    BY <1>8
  <2>2. batch # <<>> /\ Head(batch) = batch[1] /\ Last(batch) = batch[n]
    BY <2>1 DEF Last
  <2>3. batch[1] = current /\ batch[n] = current + n - 1
    <3>1. batch[1] = current + 1 - 1
      BY <2>1
    <3>2. batch[n] = current + n - 1
      BY <2>1
    <3> QED
      BY <1>2, <3>1, <3>2
  <2>4. DOMAIN batch = 1..n
    BY <2>1
  <2>5. ASSUME NEW i \in 1..len, current <= i, i <= current + n - 1 PROVE i \in Range(batch)
    <3>1. i - current + 1 \in 1..n /\ current + (i - current + 1) - 1 = i
      BY <1>2, <2>5
    <3>2. batch[i - current + 1] = i
      BY <2>1, <3>1
    <3> QED
      BY <2>4, <3>1, <3>2 DEF Range
  <2> QED
    BY <2>2, <2>3, <2>5
<1>9. InOrder => Follows(batches', OverlapSize)
  <2>1. SUFFICES ASSUME InOrder PROVE Follows(batches', OverlapSize)
    OBVIOUS
  <2>2. Follows(batches, OverlapSize)
    BY <2>1 DEF BatchInv
  <2>3. batches # <<>> => Head(batch) \in {Last(Last(batches)) + 1, Last(Last(batches)) + 1 - OverlapSize}
    BY <1>8, <2>1 DEF BatchInv, PlanSound
  <2>4. batch # <<>>
    BY <1>8, <2>1
  <2>5. Follows(Append(batches, batch), OverlapSize)
    BY <1>1, <2>2, <2>3, <2>4, StillFollows
  <2> QED
    BY <2>5
<1>10. ASSUME InOrder, NEW i \in Items, i <= current + n - 1
       PROVE  i \in answered \cup CoveredBy(batches')
  <2>1. CASE i < current
    BY <1>5, <1>10, <2>1 DEF BatchInv, PlanSound
  <2>2. CASE current <= i
    BY <1>2, <1>5, <1>8, <1>10, <2>2
  <2> QED
    BY <1>2, <2>1, <2>2
<1>10a. KeepTo(workload, batches', Fitting)
  <2>1. KeepTo(workload, batches, Fitting)
    BY DEF BatchInv
  <2>2. FixedContext = IF workload.stage = "extraction" /\ batches # <<>>
                       THEN workload.sizes[Last(Last(batches))] ELSE 0
    BY DEF FixedContext, Serial
  <2> QED
    BY <1>1, <2>1, <2>2, StillKeepTo
<1>11. asking'.at = "plan" => PlanSound'
  <2>1. SUFFICES ASSUME asking'.at = "plan" PROVE PlanSound'
    OBVIOUS
  <2>2. current + n - 1 < len
    BY <1>1, <2>1 DEF Asking
  <2>3. current' \in Items'
    BY <1>2, <1>3, <1>7, <2>2
  <2>4. plannedBy' = calibrator'
    BY DEF BatchInv, PlanSound
  <2>5. InOrder => \A i \in Items : i < current' => i \in answered \cup CoveredBy(batches')
    <3>1. \A i \in Items : i < current' => i <= current + n - 1
      BY <1>2, <1>7
    <3> QED
      BY <1>10, <3>1
  <2>6. InOrder => current' \in {Last(Last(batches')) + 1, Last(Last(batches')) + 1 - OverlapSize}
    <3>1. SUFFICES ASSUME InOrder
                   PROVE  current' \in {Last(Last(batches')) + 1, Last(Last(batches')) + 1 - OverlapSize}
      OBVIOUS
    <3>2. PICK last : last = Last(batch) /\ last = current + n - 1
      BY <1>8, <3>1
    <3>3. last + 1 = current + n /\ last + 1 - OverlapSize = current + n - OverlapSize
      <4>1. current \in Nat /\ OverlapSize \in Nat /\ n \in Nat
        BY <1>2, <1>3
      <4> QED
        BY ONLY <3>2, <4>1
    <3> QED
      BY <1>4a, <1>7, <3>2, <3>3
  <2> QED
    BY <1>3, <1>4, <1>6, <2>3, <2>4, <2>5, <2>6 DEF PlanSound
<1>12. asking'.at = "ask" => AskSound'
  <2>1. SUFFICES ASSUME asking'.at = "ask" PROVE AskSound'
    OBVIOUS
  <2>2. /\ current + n - 1 = len /\ (Len(batch) = n => Range(batch) = current..len)
        /\ batches = <<>> => Len(batch) = n
    BY <1>1, <2>1 DEF Asking
  <2>3. CASE InOrder
    <3>1. Items \subseteq answered \cup CoveredBy(batches')
      BY <1>2, <1>10, <2>2, <2>3
    <3> QED
      BY <1>3, <1>6, <3>1 DEF AskSound
  <2>4. CASE ~InOrder
    <3>1. Len(batches') <= 1 => batches = <<>>
      <4>1. Len(batches') = Len(batches) + 1 /\ Len(batches) \in Nat /\ (batches # <<>> => Len(batches) \in 1..Len(batches))
        BY <1>1, ListGrows
      <4> QED
        BY <4>1
    <3>2. ASSUME batches = <<>>, NEW i \in Items PROVE i \in answered \cup CoveredBy(batches')
      <4>1. CASE i < current
        BY <3>2, <4>1 DEF BatchInv, PlanSound
      <4>2. CASE current <= i
        <5>1. i \in current..len
          BY <1>2, <4>2
        <5> QED
          BY <1>5, <2>2, <3>2, <5>1
      <4> QED
        BY <1>2, <4>1, <4>2
    <3>3. Len(batches') <= 1 => Items \subseteq answered \cup CoveredBy(batches')
      BY <3>1, <3>2
    <3> QED
      BY <1>3, <1>6, <2>4, <3>3 DEF AskSound
  <2> QED
    BY <2>3, <2>4
<1>13. BatchTypeOK'
  BY <1>1, <1>3, <1>4, <1>6, <1>7 DEF BatchTypeOK
<1>14. ~Serial => answered = {}
  BY DEF BatchInv
<1>15. asking'.at # "done" /\ asking'.at # "thrown"
  BY <1>6
<1> QED
  BY <1>3, <1>9, <1>10a, <1>11, <1>12, <1>13, <1>14, <1>15 DEF BatchInv

LEMMA FixedIs ==
  ASSUME BatchInv, asking.at = "plan"
  PROVE  /\ FixedContext \in Nat /\ (~Serial => FixedContext = 0)
         /\ FixedContext = 0 \/ \E j \in Items : j \in {current - 1, current} /\ FixedContext = workload.sizes[j]
<1>1. CASE ~(Serial /\ batches # <<>>)
  BY <1>1 DEF FixedContext
<1>2. CASE Serial /\ batches # <<>>
  <2>1. workload \in Workloads /\ batches \in Seq(Seq(Items)) /\ current \in Items /\ InOrder
    BY <1>2 DEF BatchInv, BatchTypeOK, PlanSound, Serial, InOrder
  <2>2. PICK batch : batch = Last(batches) /\ batch \in Seq(Items) /\ batch # <<>>
    <3>1. PICK len : len = Len(batches) /\ len \in 1..Len(batches) /\ Last(batches) = batches[len]
      BY <1>2, <2>1 DEF Last
    <3>2. batches[len] \in Seq(Items)
      BY <2>1, <3>1
    <3>3. Follows(batches, OverlapSize)
      BY <2>1 DEF BatchInv
    <3>4. batches[len] # <<>>
      BY <3>1, <3>3 DEF Follows
    <3> QED
      BY <3>1, <3>2, <3>4
  <2>3. PICK last \in Items : last = Last(batch)
    <3>1. Len(batch) \in 1..Len(batch) /\ Last(batch) = batch[Len(batch)]
      BY <2>2 DEF Last
    <3> QED
      BY <2>2, <3>1
  <2>4. current \in {last + 1, last + 1 - 1}
    BY <1>2, <2>1, <2>2, <2>3 DEF BatchInv, PlanSound, OverlapSize
  <2>5. last \in {current - 1, current}
    <3>1. last \in Nat
      BY <2>1, <2>3, ItemsAre
    <3> QED
      BY <2>4, <3>1
  <2>6. FixedContext = workload.sizes[last]
    BY <1>2, <2>2, <2>3 DEF FixedContext
  <2>7. workload.sizes[last] \in Nat
    BY <2>1, <2>3, ItemsAre
  <2> QED
    BY <1>2, <2>3, <2>5, <2>6, <2>7
<1> QED
  BY <1>1, <1>2

LEMMA PlanBatchStep ==
  ASSUME BatchInv, PlanBatch
  PROVE  BatchInv'
<1>1. PICK len, batch, n, fixed : /\ len = Len(workload.sizes) /\ batch = NextPlanned /\ n = Count
                                  /\ fixed = FixedContext
  OBVIOUS
<1>2. workload \in Workloads /\ current \in Items /\ asking \in Asking
  BY DEF BatchInv, BatchTypeOK, PlanBatch, PlanSound
<1>3. len \in Nat /\ Items = 1..len /\ current \in 1..len /\ len \in current..len
  BY <1>1, <1>2, ItemsAre
<1>4. IsBatch(batch, current, len, fixed)
  BY <1>1, <1>2, <1>3, BatchIs DEF NextPlanned
<1>5. n = Len(batch) /\ n > 0
  BY <1>1 DEF Count, PlanBatch
<1>6. batch \in Seq(Items) /\ n \in 0..(len - current + 1) /\ Fits(calibrator, batch, fixed)
      /\ (n = len - current + 1 => Range(batch) = current..len)
      /\ (InOrder => \A k \in 1..n : batch[k] = current + k - 1)
  BY <1>4, <1>5 DEF IsBatch, InOrder
<1>7. n \in Nat \ {0}
  BY <1>3, <1>5, <1>6
<1>8. <<batch, fixed>> \in Fitting
  <2>1. fixed \in Nat
    BY <1>1, FixedIs DEF PlanBatch
  <2>2. plannedBy = calibrator
    BY DEF PlanBatch, BatchInv, PlanSound
  <2> QED
    BY <1>6, <2>1, <2>2 DEF Fitting
<1>9. LeftAfter = len - (current - 1 + n)
  BY <1>1 DEF LeftAfter
<1>10. \/ asking' = asking /\ current + n - 1 < len
       \/ /\ asking' = [asking EXCEPT !.at = "ask"] /\ current + n - 1 = len
          /\ Len(batch) = n => Range(batch) = current..len
          /\ batches = <<>> => Len(batch) = n
  <2>1. CASE LeftAfter = 0
    <3>1. current + n - 1 = len /\ n = len - current + 1
      BY <1>3, <1>7, <1>9, <2>1
    <3>2. asking' = [asking EXCEPT !.at = "ask"]
      BY <2>1 DEF PlanBatch
    <3> QED
      BY <1>5, <1>6, <3>1, <3>2
  <2>2. CASE LeftAfter # 0
    <3>1. current + n - 1 < len
      BY <1>3, <1>6, <1>7, <1>9, <2>2
    <3>2. asking' = [asking EXCEPT !.at = "plan"] /\ asking.at = "plan"
      BY <2>2 DEF PlanBatch
    <3>3. asking' = asking
      BY <1>2, <3>2 DEF Asking
    <3> QED
      BY <3>1, <3>3
  <2> QED
    BY <2>1, <2>2
<1>11. batches' = Append(batches, batch) /\ current' = Advance(current, n)
       /\ UNCHANGED <<workload, plannedBy, answered, lost, calibrator>> /\ asking.at = "plan"
  BY <1>1 DEF PlanBatch
<1> QED
  BY <1>1, <1>5, <1>6, <1>7, <1>8, <1>10, <1>11, PlanGrows

LEMMA PlanHalfStep ==
  ASSUME BatchInv, PlanHalf
  PROVE  BatchInv'
<1>1. PICK len, all, count, fixed, n : /\ len = Len(workload.sizes) /\ all = NextPlanned /\ count = Count
                                       /\ fixed = FixedContext /\ n = Half
  OBVIOUS
<1>2. workload \in Workloads /\ current \in Items /\ asking \in Asking
  BY DEF BatchInv, BatchTypeOK, PlanHalf, PlanSound
<1>3. len \in Nat /\ Items = 1..len /\ current \in 1..len /\ len \in current..len
  BY <1>1, <1>2, ItemsAre
<1>4. IsBatch(all, current, len, fixed)
  BY <1>1, <1>2, <1>3, BatchIs DEF NextPlanned
<1>5. count = Len(all) /\ count \in 0..(len - current + 1) /\ count > 0
  BY <1>1, <1>4 DEF Count, PlanHalf, IsBatch
<1>6. n \in 1..(len - current + 1) /\ n < count
  <2>1. PICK left : left = LeftAfter /\ 0 < left /\ left < count /\ left = len - (current - 1 + count)
    BY <1>1 DEF PlanHalf, Balanced, LeftAfter
  <2>2. left \in Int
    BY <1>3, <1>5, <2>1
  <2>3. PICK total : total = Total + OverlapSize + 1 /\ total = count + left + 1
    <3>1. OverlapSize \in {0, 1}
      BY DEF OverlapSize
    <3>2. count + left - OverlapSize + OverlapSize + 1 = count + left + 1
      BY <1>5, <2>2, <3>1
    <3> QED
      BY <1>1, <2>1, <3>2 DEF Total
  <2>4. n = total \div 2 /\ n < count
    BY <1>1, <2>3 DEF Half, PlanHalf, Balanced
  <2>5. total \in Nat /\ total >= 3
    BY <1>5, <2>1, <2>2, <2>3
  <2>6. n \in Int /\ n >= 1
    BY <2>4, <2>5
  <2> QED
    BY <1>3, <1>5, <2>4, <2>6
<1>7. PICK j, batch : j = current + n - 1 /\ batch = Included(ItemsFrom(current, j), fixed)
  OBVIOUS
<1>8. j \in current..len /\ j - current + 1 = n /\ j < len /\ n \in Nat \ {0}
  BY <1>3, <1>5, <1>6, <1>7
<1>9. IsBatch(batch, current, j, fixed)
  BY <1>1, <1>2, <1>7, <1>8, BatchIs
<1>10. batch \in Seq(Items) /\ (Len(batch) # 0 => Fits(calibrator, batch, fixed))
       /\ (InOrder => \A k \in 1..Len(batch) : batch[k] = current + k - 1)
  BY <1>9 DEF IsBatch, InOrder
<1>11. InOrder => Len(batch) = n
  <2>1. SUFFICES ASSUME InOrder PROVE Len(batch) = n
    OBVIOUS
  <2>2. workload.stage # "cross"
    BY <2>1 DEF InOrder
  <2>3. n <= Len(Included(ItemsFrom(current, len), fixed))
    BY <1>1, <1>3, <1>5, <1>6 DEF NextPlanned
  <2>4. len \in current..Len(workload.sizes) /\ n \in 1..(len - current + 1)
    BY <1>1, <1>3, <1>6
  <2>5. Len(Included(ItemsFrom(current, current + n - 1), fixed)) = n
    BY <1>2, <2>2, <2>3, <2>4, HalfFits
  <2> QED
    BY <1>7, <2>5
<1>12. <<batch, fixed>> \in Fitting
  <2>1. fixed \in Nat /\ (~Serial => fixed = 0)
    BY <1>1, FixedIs DEF PlanHalf
  <2>2. Fits(calibrator, batch, fixed)
    <3>1. CASE Len(batch) # 0
      BY <1>10, <3>1
    <3>2. CASE Len(batch) = 0
      <4>1. ~Serial
        BY <1>8, <1>11, <3>2 DEF InOrder, Serial
      <4>2. batch = <<>>
        BY <1>10, <3>2
      <4> QED
        BY <1>2, <2>1, <4>1, <4>2, NothingFits
    <3> QED
      BY <3>1, <3>2
  <2>3. plannedBy = calibrator
    BY DEF PlanHalf, BatchInv, PlanSound
  <2> QED
    BY <1>10, <2>1, <2>2, <2>3 DEF Fitting
<1>13. batches' = Append(batches, batch) /\ current' = Advance(current, n) /\ asking' = asking
       /\ UNCHANGED <<workload, plannedBy, answered, lost, calibrator>> /\ asking.at = "plan"
  BY <1>1, <1>7 DEF PlanHalf
<1>14. InOrder => Len(batch) = n /\ \A k \in 1..n : batch[k] = current + k - 1
  BY <1>10, <1>11
<1>15. asking' = asking /\ current + n - 1 < len
  BY <1>7, <1>8, <1>13
<1> QED
  BY <1>1, <1>8, <1>10, <1>12, <1>13, <1>14, <1>15, PlanGrows

LEMMA BeginPlanStep ==
  ASSUME BatchInv, BeginPlan
  PROVE  BatchInv'
<1>1. PICK left : /\ left = IF Serial THEN Items \ answered ELSE Items
                  /\ IF left = {} THEN asking' = [NotAsking EXCEPT !.at = "done"] /\ UNCHANGED current
                     ELSE asking' = [NotAsking EXCEPT !.at = "plan"] /\ current' = Min(left)
  BY DEF BeginPlan
<1>2. /\ asking.at = "idle" /\ batches' = <<>> /\ UNCHANGED <<workload, answered, lost, calibrator>>
      /\ plannedBy' = calibrator
      /\ workload \in Workloads /\ answered \in SUBSET Items /\ lost \in BOOLEAN
      /\ calibrator \in Calibration /\ current \in Nat /\ (~Serial => answered = {})
  BY DEF BeginPlan, BatchInv, BatchTypeOK
<1>3. /\ Items' = Items /\ Serial' = Serial /\ OverlapSize' = OverlapSize /\ InOrder' = InOrder
  BY <1>2, WorkloadStays
<1>4. left \in SUBSET Items /\ left \in SUBSET Nat
  BY <1>1, <1>2, ItemsAre
<1>5. Follows(<<>>, OverlapSize) /\ KeepTo(workload, <<>>, Fitting') /\ <<>> \in Seq(Seq(Items))
  BY DEF Follows, KeepTo
<1>6. CASE left = {}
  <2>1. asking' = [NotAsking EXCEPT !.at = "done"] /\ current' = current
    BY <1>1, <1>6
  <2>2. asking' \in Asking /\ asking'.at = "done"
    BY <2>1 DEF NotAsking, Asking, StageAt
  <2>3. answered = Items
    BY <1>1, <1>2, <1>6
  <2>4. BatchTypeOK'
    BY <1>2, <1>3, <1>5, <2>1, <2>2 DEF BatchTypeOK
  <2> QED
    BY <1>2, <1>3, <1>5, <2>2, <2>3, <2>4 DEF BatchInv
<1>7. CASE left # {}
  <2>1. asking' = [NotAsking EXCEPT !.at = "plan"] /\ current' = Min(left)
    BY <1>1, <1>7
  <2>2. asking' \in Asking /\ asking'.at = "plan" /\ asking'.next = 1
    BY <2>1 DEF NotAsking, Asking, StageAt
  <2>3. current' \in left /\ \A y \in left : current' <= y
    BY <1>4, <1>7, <2>1, LeastIsThere
  <2>4. ASSUME NEW i \in Items, i < current' PROVE i \in answered
    <3>1. i \in Nat /\ current' \in Nat
      <4>1. Items = 1..Len(workload.sizes)
        BY <1>2, ItemsAre
      <4>2. current' \in Nat
        BY <1>4, <2>3
      <4> QED
        BY <2>4, <4>1, <4>2
    <3>2. i \notin left
      BY <2>3, <2>4, <3>1
    <3>3. Serial
      BY <1>1, <3>2
    <3> QED
      BY <1>1, <3>2, <3>3
  <2>5. PlanSound'
    <3>1. current' \in Items
      BY <1>4, <2>3
    <3> QED
      BY <1>2, <1>3, <1>5, <2>2, <2>4, <3>1 DEF PlanSound
  <2>6. BatchTypeOK'
    <3>1. current' \in Nat
      BY <1>4, <2>3
    <3> QED
      BY <1>2, <1>3, <1>5, <2>2, <3>1 DEF BatchTypeOK
  <2> QED
    BY <1>2, <1>3, <1>5, <2>2, <2>5, <2>6 DEF BatchInv
<1> QED
  BY <1>6, <1>7

LEMMA CannotFitStep ==
  ASSUME BatchInv, CannotFit
  PROVE  BatchInv'
<1>1. /\ asking.at = "plan" /\ asking' = [asking EXCEPT !.at = "thrown"]
      /\ UNCHANGED <<workload, batches, plannedBy, current, answered, lost, calibrator>>
  BY DEF CannotFit
<1>2. /\ workload \in Workloads /\ current \in Items /\ asking \in Asking /\ calibrator \in Calibration
  BY <1>1 DEF BatchInv, BatchTypeOK, PlanSound
<1>3. calibrator.multiplier > 6
  <2>1. PICK len, fixed, i : /\ len = Len(workload.sizes) /\ fixed = FixedContext
                             /\ i = Prioritize(ItemsFrom(current, len))[1]
    OBVIOUS
  <2>2. len \in Nat /\ Items = 1..len /\ len \in current..len
    BY <1>2, <2>1, ItemsAre
  <2>3. IsBatch(NextPlanned, current, len, fixed)
    BY <1>2, <2>1, <2>2, BatchIs DEF NextPlanned
  <2>4. ~Fits(calibrator, <<i>>, fixed) /\ i \in current..len
    BY <2>1, <2>3 DEF IsBatch, CannotFit, Count
  <2>5. i \in Items
    BY <1>2, <2>2, <2>4
  <2>6. fixed = 0 \/ (Serial /\ \E j \in Items : j \in {i - 1, i} /\ fixed = workload.sizes[j])
    <3>1. CASE ~Serial
      BY <1>1, <2>1, <3>1, FixedIs
    <3>2. CASE Serial
      <4>1. Prioritize(ItemsFrom(current, len)) = ItemsFrom(current, len)
        BY <3>2 DEF Prioritize, Serial
      <4>2. len - current + 1 \in Nat /\ 1 \in 1..(len - current + 1) /\ current + 1 - 1 = current
        BY <1>2, <2>2
      <4>3. i = current
        <5>1. \A k \in 1..(len - current + 1) : ItemsFrom(current, len)[k] = current + k - 1
          BY <1>2, <2>1, <2>2, ItemsFromAre
        <5> QED
          BY <2>1, <4>1, <4>2, <5>1
      <4> QED
        BY <1>1, <2>1, <3>2, <4>3, FixedIs
    <3> QED
      BY <3>1, <3>2
  <2>7. ~(calibrator.multiplier <= 6)
    BY <1>2, <2>4, <2>5, <2>6, OneFits
  <2>8. calibrator.multiplier \in Nat
    BY <1>2 DEF Calibration
  <2> QED
    BY <2>7, <2>8
<1>4. asking' \in Asking /\ asking'.at = "thrown"
  BY <1>1, <1>2 DEF Asking, StageAt
<1>5. /\ Items' = Items /\ Serial' = Serial /\ OverlapSize' = OverlapSize /\ InOrder' = InOrder
  BY <1>1, WorkloadStays
<1>6. BatchTypeOK'
  BY <1>1, <1>4, <1>5 DEF BatchInv, BatchTypeOK
<1>7. Fitting' = Fitting
  BY <1>1, FittingStays
<1> QED
  BY <1>1, <1>3, <1>4, <1>5, <1>6, <1>7 DEF BatchInv, Uncalibrated

-----------------------------------------------------------------------------
(* The calls. *)

LEMMA RememberIs ==
  ASSUME NEW S, NEW history \in Seq(S), NEW outcome \in S
  PROVE  Remember(history, outcome) \in Seq(S)
<1>1. PICK longer, from : /\ longer = Append(history, outcome)
                          /\ from = IF Len(longer) > EaseAfter THEN 2 ELSE 1
  OBVIOUS
<1>2. longer \in Seq(S) /\ Len(longer) \in Nat /\ from \in {1, 2}
  BY <1>1
<1>3. \A i \in from..Len(longer) : longer[i] \in S
  BY <1>2
<1>4. SubSeq(longer, from, Len(longer)) \in Seq(S)
  BY <1>2, <1>3, SubSeqProperties
<1> QED
  BY <1>1, <1>4 DEF Remember

LEMMA CalibratorIs ==
  ASSUME calibrator \in Calibration, NEW under \in {"under", "over"}
  PROVE  /\ Eased([calibrator EXCEPT !.history = Remember(@, under)]) \in Calibration
         /\ BackedOff(calibrator) \in Calibration
<1>1. calibrator.history \in Seq({"hit", "under", "over"}) /\ calibrator.multiplier \in Nat
  BY DEF Calibration
<1>2. /\ Remember(calibrator.history, under) \in Seq({"hit", "under", "over"})
      /\ Remember(calibrator.history, "hit") \in Seq({"hit", "under", "over"})
  BY <1>1, RememberIs
<1>3. PICK c : c = [calibrator EXCEPT !.history = Remember(@, under)]
  OBVIOUS
<1>4. c \in Calibration
  BY <1>2, <1>3 DEF Calibration
<1>5. Eased(c) \in Calibration
  <2>1. CASE Eased(c) = c
    BY <1>4, <2>1
  <2>2. CASE Eased(c) # c
    <3>1. c.multiplier > 4 /\ Eased(c) = [c EXCEPT !.multiplier = @ - 1]
      BY <2>2 DEF Eased
    <3>2. c.multiplier - 1 \in Nat
      BY <1>4, <3>1 DEF Calibration
    <3> QED
      BY <1>4, <3>1, <3>2 DEF Calibration
  <2> QED
    BY <2>1, <2>2
<1>6. Max({(calibrator.multiplier * 3) \div 2, 8}) \in Nat
  <2>1. PICK m : m = (calibrator.multiplier * 3) \div 2
    OBVIOUS
  <2>2. m \in Nat
    BY <1>1, <2>1
  <2>3. {m, 8} \in SUBSET (0..(m + 8)) /\ {m, 8} # {} /\ m + 8 \in Nat
    BY <2>2
  <2>4. Max({m, 8}) \in {m, 8}
    BY <2>3, GreatestIsThere
  <2> QED
    BY <2>1, <2>2, <2>4
<1>7. BackedOff(calibrator) \in Calibration
  BY <1>2, <1>6 DEF BackedOff, Calibration
<1> QED
  BY <1>3, <1>5, <1>7

\* A step that is not of a plan: what it has to keep.
LEMMA PlanStays ==
  ASSUME BatchInv, UNCHANGED <<workload, batches, plannedBy, current>>, asking' \in Asking, answered' \in SUBSET Items,
         lost' \in BOOLEAN, calibrator' \in Calibration, asking'.at \notin {"plan", "thrown"},
         asking'.at = "ask" => AskSound',
         ~Serial /\ asking'.at # "done" => answered' = {},
         asking'.at = "done" /\ (InOrder \/ Len(batches) <= 1) /\ ~lost' => answered' = Items
  PROVE  BatchInv'
<1>1. Items' = Items /\ Serial' = Serial /\ OverlapSize' = OverlapSize /\ InOrder' = InOrder
  BY WorkloadStays
<1>2. BatchTypeOK'
  BY <1>1 DEF BatchInv, BatchTypeOK
<1>3. (InOrder => Follows(batches, OverlapSize)) /\ KeepTo(workload, batches, Fitting) /\ Fitting' = Fitting
  BY FittingStays DEF BatchInv
<1> QED
  BY <1>1, <1>2, <1>3 DEF BatchInv

\* What is pending is the first batch that is not all answered, if there is one.
LEMMA PendingIs ==
  ASSUME BatchInv, asking.at = "ask"
  PROVE  /\ Pending # {} => /\ Min(Pending) \in 1..Len(batches) /\ Range(Batch) \in SUBSET Items
                            /\ \A b \in 1..Len(batches) : b < Min(Pending) => Range(batches[b]) \subseteq answered
         /\ Pending = {} => \A b \in 1..Len(batches) : Range(batches[b]) \subseteq answered
<1>1. /\ batches \in Seq(Seq(Items)) /\ asking.next \in Nat \ {0}
      /\ \A b \in 1..Len(batches) : b < asking.next => Range(batches[b]) \subseteq answered
  BY DEF BatchInv, BatchTypeOK, Asking, AskSound
<1>2. PICK len, next : len = Len(batches) /\ next = asking.next
  OBVIOUS
<1>3. len \in Nat /\ next \in Nat \ {0}
  BY <1>1, <1>2
<1>4. Pending \in SUBSET (1..len) /\ Pending \in SUBSET Nat
  BY <1>2, <1>3 DEF Pending
<1>5. ASSUME NEW b \in 1..len, b \notin Pending PROVE Range(batches[b]) \subseteq answered
  <2>1. b < next \/ b \in next..len
    BY <1>3
  <2> QED
    BY <1>1, <1>2, <1>5, <2>1 DEF Pending
<1>6. ASSUME Pending # {}
      PROVE  /\ Min(Pending) \in 1..len /\ Range(Batch) \in SUBSET Items
             /\ \A b \in 1..len : b < Min(Pending) => Range(batches[b]) \subseteq answered
  <2>1. PICK first : first = Min(Pending)
    OBVIOUS
  <2>2. first \in Pending /\ \A y \in Pending : first <= y
    BY <1>4, <1>6, <2>1, LeastIsThere
  <2>3. first \in 1..len
    BY <1>4, <2>2
  <2>4. Range(Batch) \in SUBSET Items
    <3>1. batches[first] \in Seq(Items)
      BY <1>1, <1>2, <2>3
    <3>2. PICK batch : batch = batches[first] /\ batch \in Seq(Items)
      BY <3>1
    <3>3. Range(batch) \in SUBSET Items
      BY <3>2 DEF Range
    <3> QED
      BY <2>1, <3>2, <3>3 DEF Batch
  <2>5. ASSUME NEW b \in 1..len, b < first PROVE Range(batches[b]) \subseteq answered
    <3>1. b \notin Pending
      BY <1>3, <2>2, <2>3, <2>5
    <3> QED
      BY <1>5, <3>1
  <2> QED
    BY <2>1, <2>3, <2>4, <2>5
<1> QED
  BY <1>2, <1>5, <1>6

LEMMA AnsweredStep ==
  ASSUME BatchInv, NEW under \in {"under", "over"}, Answered(under)
  PROVE  BatchInv'
<1>1. /\ asking.at = "ask" /\ Serial /\ Pending # {}
      /\ calibrator' = Eased([calibrator EXCEPT !.history = Remember(@, under)])
      /\ UNCHANGED <<workload, batches, plannedBy, current, lost>>
  BY DEF Answered
<1>2. /\ asking \in Asking /\ answered \in SUBSET Items /\ lost \in BOOLEAN /\ calibrator \in Calibration /\ AskSound
  BY <1>1 DEF BatchInv, BatchTypeOK
<1>3. PICK first, range : /\ first = Min(Pending) /\ range = Range(Batch) /\ range = Range(batches[first])
                          /\ first \in 1..Len(batches) /\ range \in SUBSET Items
                          /\ \A b \in 1..Len(batches) : b < first => Range(batches[b]) \subseteq answered
  BY <1>1, PendingIs DEF Batch
<1>4. calibrator' \in Calibration
  BY <1>1, <1>2, CalibratorIs
<1>5. CoveredBy(batches') = CoveredBy(batches) /\ Items' = Items /\ InOrder' = InOrder /\ batches' = batches
  BY <1>1, WorkloadStays
<1>6. CASE asking.parts > 1
  <2>1. asking' = [asking EXCEPT !.parts = @ - 1, !.attempt = 1] /\ answered' = answered
    BY <1>6 DEF Answered
  <2>2. asking' \in Asking /\ asking'.at = "ask" /\ asking'.next = asking.next
    <3>1. asking.parts - 1 \in Nat
      BY <1>2, <1>6 DEF Asking
    <3>2. asking' \in Asking
      BY <1>2, <2>1, <3>1 DEF Asking
    <3>3. asking'.at = asking.at /\ asking'.next = asking.next
      BY <1>2, <2>1 DEF Asking
    <3> QED
      BY <1>1, <3>2, <3>3
  <2>3. AskSound'
    BY <1>2, <1>5, <2>1, <2>2 DEF AskSound
  <2> QED
    BY <1>1, <1>2, <1>4, <2>1, <2>2, <2>3, PlanStays
<1>7. CASE ~(asking.parts > 1)
  <2>1. answered' = answered \cup range
    BY <1>3, <1>7 DEF Answered
  <2>2. asking' = [asking EXCEPT !.next = first + 1, !.parts = 0, !.attempt = 1]
    BY <1>3, <1>7 DEF Answered
  <2>3. first \in Nat /\ first + 1 \in Nat \ {0}
    BY <1>3
  <2>4. asking' \in Asking /\ asking'.at = "ask" /\ asking'.next = first + 1
    BY <1>1, <1>2, <2>2, <2>3 DEF Asking
  <2>5. ASSUME NEW b \in 1..Len(batches), b < first + 1 PROVE Range(batches[b]) \subseteq answered'
    <3>1. b < first \/ b = first
      BY <2>3, <2>5
    <3> QED
      BY <1>3, <2>1, <3>1
  <2>6. AskSound'
    BY <1>2, <1>5, <2>1, <2>4, <2>5 DEF AskSound
  <2>7. answered' \in SUBSET Items
    BY <1>2, <1>3, <2>1
  <2> QED
    BY <1>1, <1>2, <1>4, <2>4, <2>6, <2>7, PlanStays
<1> QED
  BY <1>6, <1>7

\* What asks about no batch more changes only where the stage is.
LEMMA NoAnswerStep ==
  ASSUME BatchInv, MaxTokens \/ CallFails \/ StageStops \/ ProcessRestarts
  PROVE  BatchInv'
<1>1. UNCHANGED <<workload, batches, plannedBy, current, answered, lost>>
  BY DEF MaxTokens, CallFails, StageStops, ProcessRestarts
<1>2. /\ asking \in Asking /\ answered \in SUBSET Items /\ lost \in BOOLEAN /\ calibrator \in Calibration
  BY DEF BatchInv, BatchTypeOK
<1>3. CoveredBy(batches') = CoveredBy(batches) /\ Items' = Items /\ InOrder' = InOrder /\ batches' = batches
  BY <1>1, WorkloadStays
<1>4. calibrator' \in Calibration
  <2>1. Uncalibrated \in Calibration
    BY DEF Uncalibrated, Calibration
  <2>2. calibrator' = BackedOff(calibrator) \/ calibrator' = calibrator \/ calibrator' = Uncalibrated
    BY DEF MaxTokens, CallFails, StageStops, ProcessRestarts
  <2> QED
    BY <1>2, <2>1, <2>2, CalibratorIs
<1>5. NotAsking \in Asking /\ NotAsking.at = "idle"
  BY DEF NotAsking, Asking, StageAt
<1>6. /\ asking' \in Asking
      /\ \/ asking'.at = "idle" /\ asking.at # "done"
         \/ asking'.at = "done" /\ asking.at = "done"
         \/ asking'.at = "ask" /\ asking.at = "ask" /\ asking'.next = asking.next
  <2>1. CASE MaxTokens
    <3>1. asking.at = "ask"
      BY <2>1 DEF MaxTokens
    <3>2. PICK parts : /\ parts = (IF Len(Batch) = 1 THEN 2 ELSE Len(Batch))
                       /\ asking' = NotAsking \/ asking' = [asking EXCEPT !.parts = parts, !.attempt = 1]
      BY <2>1, Zenon DEF MaxTokens
    <3>3. parts \in Nat
      <4>1. Pending # {}
        BY <2>1 DEF MaxTokens
      <4>2. batches \in Seq(Seq(Items)) /\ Min(Pending) \in 1..Len(batches)
        BY <3>1, <4>1, PendingIs DEF BatchInv, BatchTypeOK
      <4>3. PICK batch : batch = Batch /\ batch \in Seq(Items)
        BY <4>2 DEF Batch
      <4>4. Len(batch) \in Nat
        BY <4>3
      <4> QED
        BY <3>2, <4>3, <4>4
    <3>4. CASE asking' = NotAsking
      BY <1>5, <3>1, <3>4
    <3>5. CASE asking' = [asking EXCEPT !.parts = parts, !.attempt = 1]
      <4>1. asking' \in Asking
        BY <1>2, <3>3, <3>5 DEF Asking
      <4>2. asking'.at = asking.at /\ asking'.next = asking.next
        BY <1>2, <3>5 DEF Asking
      <4> QED
        BY <3>1, <4>1, <4>2
    <3> QED
      BY <3>2, <3>4, <3>5
  <2>2. CASE CallFails
    <3>1. asking.at = "ask" /\ (asking' = NotAsking \/ asking' = [asking EXCEPT !.attempt = @ + 1])
      BY <2>2 DEF CallFails
    <3> QED
      BY <1>2, <1>5, <3>1 DEF Asking
  <2>3. CASE StageStops
    BY <1>5, <2>3 DEF StageStops
  <2>4. CASE ProcessRestarts
    BY <1>2, <1>5, <2>4 DEF ProcessRestarts
  <2> QED
    BY <2>1, <2>2, <2>3, <2>4
<1>7. asking'.at = "ask" => AskSound'
  <2>1. asking.at = "ask" => AskSound
    BY DEF BatchInv
  <2> QED
    BY <1>1, <1>3, <1>6, <2>1 DEF AskSound
<1>8. ~Serial /\ asking'.at # "done" => answered' = {}
  BY <1>1, <1>6 DEF BatchInv
<1>9. asking'.at = "done" /\ (InOrder \/ Len(batches) <= 1) /\ ~lost' => answered' = Items
  BY <1>1, <1>6 DEF BatchInv
<1> QED
  BY <1>1, <1>2, <1>4, <1>6, <1>7, <1>8, <1>9, PlanStays

LEMMA EndStep ==
  ASSUME BatchInv, AllAsked \/ AllAnswered \/ SomeCutShort
  PROVE  BatchInv'
<1>1. /\ asking.at = "ask" /\ asking' = [asking EXCEPT !.at = "done"]
      /\ UNCHANGED <<workload, batches, plannedBy, current, calibrator>>
  BY DEF AllAsked, AllAnswered, SomeCutShort
<1>2. /\ asking \in Asking /\ answered \in SUBSET Items /\ lost \in BOOLEAN /\ calibrator \in Calibration
      /\ batches \in Seq(Seq(Items)) /\ AskSound /\ (~Serial => answered = {})
  BY <1>1 DEF BatchInv, BatchTypeOK
<1>3. asking' \in Asking /\ asking'.at = "done"
  BY <1>1, <1>2 DEF Asking, StageAt
<1>4. CoveredBy(batches) \in SUBSET Items
  <2>1. ASSUME NEW b \in 1..Len(batches) PROVE Range(batches[b]) \in SUBSET Items
    <3>1. PICK batch : batch = batches[b] /\ batch \in Seq(Items)
      BY <1>2
    <3> QED
      BY <3>1 DEF Range
  <2> QED
    BY <2>1 DEF CoveredBy
<1>5. CASE AllAsked
  <2>1. Serial /\ Pending = {} /\ UNCHANGED <<answered, lost>>
    BY <1>5 DEF AllAsked
  <2>2. CoveredBy(batches) \subseteq answered
    BY <1>1, <2>1, PendingIs DEF CoveredBy
  <2>3. answered = Items
    <3>1. InOrder
      BY <2>1 DEF Serial, InOrder
    <3> QED
      BY <1>2, <2>2, <3>1 DEF AskSound
  <2> QED
    BY <1>1, <1>2, <1>3, <2>1, <2>3, PlanStays
<1>6. CASE AllAnswered
  <2>1. answered' = CoveredBy(batches)
    <3>1. DOMAIN batches = 1..Len(batches)
      BY <1>2
    <3> QED
      BY <1>6, <3>1 DEF AllAnswered, CoveredBy
  <2>2. ~Serial /\ answered = {} /\ UNCHANGED lost
    BY <1>2, <1>6 DEF AllAnswered
  <2>3. InOrder \/ Len(batches) <= 1 => answered' = Items
    BY <1>2, <1>4, <2>1, <2>2 DEF AskSound
  <2>4. answered' \in SUBSET Items
    BY <1>4, <2>1
  <2> QED
    BY <1>1, <1>2, <1>3, <2>2, <2>3, <2>4, PlanStays
<1>7. CASE SomeCutShort
  <2>1. lost' = TRUE /\ answered' = answered
    BY <1>7 DEF SomeCutShort
  <2> QED
    BY <1>1, <1>2, <1>3, <2>1, PlanStays
<1> QED
  BY <1>5, <1>6, <1>7

LEMMA BatchStart == BatchInit => BatchInv
<1>1. SUFFICES ASSUME BatchInit PROVE BatchInv
  OBVIOUS
<1>2. /\ workload \in Workloads /\ batches = <<>> /\ current = 1 /\ asking = NotAsking /\ answered = {}
      /\ lost = FALSE /\ calibrator = Uncalibrated
  BY <1>1 DEF BatchInit
<1>3. NotAsking \in Asking /\ NotAsking.at = "idle" /\ Uncalibrated \in Calibration
  BY DEF NotAsking, Asking, StageAt, Uncalibrated, Calibration
<1>4. <<>> \in Seq(Seq(Items)) /\ Follows(<<>>, OverlapSize) /\ KeepTo(workload, <<>>, Fitting)
  BY DEF Follows, KeepTo
<1> QED
  BY <1>2, <1>3, <1>4 DEF BatchInv, BatchTypeOK

LEMMA BatchInvariant == BatchSpec => []BatchInv
<1>1. BatchInv /\ [BatchNext]_batchVars => BatchInv'
  <2>1. SUFFICES ASSUME BatchInv, [BatchNext]_batchVars PROVE BatchInv'
    OBVIOUS
  <2>2. CASE BeginPlan
    BY <2>1, <2>2, BeginPlanStep
  <2>3. CASE CannotFit
    BY <2>1, <2>3, CannotFitStep
  <2>4. CASE PlanBatch
    BY <2>1, <2>4, PlanBatchStep
  <2>5. CASE PlanHalf
    BY <2>1, <2>5, PlanHalfStep
  <2>6. CASE \E under \in {"under", "over"} : Answered(under)
    BY <2>1, <2>6, AnsweredStep
  <2>7. CASE MaxTokens \/ CallFails \/ StageStops \/ ProcessRestarts
    BY <2>1, <2>7, NoAnswerStep
  <2>8. CASE AllAsked \/ AllAnswered \/ SomeCutShort
    BY <2>1, <2>8, EndStep
  <2>9. CASE UNCHANGED batchVars
    <3>1. UNCHANGED <<workload, batches, plannedBy, current, asking, answered, lost, calibrator>>
      BY <2>9 DEF batchVars
    <3>2. /\ Items' = Items /\ Serial' = Serial /\ OverlapSize' = OverlapSize /\ InOrder' = InOrder
          /\ Fitting' = Fitting
      BY <3>1, WorkloadStays, FittingStays
    <3>3. PlanSound' = PlanSound /\ AskSound' = AskSound /\ BatchTypeOK' = BatchTypeOK
      BY <3>1, <3>2 DEF PlanSound, AskSound, BatchTypeOK
    <3> QED
      BY <2>1, <3>1, <3>2, <3>3 DEF BatchInv
  <2> QED
    BY <2>1, <2>2, <2>3, <2>4, <2>5, <2>6, <2>7, <2>8, <2>9 DEF BatchNext
<1> QED
  BY <1>1, BatchStart, PTL DEF BatchSpec

\* Whatever is cut short, fails or is resumed, a plan keeps to the budgets and skips no
\* item, and a stage that ends with results has them of every item.
THEOREM EveryItemIsAsked == BatchSpec => []EveryItemAsked
<1>1. BatchInv => EveryItemAsked
  <2>1. SUFFICES ASSUME BatchInv PROVE EveryItemAsked
    OBVIOUS
  <2>2. batches \in Seq(Seq(Items)) /\ Len(batches) \in Nat /\ DOMAIN batches = 1..Len(batches)
    BY <2>1 DEF BatchInv, BatchTypeOK
  <2>3. ASSUME NEW b \in DOMAIN batches
        PROVE  Fits(plannedBy, batches[b], IF Serial /\ b > 1 THEN workload.sizes[Last(batches[b - 1])] ELSE 0)
    <3>1. PICK fixed : fixed = IF Serial /\ b > 1 THEN workload.sizes[Last(batches[b - 1])] ELSE 0
      OBVIOUS
    <3>2. fixed = ContextOf(workload, batches, b)
      BY <3>1 DEF ContextOf, Serial
    <3>3. <<batches[b], fixed>> \in Fitting
      BY <2>1, <2>2, <2>3, <3>2 DEF BatchInv, KeepTo
    <3> QED
      BY <3>1, <3>3 DEF Fitting
  <2>4. ASSUME InOrder \/ Len(batches) <= 1, NEW b \in 2..Len(batches)
        PROVE  Head(batches[b]) \in {Last(batches[b - 1]) + 1, Last(batches[b - 1]) + 1 - OverlapSize}
    <3>1. InOrder /\ b \in 1..Len(batches) /\ b > 1
      BY <2>2, <2>4
    <3>2. Follows(batches, OverlapSize)
      BY <2>1, <3>1 DEF BatchInv
    <3> QED
      BY <3>1, <3>2 DEF Follows
  <2>5. asking.at = "done" /\ (InOrder \/ Len(batches) <= 1) /\ ~lost => answered = Items
    BY <2>1 DEF BatchInv
  <2>6. asking.at = "thrown" => calibrator.multiplier > Uncalibrated.multiplier
    BY <2>1 DEF BatchInv
  <2> QED
    BY <2>3, <2>4, <2>5, <2>6 DEF EveryItemAsked, InOrder
<1> QED
  BY <1>1, BatchInvariant, PTL

-----------------------------------------------------------------------------
(* TextAnchors: where the segments end. *)

LEMMA LargerOf ==
  ASSUME NEW a \in Int, NEW b \in Int
  PROVE  Max({a, b}) \in {a, b} /\ Max({a, b}) >= a /\ Max({a, b}) >= b
<1>1. \E x \in {a, b} : \A y \in {a, b} : x >= y
  <2>1. a >= b \/ b >= a
    OBVIOUS
  <2> QED
    BY <2>1
<1> QED
  BY <1>1 DEF Max

LEMMA SmallerOf ==
  ASSUME NEW a \in Int, NEW b \in Int
  PROVE  Min({a, b}) \in {a, b} /\ Min({a, b}) <= a /\ Min({a, b}) <= b
<1>1. \E x \in {a, b} : \A y \in {a, b} : x <= y
  <2>1. a >= b \/ b >= a
    OBVIOUS
  <2> QED
    BY <2>1
<1> QED
  BY <1>1 DEF Min

\* s is S from the least to the greatest.
Enumerates(s, S) ==
  /\ s \in Seq(S)
  /\ \A i, j \in 1..Len(s) : i < j => s[i] < s[j]
  /\ \A x \in S : \E i \in 1..Len(s) : s[i] = x

LEMMA AscendingIs ==
  ASSUME NEW S \in SUBSET Nat, IsFiniteSet(S)
  PROVE  Enumerates(Ascending(S), S)
<1>1. PICK n, below : n = Cardinality(S) /\ below = [x \in S |-> Cardinality({d \in S : d < x})]
  OBVIOUS
<1>2. n \in Nat
  BY <1>1, FS_CardinalityType
<1>3. ASSUME NEW x \in S PROVE below[x] \in 0..(n - 1)
  <2>1. {d \in S : d < x} \in SUBSET (S \ {x})
    OBVIOUS
  <2>2. IsFiniteSet(S \ {x}) /\ Cardinality(S \ {x}) = n - 1
    BY <1>1, FS_RemoveElement
  <2>3. IsFiniteSet({d \in S : d < x}) /\ Cardinality({d \in S : d < x}) <= n - 1
    BY <2>1, <2>2, FS_Subset
  <2>4. Cardinality({d \in S : d < x}) \in Nat
    BY <2>3, FS_CardinalityType
  <2> QED
    BY <1>1, <1>2, <2>3, <2>4
<1>4. ASSUME NEW x \in S, NEW y \in S, x < y PROVE below[x] < below[y]
  <2>1. PICK X, Y : X = {d \in S : d < x} /\ Y = {d \in S : d < y}
    OBVIOUS
  <2>2. X \in SUBSET (Y \ {x}) /\ x \in Y /\ Y \in SUBSET S
    <3>1. \A d \in S : d \in Nat /\ (d < x => d < y /\ d # x)
      BY <1>4
    <3> QED
      BY <1>4, <2>1, <3>1
  <2>3. IsFiniteSet(Y)
    BY <2>2, FS_Subset
  <2>4. IsFiniteSet(Y \ {x}) /\ Cardinality(Y \ {x}) = Cardinality(Y) - 1
    BY <2>2, <2>3, FS_RemoveElement
  <2>5. Cardinality(X) <= Cardinality(Y) - 1
    BY <2>2, <2>4, FS_Subset
  <2>6. below[x] = Cardinality(X) /\ below[y] = Cardinality(Y)
    BY <1>1, <2>1
  <2>7. below[x] \in 0..(n - 1) /\ below[y] \in 0..(n - 1)
    BY <1>3
  <2> QED
    BY <2>5, <2>6, <2>7
<1>5. ASSUME NEW x \in S, NEW y \in S, x # y PROVE below[x] # below[y]
  <2>1. x < y \/ y < x
    BY <1>5
  <2>2. below[x] \in 0..(n - 1) /\ below[y] \in 0..(n - 1)
    BY <1>3
  <2> QED
    BY <1>4, <2>1, <2>2
<1>6. \A k \in 0..(n - 1) : \E x \in S : below[x] = k
  <2>1. IsFiniteSet(0..(n - 1)) /\ Cardinality(0..(n - 1)) = n
    <3>1. 0 \in Int /\ n - 1 \in Int
      BY <1>2
    <3>2. IsFiniteSet(0..(n - 1)) /\ Cardinality(0..(n - 1)) = IF 0 > n - 1 THEN 0 ELSE (n - 1) - 0 + 1
      BY <3>1, FS_Interval
    <3> QED
      BY <1>2, <3>2
  <2>2. below \in Injection(S, 0..(n - 1))
    BY <1>1, <1>3, <1>5 DEF Injection, IsInjective
  <2>3. below \in Surjection(S, 0..(n - 1))
    BY <1>1, <2>1, <2>2, FS_Injection
  <2> QED
    BY <2>3 DEF Surjection
<1>7. PICK order : order = [k \in 1..n |-> CHOOSE x \in S : Cardinality({d \in S : d < x}) = k - 1]
  OBVIOUS
<1>8. ASSUME NEW k \in 1..n PROVE order[k] \in S /\ below[order[k]] = k - 1
  <2>1. k - 1 \in 0..(n - 1)
    BY <1>2
  <2>2. \E x \in S : Cardinality({d \in S : d < x}) = k - 1
    BY <1>1, <1>6, <2>1
  <2> QED
    BY <1>1, <1>7, <2>2
<1>9. order \in Seq(S) /\ Len(order) = n
  <2>1. order \in [1..n -> S]
    BY <1>7, <1>8
  <2> QED
    BY <1>2, <2>1
<1>10. ASSUME NEW i \in 1..n, NEW j \in 1..n, i < j PROVE order[i] < order[j]
  <2>1. order[i] \in S /\ order[j] \in S /\ below[order[i]] = i - 1 /\ below[order[j]] = j - 1
    BY <1>8
  <2>2. PICK x, y : x = order[i] /\ y = order[j] /\ x \in S /\ y \in S /\ below[x] = i - 1 /\ below[y] = j - 1
    BY <2>1
  <2>3. below[x] < below[y]
    BY <1>2, <1>10, <2>2
  <2>4. below[x] \in 0..(n - 1) /\ below[y] \in 0..(n - 1)
    BY <1>3, <2>2
  <2>5. ~(y < x) /\ x # y
    BY <1>4, <2>2, <2>3, <2>4
  <2> QED
    BY <2>2, <2>5
<1>11. ASSUME NEW x \in S PROVE \E k \in 1..n : order[k] = x
  <2>1. below[x] + 1 \in 1..n /\ (below[x] + 1) - 1 = below[x]
    BY <1>2, <1>3
  <2>2. order[below[x] + 1] \in S /\ below[order[below[x] + 1]] = below[x]
    BY <1>8, <2>1
  <2> QED
    BY <1>5, <2>1, <2>2
<1>12. Ascending(S) = order
  BY <1>1, <1>7 DEF Ascending
<1> QED
  BY <1>9, <1>10, <1>11, <1>12 DEF Enumerates

\* A boundary that is kept is in the text.
LEMMA KeptAre ==
  ASSUME NEW text \in Seq(Char)
  PROVE  FilterBoundariesBySize(text) \in SUBSET (1..Len(text))
<1>1. PICK len, all : len = Len(text) /\ all = Boundaries(text)
  OBVIOUS
<1>2. len \in Nat
  BY <1>1
<1>3. PICK Step : Step = [p \in Nat \X SUBSET Nat |->
                            IF p[1] \in all /\ p[1] - Max({0} \cup p[2]) >= TargetMin
                            THEN p[2] \cup {p[1]} ELSE p[2]]
  OBVIOUS
<1>4. Step \in [Nat \X SUBSET Nat -> SUBSET Nat]
  BY <1>3
<1>5. PICK g \in [Nat -> SUBSET Nat] : GoesBy(g, {}, Step)
  <2>1. {} \in SUBSET Nat
    OBVIOUS
  <2> QED
    BY ONLY <1>4, <2>1, Recursion
<1>6. PICK f : f = [n \in 0..len |-> g[n]]
  OBVIOUS
<1>7. f = [b \in 0..len |->
             IF b = 0 THEN {}
             ELSE IF b \in all /\ b - Max({0} \cup f[b - 1]) >= TargetMin
             THEN f[b - 1] \cup {b} ELSE f[b - 1]]
  <2>1. ASSUME NEW n \in 0..len, n # 0
        PROVE  f[n] = IF n \in all /\ n - Max({0} \cup f[n - 1]) >= TargetMin
                      THEN f[n - 1] \cup {n} ELSE f[n - 1]
    <3>1. n - 1 \in Nat /\ (n - 1) + 1 = n /\ n - 1 \in 0..len
      BY ONLY <1>2, <2>1
    <3>2. g[n] = Step[<<n, g[n - 1]>>]
      BY <1>5, <3>1 DEF GoesBy
    <3>3. <<n, g[n - 1]>> \in Nat \X SUBSET Nat
      BY <1>2, <1>5, <3>1
    <3>4. f[n] = g[n] /\ f[n - 1] = g[n - 1]
      BY <1>6, <3>1
    <3> QED
      BY <1>3, <3>2, <3>3, <3>4
  <2>2. f[0] = {}
    BY <1>2, <1>5, <1>6 DEF GoesBy
  <2> QED
    BY <1>6, <2>1, <2>2
<1> DEFINE kept[b \in 0..len] ==
             IF b = 0 THEN {}
             ELSE IF b \in all /\ b - Max({0} \cup kept[b - 1]) >= TargetMin
             THEN kept[b - 1] \cup {b} ELSE kept[b - 1]
<1>8. kept = [b \in 0..len |->
             IF b = 0 THEN {}
             ELSE IF b \in all /\ b - Max({0} \cup kept[b - 1]) >= TargetMin
             THEN kept[b - 1] \cup {b} ELSE kept[b - 1]]
  BY <1>7
<1>9. FilterBoundariesBySize(text) = kept[len]
  BY <1>1 DEF FilterBoundariesBySize
<1>10. PICK h : /\ h = [b \in 0..len |->
                         IF b = 0 THEN {}
                         ELSE IF b \in all /\ b - Max({0} \cup h[b - 1]) >= TargetMin
                         THEN h[b - 1] \cup {b} ELSE h[b - 1]]
                /\ FilterBoundariesBySize(text) = h[len]
  <2> HIDE DEF kept
  <2> QED
    BY <1>8, <1>9
<1> HIDE DEF kept
<1> DEFINE P == {n \in Nat : n <= len => h[n] \in SUBSET (1..n)}
<1>11. 0 \in P
  BY <1>2, <1>10
<1>12. ASSUME NEW n \in Nat, n \in P PROVE n + 1 \in P
  <2>1. SUFFICES ASSUME n + 1 <= len PROVE h[n + 1] \in SUBSET (1..(n + 1))
    OBVIOUS
  <2>2. n <= len
    BY <1>2, <2>1
  <2>3. h[n] \in SUBSET (1..n)
    BY <1>12, <2>2
  <2>4. n + 1 \in 0..len /\ n + 1 # 0 /\ (n + 1) - 1 = n
    BY ONLY <1>2, <1>12, <2>1
  <2>5. h[n + 1] \in {h[n], h[n] \cup {n + 1}}
    BY <1>10, <2>4
  <2> QED
    BY <2>3, <2>5
<1>13. len \in P
  <2> HIDE DEF P
  <2>1. \A n \in Nat : n \in P
    BY <1>11, <1>12, SetInduction
  <2> QED
    BY <1>2, <2>1
<1> QED
  BY <1>1, <1>2, <1>10, <1>13

\* The next split goes on, and not too far.
LEMMA WordBoundaryIs ==
  ASSUME NEW text, NEW low \in Nat, NEW high \in Nat, NEW target, target = low + TargetMax, target < high
  PROVE  /\ FindWordBoundary(text, target, low, high) \in (low + 1)..high
         /\ FindWordBoundary(text, target, low, high) <= low + HardMax
<1>1. TargetMax \in Nat \ {0} /\ SearchRange \in Nat \ {0} /\ HardMax \in Nat \ {0}
      /\ TargetMax + SearchRange <= HardMax
  BY TextAnchorsAssumption
<1>2. PICK last, first : last = Min({high, target + SearchRange}) /\ first = Max({low, target - SearchRange})
  OBVIOUS
<1>3. target \in Nat /\ target + SearchRange \in Int /\ target - SearchRange \in Int /\ target > low
  BY <1>1
<1>4. last \in Int /\ last <= high /\ last <= target + SearchRange
  <2>1. PICK t \in Int : t = target + SearchRange
    BY <1>3
  <2>2. high \in Int
    OBVIOUS
  <2>3. Min({high, t}) \in {high, t} /\ Min({high, t}) <= high /\ Min({high, t}) <= t
    BY ONLY <2>1, <2>2, SmallerOf
  <2> QED
    BY <1>2, <2>1, <2>3
<1>5. first \in Int /\ first >= low
  <2>1. PICK t \in Int : t = target - SearchRange
    BY <1>3
  <2>2. low \in Int
    OBVIOUS
  <2>3. Max({low, t}) \in {low, t} /\ Max({low, t}) >= low
    BY ONLY <2>1, <2>2, LargerOf
  <2> QED
    BY <1>2, <2>1, <2>3
<1>6. PICK after, before : /\ after = {i \in target..(last - 1) : text[i + 1] \in White}
                           /\ before = {i \in (first + 1)..target : text[i + 1] \in White}
  OBVIOUS
<1>7. FindWordBoundary(text, target, low, high) =
        IF after # {} THEN Min(after) + 1 ELSE IF before # {} THEN Max(before) + 1 ELSE target
  BY <1>2, <1>6 DEF FindWordBoundary
<1>8. CASE after # {}
  <2>1. after \in SUBSET Nat
    BY <1>3, <1>4, <1>6
  <2>2. Min(after) \in after
    BY <1>8, <2>1, LeastIsThere
  <2>3. Min(after) \in target..(last - 1)
    BY <1>6, <2>2
  <2> QED
    BY <1>1, <1>3, <1>4, <1>7, <1>8, <2>3
<1>9. CASE after = {} /\ before # {}
  <2>1. before \in SUBSET (0..target)
    BY <1>3, <1>5, <1>6
  <2>2. Max(before) \in before
    BY <1>3, <1>9, <2>1, GreatestIsThere
  <2>3. Max(before) \in (first + 1)..target
    BY <1>6, <2>2
  <2> QED
    BY <1>1, <1>3, <1>5, <1>7, <1>9, <2>3
<1>10. CASE after = {} /\ before = {}
  BY <1>1, <1>3, <1>7, <1>10
<1> QED
  BY <1>8, <1>9, <1>10

\* From everywhere before the end there is a cut, or the end, at most HardMax further.
Spaced(cuts, start, end) ==
  /\ cuts \in SUBSET (start..end)
  /\ \A x \in start..(end - 1) : \E y \in cuts \cup {end} : x < y /\ y <= x + HardMax

LEMMA SplitIs ==
  ASSUME NEW text, NEW start \in Nat, NEW end \in Nat, start < end
  PROVE  Spaced(SplitOversizedSegment(text, start, end), start, end)
<1>1. PICK len : len = end - start
  OBVIOUS
<1>2. len \in Nat
  BY <1>1
<1>3. TargetMax \in Nat \ {0} /\ HardMax \in Nat \ {0} /\ TargetMax <= HardMax
  BY TextAnchorsAssumption
<1>4. PICK Step : Step = [p \in Nat \X Nat |->
                            IF end - p[2] <= TargetMax THEN p[2]
                            ELSE FindWordBoundary(text, p[2] + TargetMax, p[2], end)]
  OBVIOUS
<1>5. ASSUME NEW c \in Nat, ~(end - c <= TargetMax)
      PROVE  /\ FindWordBoundary(text, c + TargetMax, c, end) \in (c + 1)..end
             /\ FindWordBoundary(text, c + TargetMax, c, end) <= c + HardMax
  <2>1. c + TargetMax < end
    BY <1>3, <1>5
  <2> QED
    BY <2>1, WordBoundaryIs
<1>6. Step \in [Nat \X Nat -> Nat]
  <2>1. ASSUME NEW p \in Nat \X Nat
        PROVE  (IF end - p[2] <= TargetMax THEN p[2]
                ELSE FindWordBoundary(text, p[2] + TargetMax, p[2], end)) \in Nat
    <3>1. p[2] \in Nat
      OBVIOUS
    <3>2. PICK c \in Nat : c = p[2]
      BY <3>1
    <3> QED
      BY <1>5, <3>2
  <2> QED
    BY <1>4, <2>1
<1>7. PICK g \in [Nat -> Nat] : GoesBy(g, start, Step)
  <2>1. start \in Nat
    OBVIOUS
  <2> QED
    BY ONLY <1>6, <2>1, Recursion
<1>8. PICK f : f = [n \in 0..len |-> g[n]]
  OBVIOUS
<1>9. f = [k \in 0..len |->
             IF k = 0 THEN start
             ELSE IF end - f[k - 1] <= TargetMax THEN f[k - 1]
             ELSE FindWordBoundary(text, f[k - 1] + TargetMax, f[k - 1], end)]
  <2>1. ASSUME NEW n \in 0..len, n # 0
        PROVE  f[n] = IF end - f[n - 1] <= TargetMax THEN f[n - 1]
                      ELSE FindWordBoundary(text, f[n - 1] + TargetMax, f[n - 1], end)
    <3>1. n - 1 \in Nat /\ (n - 1) + 1 = n /\ n - 1 \in 0..len
      BY ONLY <1>2, <2>1
    <3>2. g[n] = Step[<<n, g[n - 1]>>]
      BY <1>7, <3>1 DEF GoesBy
    <3>3. <<n, g[n - 1]>> \in Nat \X Nat
      BY <1>2, <1>7, <3>1
    <3>4. f[n] = g[n] /\ f[n - 1] = g[n - 1]
      BY <1>8, <3>1
    <3> QED
      BY <1>4, <3>2, <3>3, <3>4
  <2>2. f[0] = start
    BY <1>2, <1>7, <1>8 DEF GoesBy
  <2> QED
    BY <1>8, <2>1, <2>2
<1> DEFINE cut[k \in 0..len] ==
             IF k = 0 THEN start
             ELSE IF end - cut[k - 1] <= TargetMax THEN cut[k - 1]
             ELSE FindWordBoundary(text, cut[k - 1] + TargetMax, cut[k - 1], end)
<1>10. cut = [k \in 0..len |->
             IF k = 0 THEN start
             ELSE IF end - cut[k - 1] <= TargetMax THEN cut[k - 1]
             ELSE FindWordBoundary(text, cut[k - 1] + TargetMax, cut[k - 1], end)]
  BY <1>9
<1>11. SplitOversizedSegment(text, start, end) = {cut[k] : k \in 0..len}
  BY <1>1 DEF SplitOversizedSegment
<1>12. PICK h : /\ h = [k \in 0..len |->
                         IF k = 0 THEN start
                         ELSE IF end - h[k - 1] <= TargetMax THEN h[k - 1]
                         ELSE FindWordBoundary(text, h[k - 1] + TargetMax, h[k - 1], end)]
                /\ SplitOversizedSegment(text, start, end) = {h[k] : k \in 0..len}
  <2> HIDE DEF cut
  <2> QED
    BY <1>10, <1>11
<1> HIDE DEF cut
<1>13. ASSUME NEW n \in Nat, n + 1 <= len
       PROVE  /\ n \in 0..len /\ n + 1 \in 0..len
              /\ h[n + 1] = IF end - h[n] <= TargetMax THEN h[n]
                            ELSE FindWordBoundary(text, h[n] + TargetMax, h[n], end)
  <2>1. n \in 0..len /\ n + 1 \in 0..len /\ n + 1 # 0 /\ (n + 1) - 1 = n
    BY ONLY <1>2, <1>13
  <2> QED
    BY <1>12, <2>1
<1> DEFINE P == {n \in Nat : n <= len => /\ h[n] \in start..end
                                         /\ end - h[n] <= TargetMax \/ h[n] >= start + n}
<1>14. \A n \in Nat : n \in P
  <2>1. 0 \in P
    <3>1. h[0] = start
      BY <1>2, <1>12
    <3> QED
      BY <3>1
  <2>2. ASSUME NEW n \in Nat, n \in P PROVE n + 1 \in P
    <3>1. SUFFICES ASSUME n + 1 <= len
                   PROVE  /\ h[n + 1] \in start..end
                          /\ end - h[n + 1] <= TargetMax \/ h[n + 1] >= start + (n + 1)
      OBVIOUS
    <3>2. n <= len
      BY ONLY <1>2, <2>2, <3>1
    <3>3. h[n] \in start..end /\ (end - h[n] <= TargetMax \/ h[n] >= start + n)
      BY <2>2, <3>2
    <3>4. PICK c \in Nat : c = h[n] /\ c \in start..end
      BY <3>3
    <3>5. CASE end - c <= TargetMax
      BY <1>13, <3>1, <3>4, <3>5
    <3>6. CASE ~(end - c <= TargetMax)
      <4>1. h[n + 1] = FindWordBoundary(text, c + TargetMax, c, end)
        BY <1>13, <3>1, <3>4, <3>6
      <4>2. h[n + 1] \in (c + 1)..end
        BY <1>5, <3>6, <4>1
      <4>3. c >= start + n
        BY <3>3, <3>4, <3>6
      <4> QED
        BY <3>4, <4>2, <4>3
    <3> QED
      BY <3>5, <3>6
  <2> HIDE DEF P
  <2> QED
    BY <2>1, <2>2, SetInduction
<1>15. ASSUME NEW n \in 0..len PROVE h[n] \in start..end /\ (end - h[n] <= TargetMax \/ h[n] >= start + n)
  <2>1. n \in Nat /\ n <= len
    BY <1>2
  <2> QED
    BY <1>14, <2>1
<1>16. ASSUME NEW x \in start..(end - 1)
       PROVE  \E y \in SplitOversizedSegment(text, start, end) \cup {end} : x < y /\ y <= x + HardMax
  <2>1. SUFFICES ASSUME \A y \in SplitOversizedSegment(text, start, end) : ~(x < y /\ y <= x + HardMax)
                 PROVE  x < end /\ end <= x + HardMax
    OBVIOUS
  <2>2. x \in Nat /\ x < end
    BY <1>16
  <2> DEFINE Q == {n \in Nat : n <= len => h[n] <= x}
  <2>3. \A n \in Nat : n \in Q
    <3>1. 0 \in Q
      <4>1. h[0] = start
        BY <1>2, <1>12
      <4> QED
        BY <4>1
    <3>2. ASSUME NEW n \in Nat, n \in Q PROVE n + 1 \in Q
      <4>1. SUFFICES ASSUME n + 1 <= len PROVE h[n + 1] <= x
        OBVIOUS
      <4>2. h[n] <= x
        <5>1. n <= len
          BY ONLY <1>2, <3>2, <4>1
        <5> QED
          BY <3>2, <5>1
      <4>3. PICK c \in Nat : c = h[n] /\ c \in start..end
        <5>1. n \in 0..len
          BY <1>13, <4>1
        <5> QED
          BY <1>15, <5>1
      <4>4. CASE end - c <= TargetMax
        BY <1>13, <4>1, <4>2, <4>3, <4>4
      <4>5. CASE ~(end - c <= TargetMax)
        <5>1. h[n + 1] = FindWordBoundary(text, c + TargetMax, c, end)
          BY <1>13, <4>1, <4>3, <4>5
        <5>2. h[n + 1] \in (c + 1)..end /\ h[n + 1] <= c + HardMax
          BY <1>5, <4>5, <5>1
        <5>3. h[n + 1] \in SplitOversizedSegment(text, start, end)
          BY <1>12, <1>13, <4>1
        <5>4. PICK d \in Nat : d = h[n + 1] /\ d <= c + HardMax /\ ~(x < d /\ d <= x + HardMax)
          BY <2>1, <5>2, <5>3
        <5>5. d <= x + HardMax
          BY <1>3, <2>2, <4>2, <4>3, <5>4
        <5> QED
          BY <2>2, <5>4, <5>5
      <4> QED
        BY <4>4, <4>5
    <3> HIDE DEF Q
    <3> QED
      BY <3>1, <3>2, SetInduction
  <2>4. len \in 0..len
    BY <1>2
  <2>5. h[len] <= x
    BY <1>2, <2>3
  <2>6. PICK c \in Nat : c = h[len] /\ c <= x /\ (end - c <= TargetMax \/ c >= start + len)
    BY <1>15, <2>4, <2>5
  <2>7. ~(c >= start + len)
    BY <1>1, <2>2, <2>6
  <2> QED
    BY <1>3, <2>2, <2>6, <2>7
<1>17. SplitOversizedSegment(text, start, end) \in SUBSET (start..end)
  BY <1>12, <1>15
<1> QED
  BY <1>16, <1>17 DEF Spaced

\* The ends of the segments are in the text, the last one is its end, and there is one
\* at most HardMax after every place.
LEMMA EndsAre ==
  ASSUME NEW text \in Drafts
  PROVE  /\ EndsOf(text) \in SUBSET (1..Len(text)) /\ Len(text) \in EndsOf(text) /\ Len(text) \in Nat \ {0}
         /\ \A x \in 0..(Len(text) - 1) : \E y \in EndsOf(text) : x < y /\ y <= x + HardMax
<1>1. PICK len, ends : len = Len(text) /\ ends = EndsOf(text)
  OBVIOUS
<1>2. text \in Seq(Char) /\ len \in Nat \ {0}
  <2>1. text \in Seq(Char) /\ text # <<>>
    BY TextAnchorsAssumption
  <2>2. Len(text) \in Nat /\ Len(text) # 0
    BY <2>1
  <2> QED
    BY <1>1, <2>1, <2>2
<1>3. HardMax \in Nat \ {0} /\ MinDocument \in Nat \ {0} /\ MinDocument <= HardMax
  BY TextAnchorsAssumption
<1>4. CASE len < MinDocument
  <2>1. ends = {len}
    BY <1>1, <1>4 DEF EndsOf
  <2>2. \A x \in 0..(len - 1) : x < len /\ len <= x + HardMax
    BY <1>2, <1>3, <1>4
  <2> QED
    BY <1>1, <1>2, <2>1, <2>2
<1>5. CASE ~(len < MinDocument)
  <2>1. PICK kept : kept = FilterBoundariesBySize(text) \cup {0, len}
    OBVIOUS
  <2>2. PICK splits : splits = UNION {SplitOversizedSegment(text, Previous(kept, b), b) :
                                        b \in {k \in kept \ {0} : k - Previous(kept, k) > HardMax}}
    OBVIOUS
  <2>3. ends = (kept \cup splits) \ {0}
    BY <1>1, <1>5, <2>1, <2>2 DEF EndsOf
  <2>4. kept \in SUBSET (0..len) /\ 0 \in kept /\ len \in kept
    BY <1>1, <1>2, <2>1, KeptAre
  <2>4a. \A k \in kept : k \in Nat /\ k \in 0..len
    BY <1>2, <2>4
  <2>5. ASSUME NEW b \in kept \ {0}
        PROVE  Previous(kept, b) \in kept /\ Previous(kept, b) < b /\ \A k \in kept : k < b => k <= Previous(kept, b)
    <3>1. PICK lower : lower = {k \in kept : k < b}
      OBVIOUS
    <3>2. b \in 0..len /\ b # 0
      BY <2>4, <2>5
    <3>3. lower \in SUBSET (0..len) /\ 0 \in lower
      <4>1. 0 < b
        BY <1>2, <3>2
      <4> QED
        BY <2>4, <3>1, <4>1
    <3>4. Max(lower) \in lower /\ \A y \in lower : y <= Max(lower)
      BY <1>2, <3>3, GreatestIsThere
    <3>5. Previous(kept, b) = Max(lower)
      BY <3>1 DEF Previous
    <3> QED
      BY <3>1, <3>4, <3>5
  <2>6. ASSUME NEW b \in kept \ {0}
        PROVE  Spaced(SplitOversizedSegment(text, Previous(kept, b), b), Previous(kept, b), b)
    <3>1. Previous(kept, b) \in Nat /\ b \in Nat /\ Previous(kept, b) < b
      BY <2>4a, <2>5, <2>6
    <3> QED
      BY <3>1, SplitIs
  <2>7. splits \in SUBSET (0..len)
    <3>1. ASSUME NEW b \in kept \ {0} PROVE SplitOversizedSegment(text, Previous(kept, b), b) \in SUBSET (0..len)
      <4>1. PICK p, cuts : p = Previous(kept, b) /\ cuts = SplitOversizedSegment(text, Previous(kept, b), b)
        OBVIOUS
      <4>2. cuts \in SUBSET (p..b) /\ p \in 0..len /\ b \in 0..len
        BY <2>4, <2>5, <2>6, <3>1, <4>1 DEF Spaced
      <4> QED
        BY <1>2, <4>1, <4>2
    <3> QED
      BY <2>2, <3>1
  <2>8. ends \in SUBSET (1..len) /\ len \in ends
    BY <1>2, <2>3, <2>4, <2>7
  <2>9. ASSUME NEW x \in 0..(len - 1) PROVE \E y \in ends : x < y /\ y <= x + HardMax
    <3>1. PICK later : later = {k \in kept : x < k}
      OBVIOUS
    <3>2. later \in SUBSET Nat /\ len \in later
      <4>1. x < len
        BY <1>2, <2>9
      <4> QED
        BY <2>4, <2>4a, <3>1, <4>1
    <3>3. PICK b \in later : \A y \in later : b <= y
      BY <3>2, LeastIsThere
    <3>4. b \in kept \ {0} /\ x < b /\ b \in ends /\ b \in 0..len
      BY <1>2, <2>3, <2>4, <2>9, <3>1, <3>3
    <3>5. PICK p : p = Previous(kept, b) /\ p \in kept /\ p < b
      BY <2>5, <3>4
    <3>6. p \in 0..len /\ p <= x
      <4>1. p \in 0..len
        BY <2>4, <3>5
      <4>2. ~(x < p)
        <5>1. p \in later => b <= p
          BY <3>3
        <5> QED
          BY <3>1, <3>4, <3>5, <4>1, <5>1
      <4> QED
        BY <2>9, <4>1, <4>2
    <3>7. CASE b - p <= HardMax
      <4>1. b <= x + HardMax
        BY <1>3, <2>9, <3>4, <3>6, <3>7
      <4> QED
        BY <3>4, <4>1
    <3>8. CASE ~(b - p <= HardMax)
      <4>1. PICK cuts : cuts = SplitOversizedSegment(text, p, b)
        OBVIOUS
      <4>2. b - Previous(kept, b) > HardMax
        BY <1>3, <3>4, <3>5, <3>6, <3>8
      <4>3. cuts \subseteq splits
        BY <2>2, <3>4, <3>5, <4>1, <4>2
      <4>4. Spaced(cuts, p, b)
        BY <2>6, <3>4, <3>5, <4>1
      <4>5. x \in p..(b - 1)
        BY <2>9, <3>4, <3>6
      <4>6. PICK y \in cuts \cup {b} : x < y /\ y <= x + HardMax
        BY <4>4, <4>5 DEF Spaced
      <4>7. y \in kept \cup splits
        BY <3>4, <4>3, <4>6
      <4>8. y # 0
        <5>1. y \in 0..len
          BY <2>4, <2>7, <4>7
        <5> QED
          BY <2>9, <4>6, <5>1
      <4> QED
        BY <2>3, <4>6, <4>7, <4>8
    <3> QED
      BY <3>7, <3>8
  <2> QED
    BY <1>1, <1>2, <2>8, <2>9
<1> QED
  BY <1>4, <1>5

RangeRow == [start : Nat, end : Nat]

\* The ranges cut the text.
LEMMA RangesAre ==
  ASSUME NEW text \in Drafts
  PROVE  /\ Ranges(text) \in Seq(RangeRow) /\ Fit(Ranges(text), text) /\ Len(Ranges(text)) \in Nat
         /\ Len(text) < MinDocument => Len(Ranges(text)) = 1
<1>1. PICK len, S, ends : len = Len(text) /\ S = EndsOf(text) /\ ends = Ascending(EndsOf(text))
  OBVIOUS
<1>2. /\ S \in SUBSET (1..len) /\ len \in S /\ len \in Nat \ {0} /\ HardMax \in Nat
      /\ \A x \in 0..(len - 1) : \E y \in S : x < y /\ y <= x + HardMax
  BY <1>1, EndsAre, TextAnchorsAssumption
<1>3. Enumerates(ends, S)
  <2>1. IsFiniteSet(1..len)
    BY <1>2, FS_Interval
  <2>2. IsFiniteSet(S)
    BY <1>2, <2>1, FS_Subset
  <2>3. S \in SUBSET Nat
    <3>1. \A x \in 1..len : x \in Nat
      BY <1>2
    <3> QED
      BY <1>2, <3>1
  <2> QED
    BY <1>1, <2>2, <2>3, AscendingIs
<1>4. PICK n : n = Len(ends)
  OBVIOUS
<1>5. n \in Nat /\ \A i \in 1..n : ends[i] \in S /\ ends[i] \in 1..len
  <2>1. ends \in Seq(S)
    BY <1>3 DEF Enumerates
  <2>2. n \in Nat /\ \A i \in 1..n : ends[i] \in S
    BY ONLY <1>4, <2>1, ElementOfSeq
  <2> QED
    BY <1>2, <2>2
<1>6. ASSUME NEW i \in 1..n, NEW j \in 1..n, i < j PROVE ends[i] < ends[j]
  BY <1>3, <1>4, <1>6 DEF Enumerates
<1>7. ASSUME NEW y \in S PROVE \E i \in 1..n : ends[i] = y
  BY <1>3, <1>4 DEF Enumerates
<1>8. n \in 1..n /\ ends[n] = len
  <2>1. PICK i \in 1..n : ends[i] = len
    BY <1>2, <1>7
  <2>2. n \in 1..n /\ ends[n] \in 1..len
    BY <1>5, <2>1
  <2>3. i < n => ends[i] < ends[n]
    BY <1>6, <2>2
  <2>4. i = n
    BY <1>2, <1>5, <2>1, <2>2, <2>3
  <2> QED
    BY <2>1, <2>2, <2>4
<1>9. PICK from : from = [i \in 1..n |-> IF i = 1 THEN 0 ELSE ends[i - 1]]
  OBVIOUS
<1>10. PICK ranges : ranges = [i \in 1..n |-> [start |-> from[i], end |-> ends[i]]]
  OBVIOUS
<1>11. Ranges(text) = ranges
  <2>1. ranges = [i \in 1..n |-> [start |-> IF i = 1 THEN 0 ELSE ends[i - 1], end |-> ends[i]]]
    BY <1>9, <1>10
  <2> QED
    BY <1>1, <1>4, <2>1 DEF Ranges
<1>12. ASSUME NEW i \in 1..n, i # 1 PROVE i - 1 \in 1..n /\ i - 1 < i /\ from[i] = ends[i - 1]
  BY <1>5, <1>9, <1>12
<1>13. ASSUME NEW i \in 1..n PROVE from[i] \in 0..(len - 1) /\ ends[i] - from[i] \in 1..HardMax
  <2>1. from[i] \in 0..(len - 1) /\ from[i] < ends[i]
    <3>1. CASE i = 1
      BY <1>2, <1>5, <1>9, <3>1
    <3>2. CASE i # 1
      <4>1. from[i] = ends[i - 1] /\ ends[i - 1] \in 1..len /\ ends[i] \in 1..len /\ ends[i - 1] < ends[i]
        BY <1>5, <1>6, <1>12, <3>2
      <4> QED
        BY <1>2, <4>1
    <3> QED
      BY <3>1, <3>2
  <2>2. PICK y \in S : from[i] < y /\ y <= from[i] + HardMax
    BY <1>2, <2>1
  <2>3. PICK j \in 1..n : ends[j] = y
    BY <1>7, <2>2
  <2>4. ~(j < i)
    <3>1. SUFFICES ASSUME j < i PROVE FALSE
      OBVIOUS
    <3>2. i # 1 /\ (j < i - 1 \/ j = i - 1)
      BY <1>5, <3>1
    <3>3. ends[i - 1] < ends[j] /\ i - 1 \in 1..n
      BY <1>12, <2>2, <2>3, <3>2
    <3>4. ends[j] <= ends[i - 1]
      <4>1. j < i - 1 => ends[j] < ends[i - 1]
        BY <1>6, <3>3
      <4>2. ends[j] \in 1..len /\ ends[i - 1] \in 1..len
        BY <1>5, <3>3
      <4> QED
        BY <3>2, <4>1, <4>2
    <3>5. ends[j] \in 1..len /\ ends[i - 1] \in 1..len
      BY <1>5, <3>3
    <3> QED
      BY <3>3, <3>4, <3>5
  <2>5. ends[i] <= ends[j] /\ ends[i] \in 1..len /\ ends[j] \in 1..len
    <3>1. i < j => ends[i] < ends[j]
      BY <1>6
    <3>2. i < j \/ i = j
      BY <1>5, <2>4
    <3>3. ends[i] \in 1..len /\ ends[j] \in 1..len
      BY <1>5
    <3> QED
      BY <3>1, <3>2, <3>3
  <2> QED
    BY <1>2, <2>1, <2>2, <2>3, <2>5
<1>14. ranges \in Seq(RangeRow) /\ Len(ranges) = n
  <2>1. ASSUME NEW i \in 1..n PROVE [start |-> from[i], end |-> ends[i]] \in RangeRow
    BY <1>2, <1>5, <1>13 DEF RangeRow
  <2>2. ranges \in [1..n -> RangeRow]
    BY <1>10, <2>1
  <2> QED
    BY <1>5, <2>2
<1>15. \A i \in 1..n : ranges[i].start = from[i] /\ ranges[i].end = ends[i]
  BY <1>10
<1>16. Fit(ranges, text)
  <2>1. ranges # <<>> /\ 1 \in 1..n
    BY <1>5, <1>8, <1>14
  <2>2. ranges[1].start = 0 /\ ranges[Len(ranges)].end = Len(text)
    BY <1>1, <1>8, <1>9, <1>14, <1>15, <2>1
  <2>3. ASSUME NEW i \in 2..Len(ranges) PROVE ranges[i].start = ranges[i - 1].end
    <3>1. i \in 1..n /\ i # 1
      BY <1>5, <1>14, <2>3
    <3> QED
      BY <1>12, <1>15, <3>1
  <2>4. \A i \in 1..Len(ranges) : ranges[i].end - ranges[i].start \in 1..HardMax
    BY <1>13, <1>14, <1>15
  <2> QED
    BY <2>1, <2>2, <2>3, <2>4 DEF Fit
<1>17. ASSUME len < MinDocument PROVE n = 1
  <2>1. S = {len}
    BY <1>1, <1>17 DEF EndsOf
  <2>2. ~(1 < n)
    <3>1. 1 < n => 1 \in 1..n /\ ends[1] < ends[n]
      BY <1>6, <1>8
    <3>2. 1 < n => ends[1] = len
      BY <1>5, <2>1, <3>1
    <3> QED
      BY <1>2, <1>8, <3>1, <3>2
  <2> QED
    BY <1>5, <1>8, <2>2
<1> QED
  BY <1>1, <1>5, <1>11, <1>14, <1>16, <1>17

-----------------------------------------------------------------------------
(* TextAnchors: the invariant. *)

AnchorAt == {"none", "segment", "store", "summary", "extract", "mention"}
SegmentRow == [id : Int, start : Nat, end : Nat]
ReaderRow == [at : AnchorAt, content : Drafts \cup {<<>>}, segments : Seq(SegmentRow), read : Seq(SegmentRow),
              outdated : BOOLEAN]
PlacedMention == [segmentId : Int, relativeStart : Int, text : Phrase, at : Int, fresh : BOOLEAN]

\* Every segment has an id of its own, and no later one has been given.
OwnIds(s, top) == DistinctIds(s) /\ \A i \in 1..Len(s) : s[i].id <= top

\* m is shown, in these segments, where it was found.
HeldBy(s, m) ==
  LET those == OfId(s, m.segmentId) IN those # {} /\ s[Min(those)].start + m.relativeStart = m.at

\* The segments a run is about to store are of this text, unless it is outdated.
ReaderSound(run, text, top) ==
  /\ OwnIds(run.segments, top)
  /\ run.at \in {"store", "summary", "extract", "mention"} /\ ~run.outdated => Fit(run.segments, text)

AnchorTypeOK ==
  /\ content \in Drafts /\ ids \in Nat /\ overwritten \in BOOLEAN
  /\ segments \in Seq(SegmentRow) /\ mentions \in SUBSET PlacedMention /\ reader \in [Reader -> ReaderRow]

AnchorInv ==
  /\ AnchorTypeOK
  /\ OwnIds(segments, ids)
  /\ ~overwritten => segments = <<>> \/ Fit(segments, content)
  /\ \A m \in mentions : m.fresh => HeldBy(segments, m)
  /\ \A r \in Reader : ReaderSound(reader[r], content, ids)

\* Of segments with the bounds of the ranges, whatever their ids are.
LEMMA CutAlike ==
  ASSUME NEW text, NEW ranges \in Seq(RangeRow), Fit(ranges, text), NEW n \in Nat, n = Len(ranges),
         NEW s \in Seq(SegmentRow), Len(s) = n,
         \A i \in 1..n : s[i].start = ranges[i].start /\ s[i].end = ranges[i].end
  PROVE  Fit(s, text)
<1>1. /\ ranges # <<>> /\ ranges[1].start = 0 /\ ranges[n].end = Len(text)
      /\ \A i \in 2..n : ranges[i].start = ranges[i - 1].end
      /\ \A i \in 1..n : ranges[i].end - ranges[i].start \in 1..HardMax
  BY DEF Fit
<1>2. n # 0
  BY <1>1
<1>3. 1 \in 1..n /\ n \in 1..n /\ \A i \in 2..n : i \in 1..n /\ i - 1 \in 1..n
  BY <1>2
<1>4. s # <<>>
  BY <1>2
<1> QED
  BY <1>1, <1>3, <1>4 DEF Fit

LEMMA SegmentsAre ==
  ASSUME ids \in Nat, NEW text \in Drafts, NEW existing \in Seq(SegmentRow), OwnIds(existing, ids),
         NEW s \in ComputeSegments(text, existing)
  PROVE  s \in Seq(SegmentRow) /\ Fit(s, text) /\ OwnIds(s, ids + Len(s)) /\ Len(s) \in Nat
<1>1. PICK ranges, n, k : ranges = Ranges(text) /\ n = Len(ranges) /\ k = Len(existing)
  OBVIOUS
<1>2. ranges \in Seq(RangeRow) /\ Fit(ranges, text) /\ n \in Nat /\ (Len(text) < MinDocument => n = 1) /\ k \in Nat
  <2>1. k \in Nat
    BY <1>1
  <2> QED
    BY <1>1, <2>1, RangesAre
<1>3. PICK matches : matches = IF Len(text) < MinDocument
                               THEN {[i \in {1} |-> IF existing = <<>> THEN 0 ELSE 1]}
                               ELSE Matches(ranges, existing)
  OBVIOUS
<1>4. PICK m \in matches : s = [i \in 1..n |->
                                  [id |-> IF m[i] = 0 THEN ids + i ELSE existing[m[i]].id,
                                   start |-> ranges[i].start, end |-> ranges[i].end]]
  BY <1>1, <1>3 DEF ComputeSegments
<1>5. /\ \A i \in 1..n : m[i] \in 0..k
      /\ \A i, j \in 1..n : i # j /\ m[i] # 0 => m[i] # m[j]
  <2>1. CASE Len(text) < MinDocument
    <3>1. m = [i \in {1} |-> IF existing = <<>> THEN 0 ELSE 1] /\ n = 1
      BY <1>2, <1>3, <1>4, <2>1
    <3>2. existing # <<>> => 1 \in 0..k
      BY <1>1
    <3> QED
      BY <1>2, <3>1, <3>2
  <2>2. CASE ~(Len(text) < MinDocument)
    <3>1. m \in Matches(ranges, existing)
      BY <1>3, <1>4, <2>2
    <3>2. m \in [1..n -> 0..k]
      BY <1>1, <3>1 DEF Matches
    <3>3. \A i \in 1..n : m[i] # 0 => \A j \in 1..(i - 1) : m[j] # m[i]
      BY <1>1, <3>1 DEF Matches
    <3>4. ASSUME NEW i \in 1..n, NEW j \in 1..n, i # j, m[i] # 0 PROVE m[i] # m[j]
      <4>1. j \in 1..(i - 1) \/ i \in 1..(j - 1)
        BY <1>2, <3>4
      <4> QED
        BY <3>3, <3>4, <4>1
    <3> QED
      BY <3>2, <3>4
  <2> QED
    BY <2>1, <2>2
<1>6. ASSUME NEW e \in 1..k PROVE existing[e] \in SegmentRow /\ existing[e].id \in Int /\ existing[e].id <= ids
  <2>1. existing[e] \in SegmentRow
    BY ONLY <1>1, <1>6, existing \in Seq(SegmentRow), ElementOfSeq
  <2>2. existing[e].id \in Int
    BY ONLY <2>1 DEF SegmentRow
  <2>3. existing[e].id <= ids
    BY <1>1, <1>6 DEF OwnIds
  <2> QED
    BY <2>1, <2>2, <2>3
<1>6a. ASSUME NEW e \in 1..k, NEW d \in 1..k, existing[e].id = existing[d].id PROVE e = d
  BY <1>1, <1>6a DEF OwnIds, DistinctIds
<1>7. PICK own1 : own1 = [i \in 1..n |-> IF m[i] = 0 THEN ids + i ELSE existing[m[i]].id]
  OBVIOUS
<1>8. \A i \in 1..n : s[i] = [id |-> own1[i], start |-> ranges[i].start, end |-> ranges[i].end]
  BY <1>4, <1>7
<1>9. ASSUME NEW i \in 1..n
      PROVE  /\ m[i] = 0 => own1[i] = ids + i
             /\ m[i] # 0 => m[i] \in 1..k /\ own1[i] = existing[m[i]].id
             /\ own1[i] \in Int /\ own1[i] <= ids + n
  <2>1. m[i] # 0 => m[i] \in 1..k
    BY <1>2, <1>5
  <2>2. CASE m[i] = 0
    BY <1>2, <1>7, <2>2
  <2>3. CASE m[i] # 0
    BY <1>2, <1>6, <1>7, <2>1, <2>3
  <2> QED
    BY <2>2, <2>3
<1>9a. ASSUME NEW i \in 1..n PROVE (m[i] = 0 => own1[i] > ids) /\ (m[i] # 0 => own1[i] <= ids)
  <2>1. CASE m[i] = 0
    <3>1. own1[i] = ids + i /\ i \in Nat /\ i > 0
      BY <1>2, <1>9, <2>1
    <3> QED
      BY <2>1, <3>1
  <2>2. CASE m[i] # 0
    BY <1>6, <1>9, <2>2
  <2> QED
    BY <2>1, <2>2
<1>10. ASSUME NEW i \in 1..n, NEW j \in 1..n, own1[i] = own1[j] PROVE i = j
  <2>0. own1[i] \in Int /\ own1[j] \in Int
    BY <1>9
  <2>1. CASE m[i] = 0 /\ m[j] = 0
    BY <1>2, <1>9, <1>10, <2>1
  <2>2. CASE m[i] # 0 /\ m[j] # 0
    <3>1. m[i] \in 1..k /\ m[j] \in 1..k /\ existing[m[i]].id = existing[m[j]].id
      BY <1>9, <1>10, <2>2
    <3>2. m[i] = m[j]
      BY <1>6a, <3>1
    <3> QED
      BY <1>5, <2>2, <3>2
  <2>3. CASE m[i] = 0 /\ m[j] # 0
    <3>1. own1[i] > ids /\ own1[j] <= ids
      BY <1>9a, <2>3
    <3> QED
      BY <2>0, <1>10, <3>1
  <2>4. CASE m[i] # 0 /\ m[j] = 0
    <3>1. own1[j] > ids /\ own1[i] <= ids
      BY <1>9a, <2>4
    <3> QED
      BY <2>0, <1>10, <3>1
  <2> QED
    BY <2>1, <2>2, <2>3, <2>4
<1>11. s \in Seq(SegmentRow) /\ Len(s) = n
  <2>1. \A i \in 1..n : ranges[i].start \in Nat /\ ranges[i].end \in Nat
    <3>1. \A i \in 1..n : ranges[i] \in RangeRow
      BY <1>1, <1>2, ElementOfSeq
    <3> QED
      BY <3>1 DEF RangeRow
  <2>2. ASSUME NEW i \in 1..n
        PROVE  [id |-> IF m[i] = 0 THEN ids + i ELSE existing[m[i]].id,
                start |-> ranges[i].start, end |-> ranges[i].end] \in SegmentRow
    <3>1. PICK x : x = IF m[i] = 0 THEN ids + i ELSE existing[m[i]].id
      OBVIOUS
    <3>2. x \in Int
      BY <1>7, <1>9, <3>1
    <3> QED
      BY <2>1, <3>1, <3>2 DEF SegmentRow
  <2>3. s \in [1..n -> SegmentRow]
    BY <1>4, <2>2
  <2> QED
    BY <1>2, <2>3
<1>12. Fit(s, text)
  <2>1. ASSUME NEW i \in 1..n PROVE s[i].start = ranges[i].start /\ s[i].end = ranges[i].end
    <3>1. s[i] = [id |-> own1[i], start |-> ranges[i].start, end |-> ranges[i].end]
      BY <1>8
    <3> QED
      BY ONLY <3>1
  <2> QED
    BY ONLY <1>1, <1>2, <1>11, <2>1, CutAlike
<1>13. OwnIds(s, ids + n)
  <2>1. ASSUME NEW i \in 1..n PROVE s[i].id = own1[i]
    <3>1. s[i] = [id |-> own1[i], start |-> ranges[i].start, end |-> ranges[i].end]
      BY <1>8
    <3> QED
      BY ONLY <3>1
  <2>2. DistinctIds(s)
    BY <1>10, <1>11, <2>1 DEF DistinctIds
  <2>3. \A i \in 1..Len(s) : s[i].id <= ids + n
    BY <1>9, <1>11, <2>1
  <2> QED
    BY <2>2, <2>3 DEF OwnIds
<1> QED
  BY <1>2, <1>11, <1>12, <1>13

LEMMA NotFresh ==
  ASSUME mentions \in SUBSET PlacedMention, NEW s, NEW same \in BOOLEAN,
         same => \A m \in mentions : m.fresh => HeldBy(s, m),
         mentions' = {[m EXCEPT !.fresh = @ /\ same] : m \in mentions}
  PROVE  mentions' \in SUBSET PlacedMention /\ \A m \in mentions' : m.fresh => HeldBy(s, m)
<1>1. ASSUME NEW m \in mentions, NEW k, k = [m EXCEPT !.fresh = @ /\ same]
      PROVE  /\ k \in PlacedMention /\ k.fresh = (m.fresh /\ same) /\ k.segmentId = m.segmentId
             /\ k.relativeStart = m.relativeStart /\ k.at = m.at
  <2>1. m \in PlacedMention
    OBVIOUS
  <2>2. m.fresh \in BOOLEAN
    BY <2>1 DEF PlacedMention
  <2>3. PICK f \in BOOLEAN : f = (m.fresh /\ same)
    BY <2>2
  <2>4. k = [m EXCEPT !.fresh = f]
    BY <1>1, <2>3
  <2> QED
    BY <2>1, <2>3, <2>4 DEF PlacedMention
<1>2. ASSUME NEW m \in mentions, NEW k, k = [m EXCEPT !.fresh = @ /\ same], k.fresh
      PROVE  HeldBy(s, k)
  <2>1. same /\ m.fresh /\ HeldBy(s, m)
    BY <1>1, <1>2
  <2> QED
    BY <1>1, <1>2, <2>1 DEF HeldBy
<1> QED
  BY <1>1, <1>2

LEMMA NoneFresh ==
  ASSUME mentions \in SUBSET PlacedMention, NEW s, mentions' = {[m EXCEPT !.fresh = FALSE] : m \in mentions}
  PROVE  mentions' \in SUBSET PlacedMention /\ \A m \in mentions' : m.fresh => HeldBy(s, m)
<1>1. ASSUME NEW m \in mentions, NEW k, k = [m EXCEPT !.fresh = FALSE]
      PROVE  k \in PlacedMention /\ ~k.fresh
  <2>1. m \in PlacedMention
    OBVIOUS
  <2> QED
    BY <1>1, <2>1 DEF PlacedMention
<1> QED
  BY <1>1

LEMMA NoSegments ==
  ASSUME NEW top
  PROVE  OwnIds(<<>>, top)
BY DEF OwnIds, DistinctIds

LEMMA IdsGrow ==
  ASSUME NEW s \in Seq(SegmentRow), NEW top \in Nat, NEW more \in Nat, top <= more, OwnIds(s, top)
  PROVE  OwnIds(s, more)
<1>1. ASSUME NEW i \in 1..Len(s) PROVE s[i].id <= more
  <2>1. s[i] \in SegmentRow
    OBVIOUS
  <2>2. s[i].id \in Int
    BY <2>1 DEF SegmentRow
  <2>3. s[i].id <= top
    BY DEF OwnIds
  <2> QED
    BY <2>2, <2>3
<1> QED
  BY <1>1 DEF OwnIds

\* A step of one run.
LEMMA ReaderMoves ==
  ASSUME reader \in [Reader -> ReaderRow], ids \in Nat, ids' \in Nat, ids <= ids', content' = content,
         \A q \in Reader : ReaderSound(reader[q], content, ids),
         NEW r \in Reader, NEW run \in ReaderRow, ReaderSound(run, content, ids'),
         reader' = [reader EXCEPT ![r] = run]
  PROVE  reader' \in [Reader -> ReaderRow] /\ \A q \in Reader : ReaderSound(reader'[q], content', ids')
<1>1. reader' \in [Reader -> ReaderRow]
  OBVIOUS
<1>2. ASSUME NEW q \in Reader PROVE ReaderSound(reader'[q], content', ids')
  <2>1. CASE q = r
    BY <2>1
  <2>2. CASE q # r
    <3>1. reader'[q] = reader[q] /\ ReaderSound(reader[q], content, ids)
      BY <2>2
    <3>2. reader[q] \in ReaderRow
      OBVIOUS
    <3>3. reader[q].segments \in Seq(SegmentRow)
      BY <3>2 DEF ReaderRow
    <3>4. OwnIds(reader[q].segments, ids')
      BY <3>1, <3>3, IdsGrow DEF ReaderSound
    <3> QED
      BY <3>1, <3>4 DEF ReaderSound
  <2> QED
    BY <2>1, <2>2
<1> QED
  BY <1>1, <1>2

LEMMA NoReaderIs ==
  ASSUME NEW text, NEW top
  PROVE  NoReader \in ReaderRow /\ ReaderSound(NoReader, text, top)
<1>1. NoReader \in ReaderRow
  BY DEF NoReader, ReaderRow, AnchorAt
<1>2. NoReader.segments = <<>> /\ NoReader.at = "none"
  BY DEF NoReader
<1> QED
  BY <1>1, <1>2, NoSegments DEF ReaderSound

LEMMA AnchorStart ==
  ASSUME AnchorInit
  PROVE  AnchorInv
<1>1. PICK ranges, n : ranges = Ranges(content) /\ n = Len(ranges)
  OBVIOUS
<1>2. content \in Drafts /\ ids = 0 /\ mentions = {} /\ reader = [r \in Reader |-> NoReader] /\ overwritten = FALSE
      /\ segments = [i \in 1..n |-> [id |-> -i, start |-> ranges[i].start, end |-> ranges[i].end]]
  BY <1>1 DEF AnchorInit
<1>3. ranges \in Seq(RangeRow) /\ Fit(ranges, content) /\ n \in Nat
  BY <1>1, <1>2, RangesAre
<1>4. ASSUME NEW i \in 1..n
      PROVE  /\ segments[i] \in SegmentRow /\ segments[i].id = -i
             /\ segments[i].start = ranges[i].start /\ segments[i].end = ranges[i].end
  <2>1. ranges[i] \in RangeRow
    BY ONLY <1>1, <1>3, <1>4, ElementOfSeq
  <2>2. ranges[i].start \in Nat /\ ranges[i].end \in Nat
    BY <2>1 DEF RangeRow
  <2>3. segments[i] = [id |-> -i, start |-> ranges[i].start, end |-> ranges[i].end]
    BY <1>2
  <2> QED
    BY <1>3, <2>2, <2>3 DEF SegmentRow
<1>5. segments \in Seq(SegmentRow) /\ Len(segments) = n
  <2>1. segments \in [1..n -> SegmentRow]
    BY <1>2, <1>4
  <2> QED
    BY <1>3, <2>1
<1>6. Fit(segments, content)
  BY ONLY <1>1, <1>3, <1>4, <1>5, CutAlike
<1>7. OwnIds(segments, ids)
  <2>1. DistinctIds(segments)
    BY <1>3, <1>4, <1>5 DEF DistinctIds
  <2>2. \A i \in 1..Len(segments) : segments[i].id <= ids
    BY <1>2, <1>3, <1>4, <1>5
  <2> QED
    BY <2>1, <2>2 DEF OwnIds
<1>8. NoReader \in ReaderRow /\ ReaderSound(NoReader, content, ids)
  BY NoReaderIs
<1>9. AnchorTypeOK
  BY <1>2, <1>5, <1>8 DEF AnchorTypeOK
<1> QED
  BY <1>2, <1>6, <1>7, <1>8, <1>9 DEF AnchorInv

LEMMA UpdateKeeps ==
  ASSUME AnchorInv, NEW text \in Drafts, UpdateDocument(text)
  PROVE  AnchorInv'
<1>1. PICK s \in ComputeSegments(text, segments) : ids' = ids + Len(s) /\ segments' = s
  BY DEF UpdateDocument, GiveIds
<1>2. content' = text /\ overwritten' = FALSE /\ mentions' = {[m EXCEPT !.fresh = FALSE] : m \in mentions}
      /\ reader' = [r \in Reader |-> [reader[r] EXCEPT !.outdated = reader[r].at # "none"]]
  BY DEF UpdateDocument
<1>3. ids \in Nat /\ segments \in Seq(SegmentRow) /\ OwnIds(segments, ids) /\ mentions \in SUBSET PlacedMention
      /\ reader \in [Reader -> ReaderRow]
  BY DEF AnchorInv, AnchorTypeOK
<1>4. s \in Seq(SegmentRow) /\ Fit(s, text) /\ OwnIds(s, ids + Len(s)) /\ Len(s) \in Nat
  BY ONLY <1>1, <1>3, text \in Drafts, SegmentsAre
<1>5. ids' \in Nat /\ ids <= ids' /\ OwnIds(segments', ids') /\ Fit(segments', content')
      /\ segments' \in Seq(SegmentRow)
  BY <1>1, <1>2, <1>3, <1>4
<1>6. mentions' \in SUBSET PlacedMention /\ \A m \in mentions' : m.fresh => HeldBy(segments', m)
  BY ONLY <1>2, <1>3, NoneFresh
<1>7. ASSUME NEW r \in Reader
      PROVE  reader'[r] \in ReaderRow /\ ReaderSound(reader'[r], content', ids')
  <2>1. PICK row, late : row = reader[r] /\ late = (reader[r].at # "none") /\ late \in BOOLEAN
    OBVIOUS
  <2>2. row \in ReaderRow /\ ReaderSound(row, content, ids) /\ reader'[r] = [row EXCEPT !.outdated = late]
    BY <1>2, <1>3, <2>1 DEF AnchorInv
  <2>3. PICK run : run = [row EXCEPT !.outdated = late]
    OBVIOUS
  <2>4. run \in ReaderRow /\ run.segments = row.segments /\ run.at = row.at /\ run.outdated = late
        /\ row.segments \in Seq(SegmentRow)
    BY <2>1, <2>2, <2>3 DEF ReaderRow
  <2>5. OwnIds(run.segments, ids')
    <3>1. OwnIds(row.segments, ids)
      BY <2>2 DEF ReaderSound
    <3> QED
      BY ONLY <1>3, <1>5, <2>4, <3>1, IdsGrow
  <2>6. ~(run.at \in {"store", "summary", "extract", "mention"} /\ ~run.outdated)
    BY <2>1, <2>4
  <2>7. ReaderSound(run, content', ids')
    BY <2>5, <2>6 DEF ReaderSound
  <2> QED
    BY <2>2, <2>3, <2>4, <2>7
<1>8. reader' \in [Reader -> ReaderRow]
  <2>1. reader' = [r \in Reader |-> reader'[r]]
    BY <1>2
  <2> QED
    BY <1>7, <2>1
<1>9. AnchorTypeOK'
  BY <1>2, <1>5, <1>6, <1>8 DEF AnchorTypeOK
<1> QED
  BY <1>5, <1>6, <1>7, <1>9 DEF AnchorInv

LEMMA DeletionsKeep ==
  ASSUME AnchorInv, DeleteMentions \/ DeleteAnalysis
  PROVE  AnchorInv'
<1>1. CASE DeleteMentions
  BY <1>1 DEF DeleteMentions, AnchorInv, AnchorTypeOK
<1>2. CASE DeleteAnalysis
  <2>1. /\ mentions' = {} /\ segments' = <<>> /\ overwritten' = FALSE
        /\ content' = content /\ reader' = reader /\ ids' = ids
    BY <1>2 DEF DeleteAnalysis
  <2>2. OwnIds(segments', ids')
    BY <2>1, NoSegments
  <2>3. AnchorTypeOK'
    <3>1. mentions' \in SUBSET PlacedMention /\ segments' \in Seq(SegmentRow)
      BY <2>1
    <3>2. content' \in Drafts /\ ids' \in Nat /\ reader' \in [Reader -> ReaderRow] /\ overwritten' \in BOOLEAN
      BY <2>1 DEF AnchorInv, AnchorTypeOK
    <3> QED
      BY <3>1, <3>2 DEF AnchorTypeOK
  <2> QED
    BY <2>1, <2>2, <2>3 DEF AnchorInv
<1> QED
  BY <1>1, <1>2

\* What a step of a run changes, that leaves the documents alone.
LEMMA RunKeeps ==
  ASSUME AnchorInv, NEW r \in Reader, NEW run \in ReaderRow, ReaderSound(run, content, ids'),
         ids' \in Nat, ids <= ids', reader' = [reader EXCEPT ![r] = run],
         UNCHANGED <<content, segments, mentions, overwritten>>
  PROVE  AnchorInv'
<1>1. /\ reader \in [Reader -> ReaderRow] /\ ids \in Nat /\ segments \in Seq(SegmentRow) /\ OwnIds(segments, ids)
      /\ \A q \in Reader : ReaderSound(reader[q], content, ids)
  BY DEF AnchorInv, AnchorTypeOK
<1>2. content' = content /\ segments' = segments /\ mentions' = mentions /\ overwritten' = overwritten
  OBVIOUS
<1>3. reader' \in [Reader -> ReaderRow] /\ \A q \in Reader : ReaderSound(reader'[q], content', ids')
  BY <1>1, <1>2, ReaderMoves
<1>4. OwnIds(segments', ids')
  BY <1>1, <1>2, IdsGrow
<1>5. AnchorTypeOK'
  BY <1>2, <1>3 DEF AnchorInv, AnchorTypeOK
<1> QED
  BY <1>2, <1>3, <1>4, <1>5 DEF AnchorInv

LEMMA StartKeeps ==
  ASSUME AnchorInv, NEW r \in Reader, StartReading(r)
  PROVE  AnchorInv'
<1>1. PICK run : run = [NoReader EXCEPT !.content = content, !.segments = segments, !.outdated = overwritten,
                         !.at = IF HasValidSegments(segments, content) THEN "summary" ELSE "segment"]
  OBVIOUS
<1>2. PICK to : to = IF HasValidSegments(segments, content) THEN "summary" ELSE "segment"
  OBVIOUS
<1>3. run = [at |-> to, content |-> content, segments |-> segments, read |-> <<>>, outdated |-> overwritten]
  <2>1. run = [NoReader EXCEPT !.content = content, !.segments = segments, !.outdated = overwritten, !.at = to]
    BY <1>1, <1>2
  <2> QED
    BY ONLY <2>1 DEF NoReader
<1>4. reader' = [reader EXCEPT ![r] = run] /\ UNCHANGED <<content, segments, mentions, overwritten>> /\ ids' = ids
  BY <1>1 DEF StartReading
<1>5. /\ content \in Drafts /\ segments \in Seq(SegmentRow) /\ overwritten \in BOOLEAN /\ ids \in Nat
      /\ OwnIds(segments, ids) /\ (~overwritten => segments = <<>> \/ Fit(segments, content))
  BY DEF AnchorInv, AnchorTypeOK
<1>6. run \in ReaderRow
  BY <1>2, <1>3, <1>5 DEF ReaderRow, AnchorAt
<1>7. ASSUME to # "segment", ~overwritten PROVE Fit(segments, content)
  <2>1. segments # <<>>
    BY <1>2, <1>7 DEF HasValidSegments
  <2> QED
    BY <1>5, <1>7, <2>1
<1>8. ReaderSound(run, content, ids')
  <2>1. run.at = to /\ run.segments = segments /\ run.outdated = overwritten
    BY ONLY <1>3
  <2> QED
    BY <1>4, <1>5, <1>7, <2>1 DEF ReaderSound
<1>9. ids' \in Nat /\ ids <= ids'
  BY <1>4, <1>5
<1> QED
  BY ONLY AnchorInv, r \in Reader, <1>4, <1>6, <1>8, <1>9, RunKeeps

LEMMA SegmentKeeps ==
  ASSUME AnchorInv, NEW r \in Reader, UpdateDocumentSegments(r)
  PROVE  AnchorInv'
<1>1. PICK s \in ComputeSegments(content, segments) :
        /\ ids' = ids + Len(s)
        /\ reader' = [reader EXCEPT ![r].at = "store", ![r].segments = s, ![r].outdated = FALSE]
  BY DEF UpdateDocumentSegments, GiveIds
<1>2. /\ content \in Drafts /\ ids \in Nat /\ segments \in Seq(SegmentRow) /\ OwnIds(segments, ids)
      /\ reader \in [Reader -> ReaderRow]
  BY DEF AnchorInv, AnchorTypeOK
<1>3. s \in Seq(SegmentRow) /\ Fit(s, content) /\ OwnIds(s, ids + Len(s)) /\ Len(s) \in Nat
  BY ONLY <1>1, <1>2, SegmentsAre
<1>4. PICK row \in ReaderRow : row = reader[r]
  BY <1>2
<1>5. PICK run : run = [row EXCEPT !.at = "store", !.segments = s, !.outdated = FALSE]
  OBVIOUS
<1>6. run \in ReaderRow
  BY <1>3, <1>4, <1>5 DEF ReaderRow, AnchorAt
<1>7. run.at = "store" /\ run.segments = s /\ run.outdated = FALSE
  BY <1>4, <1>5 DEF ReaderRow
<1>8. reader' = [reader EXCEPT ![r] = run]
  BY <1>1, <1>2, <1>4, <1>5
<1>9. ReaderSound(run, content, ids')
  BY <1>1, <1>3, <1>7 DEF ReaderSound
<1>10. UNCHANGED <<content, segments, mentions, overwritten>> /\ ids' \in Nat /\ ids <= ids'
  BY <1>1, <1>2, <1>3 DEF UpdateDocumentSegments
<1> QED
  BY <1>6, <1>8, <1>9, <1>10, RunKeeps

\* What a step of a run changes, that writes the segments it has.
LEMMA WriteKeeps ==
  ASSUME AnchorInv, NEW r \in Reader, NEW run \in ReaderRow, ReaderSound(run, content, ids),
         reader[r].at \in {"store", "summary"}, reader' = [reader EXCEPT ![r] = run],
         segments' = reader[r].segments, overwritten' = reader[r].outdated,
         mentions' \in SUBSET PlacedMention, \A m \in mentions' : m.fresh => HeldBy(segments', m),
         content' = content, ids' = ids
  PROVE  AnchorInv'
<1>1. /\ reader \in [Reader -> ReaderRow] /\ ids \in Nat /\ content \in Drafts
      /\ \A q \in Reader : ReaderSound(reader[q], content, ids)
  BY DEF AnchorInv, AnchorTypeOK
<1>2. PICK row \in ReaderRow : row = reader[r]
  BY <1>1
<1>3. row.segments \in Seq(SegmentRow) /\ row.outdated \in BOOLEAN
  BY <1>2 DEF ReaderRow
<1>4. ids' \in Nat /\ ids <= ids' /\ ReaderSound(run, content, ids')
  BY <1>1
<1>5. reader' \in [Reader -> ReaderRow] /\ \A q \in Reader : ReaderSound(reader'[q], content', ids')
  BY <1>1, <1>4, ReaderMoves
<1>6. OwnIds(segments', ids') /\ (~overwritten' => Fit(segments', content'))
  BY <1>1, <1>2 DEF ReaderSound
<1>7. segments' \in Seq(SegmentRow) /\ overwritten' \in BOOLEAN
  BY <1>2, <1>3
<1>8. AnchorTypeOK'
  BY <1>1, <1>4, <1>5, <1>7 DEF AnchorTypeOK
<1> QED
  BY <1>5, <1>6, <1>8 DEF AnchorInv

LEMMA StoreKeeps ==
  ASSUME AnchorInv, NEW r \in Reader, StoreSegments(r)
  PROVE  AnchorInv'
<1>1. /\ reader \in [Reader -> ReaderRow] /\ mentions \in SUBSET PlacedMention
      /\ \A q \in Reader : ReaderSound(reader[q], content, ids)
  BY DEF AnchorInv, AnchorTypeOK
<1>2. PICK row \in ReaderRow : row = reader[r] /\ ReaderSound(row, content, ids)
  BY <1>1
<1>3. PICK late \in BOOLEAN : late = (row.outdated \/ row.content # content)
  BY <1>2 DEF ReaderRow
<1>4. PICK run : run = [row EXCEPT !.at = "summary", !.outdated = late]
  OBVIOUS
<1>5. run \in ReaderRow
  BY <1>2, <1>3, <1>4 DEF ReaderRow, AnchorAt
<1>6. run.segments = row.segments /\ run.outdated = late
  BY <1>2, <1>4 DEF ReaderRow
<1>7. reader' = [reader EXCEPT ![r].at = "summary", ![r].outdated = late]
  BY <1>2, <1>3 DEF StoreSegments
<1>8. reader' = [reader EXCEPT ![r] = run]
  BY <1>1, <1>2, <1>4, <1>7
<1>9. /\ row.at = "store" /\ segments' = row.segments /\ overwritten' = row.outdated
      /\ mentions' = {[m EXCEPT !.fresh = FALSE] : m \in mentions} /\ content' = content /\ ids' = ids
  BY <1>2 DEF StoreSegments
<1>10. mentions' \in SUBSET PlacedMention /\ \A m \in mentions' : m.fresh => HeldBy(segments', m)
  BY ONLY <1>1, <1>9, NoneFresh
<1>11. ReaderSound(run, content, ids)
  <2>1. OwnIds(row.segments, ids) /\ (~row.outdated => Fit(row.segments, content))
    BY <1>2, <1>9 DEF ReaderSound
  <2> QED
    BY <1>3, <1>6, <2>1 DEF ReaderSound
<1> QED
  BY <1>2, <1>5, <1>8, <1>9, <1>10, <1>11, WriteKeeps

LEMMA SummariesKeep ==
  ASSUME AnchorInv, NEW r \in Reader, StoreSummaries(r)
  PROVE  AnchorInv'
<1>1. /\ reader \in [Reader -> ReaderRow] /\ mentions \in SUBSET PlacedMention
      /\ \A q \in Reader : ReaderSound(reader[q], content, ids)
      /\ \A m \in mentions : m.fresh => HeldBy(segments, m)
  BY DEF AnchorInv, AnchorTypeOK
<1>2. PICK row \in ReaderRow : row = reader[r] /\ ReaderSound(row, content, ids)
  BY <1>1
<1>3. PICK same \in BOOLEAN : same = (segments' = segments)
  OBVIOUS
<1>4. PICK run : run = [row EXCEPT !.at = "extract"]
  OBVIOUS
<1>5. run \in ReaderRow
  BY <1>2, <1>4 DEF ReaderRow, AnchorAt
<1>6. run.segments = row.segments /\ run.outdated = row.outdated
  BY <1>2, <1>4 DEF ReaderRow
<1>7. reader' = [reader EXCEPT ![r].at = "extract"]
  BY DEF StoreSummaries
<1>8. reader' = [reader EXCEPT ![r] = run]
  BY <1>1, <1>2, <1>4, <1>7
<1>9. row.at = "summary" /\ segments' = row.segments /\ overwritten' = row.outdated /\ content' = content /\ ids' = ids
  BY <1>2 DEF StoreSummaries
<1>10. mentions' = {[m EXCEPT !.fresh = @ /\ same] : m \in mentions}
  BY <1>3 DEF StoreSummaries
<1>11. same => \A m \in mentions : m.fresh => HeldBy(segments', m)
  BY <1>1, <1>3
<1>12. mentions' \in SUBSET PlacedMention /\ \A m \in mentions' : m.fresh => HeldBy(segments', m)
  BY ONLY <1>1, <1>3, <1>10, <1>11, NotFresh
<1>13. ReaderSound(run, content, ids)
  <2>1. OwnIds(row.segments, ids) /\ (~row.outdated => Fit(row.segments, content))
    BY <1>2, <1>9 DEF ReaderSound
  <2> QED
    BY <1>6, <2>1 DEF ReaderSound
<1> QED
  BY <1>2, <1>5, <1>8, <1>9, <1>12, <1>13, WriteKeeps

LEMMA ReadKeeps ==
  ASSUME AnchorInv, NEW r \in Reader, ReadSegments(r) \/ EndReading(r)
  PROVE  AnchorInv'
<1>1. /\ reader \in [Reader -> ReaderRow] /\ segments \in Seq(SegmentRow) /\ ids \in Nat
      /\ \A q \in Reader : ReaderSound(reader[q], content, ids)
  BY DEF AnchorInv, AnchorTypeOK
<1>2. UNCHANGED <<content, segments, mentions, overwritten>> /\ ids' = ids /\ ids' \in Nat /\ ids <= ids'
  BY <1>1 DEF ReadSegments, EndReading
<1>3. CASE ReadSegments(r)
  <2>1. PICK row \in ReaderRow : row = reader[r] /\ ReaderSound(row, content, ids)
    BY <1>1
  <2>2. PICK run : run = [row EXCEPT !.at = "mention", !.read = segments]
    OBVIOUS
  <2>3. run \in ReaderRow
    BY <1>1, <2>1, <2>2 DEF ReaderRow, AnchorAt
  <2>4. run.segments = row.segments /\ run.outdated = row.outdated
    BY <2>1, <2>2 DEF ReaderRow
  <2>5. reader' = [reader EXCEPT ![r].at = "mention", ![r].read = segments] /\ row.at = "extract"
    BY <1>3, <2>1 DEF ReadSegments
  <2>6. reader' = [reader EXCEPT ![r] = run]
    BY <1>1, <2>1, <2>2, <2>5
  <2>7. ReaderSound(run, content, ids')
    <3>1. OwnIds(row.segments, ids) /\ (~row.outdated => Fit(row.segments, content))
      BY <2>1, <2>5 DEF ReaderSound
    <3> QED
      BY <1>2, <2>4, <3>1 DEF ReaderSound
  <2> QED
    BY ONLY AnchorInv, r \in Reader, <1>2, <2>3, <2>6, <2>7, RunKeeps
<1>4. CASE EndReading(r)
  <2>1. reader' = [reader EXCEPT ![r] = NoReader]
    BY <1>4 DEF EndReading
  <2>2. NoReader \in ReaderRow /\ ReaderSound(NoReader, content, ids')
    BY NoReaderIs
  <2> QED
    BY ONLY AnchorInv, r \in Reader, <1>2, <2>1, <2>2, RunKeeps
<1> QED
  BY <1>3, <1>4

LEMMA PlacesAre ==
  ASSUME NEW text, NEW phrase, Places(text, phrase) # {}
  PROVE  Min(Places(text, phrase)) \in Nat
<1>1. PICK places : places = Places(text, phrase)
  OBVIOUS
<1>2. places \in SUBSET Nat
  <2>1. ASSUME NEW p \in places PROVE p \in Nat
    <3>1. p \in 0..(Len(text) - Len(phrase))
      BY <1>1, <2>1 DEF Places
    <3> QED
      BY <3>1
  <2> QED
    BY <2>1
<1>3. Min(places) \in places
  BY <1>1, <1>2, LeastIsThere
<1> QED
  BY <1>1, <1>2, <1>3

\* The mention is placed in the segment that its position lies in.
LEMMA AnchorIs ==
  ASSUME NEW s \in Seq(SegmentRow), DistinctIds(s), NEW at \in Int, SegmentAt(s, at) # {},
         NEW m, m.segmentId = s[Min(SegmentAt(s, at))].id,
         m.relativeStart = at - s[Min(SegmentAt(s, at))].start, m.at = at
  PROVE  m.segmentId \in Int /\ m.relativeStart \in Int /\ HeldBy(s, m)
<1>1. PICK here, e : here = SegmentAt(s, at) /\ e = Min(here)
  OBVIOUS
<1>2. here \in SUBSET (1..Len(s))
  BY <1>1 DEF SegmentAt
<1>3. Min(here) \in here
  <2>1. here \in SUBSET Nat
    BY <1>2
  <2> QED
    BY <1>1, <2>1, LeastIsThere
<1>4. e \in 1..Len(s)
  BY <1>1, <1>2, <1>3
<1>5. s[e] \in SegmentRow
  BY <1>4
<1>6. s[e].id \in Int /\ s[e].start \in Nat
  BY <1>5 DEF SegmentRow
<1>7. m.segmentId = s[e].id /\ m.relativeStart = at - s[e].start
  BY <1>1
<1>8. OfId(s, m.segmentId) = {e}
  <2>1. ASSUME NEW i \in 1..Len(s), s[i].id = s[e].id PROVE i = e
    BY <1>4, <2>1 DEF DistinctIds
  <2> QED
    BY <1>4, <1>7, <2>1 DEF OfId
<1>9. Min({e}) = e
  <2>1. e \in Nat
    BY <1>4
  <2>2. {e} \in SUBSET Nat /\ {e} # {}
    BY <2>1
  <2> QED
    BY <2>2, LeastIsThere
<1>10. s[e].start + m.relativeStart = m.at
  BY <1>6, <1>7
<1> QED
  BY <1>6, <1>7, <1>8, <1>9, <1>10 DEF HeldBy

LEMMA MentionKeeps ==
  ASSUME AnchorInv, NEW r \in Reader, NEW i, NEW phrase \in Phrase, CreateMention(r, i, phrase)
  PROVE  AnchorInv'
<1>1. /\ reader \in [Reader -> ReaderRow] /\ mentions \in SUBSET PlacedMention /\ segments \in Seq(SegmentRow)
      /\ \A q \in Reader : ReaderSound(reader[q], content, ids)
      /\ \A m \in mentions : m.fresh => HeldBy(segments, m)
  BY DEF AnchorInv, AnchorTypeOK
<1>2. PICK row \in ReaderRow : row = reader[r] /\ ReaderSound(row, content, ids)
  BY <1>1
<1>3. row.segments \in Seq(SegmentRow) /\ row.read \in Seq(SegmentRow) /\ row.outdated \in BOOLEAN
      /\ DistinctIds(row.segments)
  BY <1>2 DEF ReaderRow, ReaderSound, OwnIds
<1>4. PICK those, segment, text, at :
        /\ those = OfId(reader[r].segments, reader[r].read[i].id)
        /\ segment = reader[r].segments[Min(those)]
        /\ text = Slice(reader[r].content, segment.start, segment.end)
        /\ at = segment.start + Min(Places(text, phrase))
  OBVIOUS
<1>5. PICK f \in BOOLEAN :
        f = (~reader[r].outdated /\ reader[r].read = reader[r].segments /\ segments = reader[r].segments)
  OBVIOUS
<1>6. PICK new : new = [segmentId |-> Anchor(r, at).segmentId, relativeStart |-> Anchor(r, at).relativeStart,
                        text |-> phrase, at |-> at, fresh |-> f]
  OBVIOUS
<1>7. /\ those # {} /\ Places(text, phrase) # {} /\ SegmentAt(reader[r].segments, at) # {}
      /\ mentions' = mentions \cup {new}
      /\ UNCHANGED <<content, segments, reader, ids, overwritten>>
  BY <1>4, <1>5, <1>6 DEF CreateMention
<1>8. at \in Int
  <2>1. those \in SUBSET (1..Len(row.segments))
    BY <1>2, <1>4 DEF OfId
  <2>2. those \in SUBSET Nat
    BY <1>3, <2>1
  <2>3. Min(those) \in those
    BY <1>7, <2>2, LeastIsThere
  <2>4. row.segments[Min(those)] \in SegmentRow
    BY <1>3, <2>1, <2>3
  <2>5. segment.start \in Nat
    BY <1>2, <1>4, <2>4 DEF SegmentRow
  <2>6. Min(Places(text, phrase)) \in Nat
    BY <1>7, PlacesAre
  <2>7. PICK from, by : from = segment.start /\ by = Min(Places(text, phrase))
    OBVIOUS
  <2>8. from \in Nat /\ by \in Nat /\ at = from + by
    BY <1>4, <2>5, <2>6, <2>7
  <2> QED
    BY ONLY <2>8
<1>9. /\ new.segmentId = row.segments[Min(SegmentAt(row.segments, at))].id
      /\ new.relativeStart = at - row.segments[Min(SegmentAt(row.segments, at))].start
      /\ new.at = at /\ new.fresh = f /\ new.text = phrase
  BY <1>2, <1>6 DEF Anchor
<1>10. new.segmentId \in Int /\ new.relativeStart \in Int /\ HeldBy(row.segments, new)
  BY <1>2, <1>3, <1>7, <1>8, <1>9, AnchorIs
<1>11. new \in PlacedMention
  BY <1>5, <1>6, <1>8, <1>9, <1>10 DEF PlacedMention
<1>12. new.fresh => HeldBy(segments, new)
  BY <1>2, <1>5, <1>9, <1>10
<1>13. mentions' \in SUBSET PlacedMention /\ \A m \in mentions' : m.fresh => HeldBy(segments', m)
  BY <1>1, <1>7, <1>11, <1>12
<1>14. AnchorTypeOK'
  BY <1>7, <1>13 DEF AnchorInv, AnchorTypeOK
<1> QED
  BY <1>7, <1>13, <1>14 DEF AnchorInv

LEMMA AnchorInvariant == AnchorSpec => []AnchorInv
<1>1. AnchorInit => AnchorInv
  BY AnchorStart
<1>2. AnchorInv /\ [AnchorNext]_anchorVars => AnchorInv'
  <2> SUFFICES ASSUME AnchorInv, [AnchorNext]_anchorVars PROVE AnchorInv'
    OBVIOUS
  <2>1. CASE \E text \in Drafts : UpdateDocument(text)
    BY <2>1, UpdateKeeps
  <2>2. CASE DeleteMentions \/ DeleteAnalysis
    BY <2>2, DeletionsKeep
  <2>3. ASSUME NEW r \in Reader, StartReading(r) PROVE AnchorInv'
    BY <2>3, StartKeeps
  <2>4. ASSUME NEW r \in Reader, UpdateDocumentSegments(r) PROVE AnchorInv'
    BY <2>4, SegmentKeeps
  <2>5. ASSUME NEW r \in Reader, StoreSegments(r) PROVE AnchorInv'
    BY <2>5, StoreKeeps
  <2>6. ASSUME NEW r \in Reader, StoreSummaries(r) PROVE AnchorInv'
    BY <2>6, SummariesKeep
  <2>7. ASSUME NEW r \in Reader, ReadSegments(r) \/ EndReading(r) PROVE AnchorInv'
    BY <2>7, ReadKeeps
  <2>8. ASSUME NEW r \in Reader, NEW i \in 1..MaxIds, NEW phrase \in Phrase, CreateMention(r, i, phrase)
        PROVE  AnchorInv'
    BY <2>8, MentionKeeps
  <2>9. CASE UNCHANGED anchorVars
    BY <2>9 DEF anchorVars, AnchorInv, AnchorTypeOK
  <2> QED
    BY <2>1, <2>2, <2>3, <2>4, <2>5, <2>6, <2>7, <2>8, <2>9 DEF AnchorNext
<1> QED
  BY <1>1, <1>2, PTL DEF AnchorSpec

\* What is stored cuts the content into parts of bounded size with ids of their own,
\* unless a run has written over a later save, and a mention that was made from it is
\* shown where it was found: for every set of texts and runs, however they interleave.
THEOREM AnchorsAreHeld == AnchorSpec => []AnchorsHold
<1>1. AnchorInv => AnchorsHold
  <2> SUFFICES ASSUME AnchorInv PROVE AnchorsHold
    OBVIOUS
  <2>1. DistinctIds(segments) /\ (~overwritten => segments = <<>> \/ Fit(segments, content))
    BY DEF AnchorInv, OwnIds
  <2>2. ASSUME NEW m \in mentions, m.fresh PROVE Shown(m) = m.at
    <3>1. HeldBy(segments, m)
      BY <2>2 DEF AnchorInv
    <3> QED
      BY <3>1 DEF HeldBy, Shown
  <2> QED
    BY <2>1, <2>2 DEF AnchorsHold
<1> QED
  BY <1>1, AnchorInvariant, PTL

-----------------------------------------------------------------------------
(* CausalAnalysis: the graph. *)

LEMMA EdgeIs ==
  ASSUME causes \in SUBSET (Event \X Event), NEW n, NEW m
  PROVE  /\ m \in From(n) <=> <<n, m>> \in causes
         /\ n \in Antecedents(m) <=> <<n, m>> \in causes
         /\ <<n, m>> \in causes => n \in Event /\ m \in Event
<1>1. ASSUME NEW e \in causes PROVE e = <<e[1], e[2]>> /\ e[1] \in Event /\ e[2] \in Event
  OBVIOUS
<1>2. ASSUME m \in From(n) PROVE <<n, m>> \in causes
  <2>1. PICK e \in causes : e[1] = n /\ e[2] = m
    BY <1>2 DEF From
  <2> QED
    BY <1>1, <2>1
<1>3. ASSUME n \in Antecedents(m) PROVE <<n, m>> \in causes
  <2>1. PICK e \in causes : e[1] = n /\ e[2] = m
    BY <1>3 DEF Antecedents
  <2> QED
    BY <1>1, <2>1
<1>4. ASSUME <<n, m>> \in causes PROVE m \in From(n) /\ n \in Antecedents(m)
  <2>1. PICK e \in causes : e = <<n, m>>
    BY <1>4
  <2>2. e[1] = n /\ e[2] = m
    BY <2>1
  <2> QED
    BY <2>2 DEF From, Antecedents
<1>5. <<n, m>> \in causes => n \in Event /\ m \in Event
  OBVIOUS
<1> QED
  BY <1>2, <1>3, <1>4, <1>5

LEMMA NeighboursAre ==
  ASSUME causes \in SUBSET (Event \X Event), NEW n, NEW m, m \in Neighbours(n)
  PROVE  n \in Neighbours(m) /\ m \in Event /\ n \in Event
<1>1. CASE m \in From(n)
  BY <1>1, EdgeIs DEF Neighbours
<1>2. CASE m \in Antecedents(n)
  BY <1>2, EdgeIs DEF Neighbours
<1> QED
  BY <1>1, <1>2 DEF Neighbours

LEMMA AntecedentsAre ==
  ASSUME causes \in SUBSET (Event \X Event), NEW n
  PROVE  Antecedents(n) \in SUBSET Event /\ From(n) \in SUBSET Event /\ IsFiniteSet(Antecedents(n))
<1>1. ASSUME NEW m PROVE (m \in Antecedents(n) => m \in Event) /\ (m \in From(n) => m \in Event)
  BY EdgeIs
<1>2. Antecedents(n) \in SUBSET Event /\ From(n) \in SUBSET Event
  BY <1>1
<1> QED
  BY <1>2, FS_Subset, CausalAnalysisAssumption

\* What the search visits is connected with where it starts.
LEMMA ConnectedLeast ==
  ASSUME NEW W, NEW n, NEW S \in SUBSET W, n \in S, Spreads(S, W)
  PROVE  Connected(n, W) \subseteq S
BY DEF Connected

LEMMA ConnectedItself ==
  ASSUME NEW W, NEW n \in W
  PROVE  n \in Connected(n, W) /\ Connected(n, W) \in SUBSET W /\ Spreads(Connected(n, W), W)
<1>1. n \in Connected(n, W) /\ Connected(n, W) \in SUBSET W
  BY DEF Connected
<1>2. ASSUME NEW k \in Connected(n, W), NEW m \in Neighbours(k) \cap W PROVE m \in Connected(n, W)
  <2>1. ASSUME NEW S \in SUBSET W, n \in S, Spreads(S, W) PROVE m \in S
    <3>1. k \in S
      BY <2>1 DEF Connected
    <3> QED
      BY <2>1, <3>1 DEF Spreads
  <2> QED
    BY <2>1 DEF Connected
<1> QED
  BY <1>1, <1>2 DEF Spreads

LEMMA ConnectedOn ==
  ASSUME NEW W, NEW n, NEW m \in Connected(n, W), NEW k \in Connected(m, W)
  PROVE  k \in Connected(n, W)
BY DEF Connected

LEMMA ConnectedBack ==
  ASSUME causes \in SUBSET (Event \X Event), NEW W \in SUBSET Event, NEW n \in W, NEW m \in Connected(n, W)
  PROVE  n \in Connected(m, W)
<1>1. PICK S : S = {x \in W : n \in Connected(x, W)}
  OBVIOUS
<1>2. n \in S
  BY <1>1, ConnectedItself
<1>3. ASSUME NEW k \in S, NEW x \in Neighbours(k) \cap W PROVE x \in S
  <2>1. x \in W /\ k \in W /\ n \in Connected(k, W)
    BY <1>1
  <2>2. k \in Neighbours(x)
    BY NeighboursAre
  <2>3. x \in Connected(x, W) /\ Spreads(Connected(x, W), W)
    BY <2>1, ConnectedItself
  <2>4. k \in Connected(x, W)
    BY <2>1, <2>2, <2>3 DEF Spreads
  <2>5. n \in Connected(x, W)
    BY <2>1, <2>4, ConnectedOn
  <2> QED
    BY <1>1, <2>1, <2>5
<1>4. Spreads(S, W)
  BY <1>3 DEF Spreads
<1>5. S \in SUBSET W
  BY <1>1
<1>6. m \in S
  BY <1>2, <1>4, <1>5, ConnectedLeast
<1> QED
  BY <1>1, <1>6

LEMMA ConnectedSame ==
  ASSUME causes \in SUBSET (Event \X Event), NEW W \in SUBSET Event, NEW n \in W, NEW m \in Connected(n, W)
  PROVE  Connected(m, W) = Connected(n, W)
<1>1. n \in Connected(m, W)
  BY ConnectedBack
<1>2. \A k \in Connected(m, W) : k \in Connected(n, W)
  BY ConnectedOn
<1>3. \A k \in Connected(n, W) : k \in Connected(m, W)
  BY <1>1, ConnectedOn
<1> QED
  BY <1>2, <1>3

LEMMA TwoOfThem ==
  ASSUME NEW S, IsFiniteSet(S)
  PROVE  Cardinality(S) > 1 <=> \E x, y \in S : x # y
<1>1. Cardinality(S) \in Nat
  BY FS_CardinalityType
<1>2. Cardinality(S) = 0 <=> S = {}
  BY FS_EmptySet
<1>3. Cardinality(S) = 1 <=> \E x : S = {x}
  BY FS_Singleton
<1>4. ASSUME Cardinality(S) > 1 PROVE \E x, y \in S : x # y
  <2>1. S # {} /\ ~\E x : S = {x}
    BY <1>2, <1>3, <1>4
  <2>2. PICK x \in S : TRUE
    BY <2>1
  <2>3. S # {x}
    BY <2>1
  <2> QED
    BY <2>2, <2>3
<1>5. ASSUME NEW x \in S, NEW y \in S, x # y PROVE Cardinality(S) > 1
  <2>1. S # {} /\ ~\E z : S = {z}
    BY <1>5
  <2>2. Cardinality(S) # 0 /\ Cardinality(S) # 1
    BY <1>2, <1>3, <2>1
  <2> QED
    BY <1>1, <2>2
<1> QED
  BY <1>4, <1>5

\* A node is pivotal just when it parts two of its neighbours.
LEMMA PivotalIs ==
  ASSUME causes \in SUBSET (Event \X Event), NEW n \in Event
  PROVE  CountComponents(Event \ {n}) > CountComponents(Event)
           <=> \E x, y \in Neighbours(n) \ {n} : y \notin Connected(x, Event \ {n})
<1>1. PICK W, C : W = Event \ {n} /\ C = Connected(n, Event)
  OBVIOUS
<1>2. PICK E, P, R, Q : /\ E = {Connected(x, Event) : x \in Event} /\ P = {Connected(x, W) : x \in W}
                        /\ R = {Connected(x, Event) : x \in Event \ C} /\ Q = {Connected(x, W) : x \in C \ {n}}
  OBVIOUS
<1>3. n \in C /\ C \in SUBSET Event /\ Spreads(C, Event) /\ W \in SUBSET Event
  BY <1>1, ConnectedItself
<1>4. ASSUME NEW x \in C PROVE x \in Event /\ Connected(x, Event) = C
  BY <1>1, <1>3, ConnectedSame
<1>5. ASSUME NEW x \in Event \ C PROVE n \notin Connected(x, Event) /\ x \in W
  <2>1. x # n
    BY <1>3
  <2>2. n \in Connected(x, Event) => x \in C
    BY <1>1, ConnectedBack
  <2> QED
    BY <1>1, <2>1, <2>2
<1>6. ASSUME NEW x \in Event \ C PROVE Connected(x, Event) = Connected(x, W)
  <2>1. PICK big, small : big = Connected(x, Event) /\ small = Connected(x, W)
    OBVIOUS
  <2>2. x \in big /\ big \in SUBSET Event /\ Spreads(big, Event) /\ n \notin big
    BY <1>5, <2>1, ConnectedItself
  <2>3. x \in small /\ small \in SUBSET W /\ Spreads(small, W)
    BY <1>5, <2>1, ConnectedItself
  <2>4. big \in SUBSET W
    BY <1>1, <2>2
  <2>5. Spreads(big, W)
    BY <1>3, <2>2 DEF Spreads
  <2>6. small \subseteq big
    BY <2>1, <2>2, <2>4, <2>5, ConnectedLeast
  <2>7. Spreads(small, Event)
    <3>1. ASSUME NEW k \in small, NEW m \in Neighbours(k) \cap Event PROVE m \in small
      <4>1. m \in big
        BY <2>2, <2>6 DEF Spreads
      <4>2. m \in W
        BY <2>4, <4>1
      <4> QED
        BY <2>3, <4>2 DEF Spreads
    <3> QED
      BY <3>1 DEF Spreads
  <2>8. big \subseteq small
    <3>1. small \in SUBSET Event
      BY <1>3, <2>3
    <3> QED
      BY <2>1, <2>3, <2>7, <3>1, ConnectedLeast
  <2> QED
    BY <2>1, <2>6, <2>8
<1>7. E = R \cup {C} /\ C \notin R
  <2>1. \A c \in E : c \in R \cup {C}
    BY <1>2, <1>4
  <2>2. \A c \in R \cup {C} : c \in E
    BY <1>1, <1>2
  <2>3. ASSUME NEW x \in Event \ C PROVE Connected(x, Event) # C
    BY ConnectedItself
  <2> QED
    BY <1>2, <2>1, <2>2, <2>3
<1>8. P = Q \cup R /\ Q \cap R = {}
  <2>1. ASSUME NEW x \in W PROVE Connected(x, W) \in Q \cup R
    <3>1. CASE x \in C
      BY <1>1, <1>2, <3>1
    <3>2. CASE x \notin C
      <4>1. x \in Event \ C
        BY <1>1, <3>2
      <4> QED
        BY <1>2, <1>6, <4>1
    <3> QED
      BY <3>1, <3>2
  <2>2. ASSUME NEW x \in C \ {n} PROVE Connected(x, W) \in P
    BY <1>1, <1>2, <1>3
  <2>3. ASSUME NEW x \in Event \ C PROVE Connected(x, Event) \in P
    BY <1>2, <1>5, <1>6
  <2>4. ASSUME NEW x \in C \ {n}, NEW y \in Event \ C PROVE Connected(x, W) # Connected(y, Event)
    <3>1. x \in W
      BY <1>1, <1>3
    <3>2. x \in Connected(x, W)
      BY <3>1, ConnectedItself
    <3>3. x \in Connected(y, Event) => y \in Connected(x, Event)
      BY ConnectedBack
    <3>4. Connected(x, Event) = C
      BY <1>4
    <3> QED
      BY <3>2, <3>3, <3>4
  <2>5. \A c \in P : c \in Q \cup R
    BY <1>2, <2>1
  <2>6. \A c \in Q \cup R : c \in P
    BY <1>2, <2>2, <2>3
  <2>7. \A c \in Q : c \notin R
    BY <1>2, <2>4
  <2> QED
    BY <2>5, <2>6, <2>7
<1>9. IsFiniteSet(E) /\ IsFiniteSet(P) /\ IsFiniteSet(R) /\ IsFiniteSet(Q)
  <2>1. IsFiniteSet(SUBSET Event)
    BY CausalAnalysisAssumption, FS_SUBSET
  <2>2. \A x \in Event : Connected(x, Event) \in SUBSET Event
    BY DEF Connected
  <2>3. \A x \in W : Connected(x, W) \in SUBSET Event
    BY <1>3 DEF Connected
  <2>4. E \in SUBSET (SUBSET Event) /\ P \in SUBSET (SUBSET Event)
    BY <1>2, <2>2, <2>3
  <2>5. R \in SUBSET (SUBSET Event) /\ Q \in SUBSET (SUBSET Event)
    BY <1>7, <1>8, <2>4
  <2> QED
    BY <2>1, <2>4, <2>5, FS_Subset
<1>10. Cardinality(E) = Cardinality(R) + 1
  BY <1>7, <1>9, FS_AddElement
<1>11. Cardinality(P) = Cardinality(Q) + Cardinality(R)
  <2>1. Cardinality(P) = Cardinality(Q) + Cardinality(R) - Cardinality(Q \cap R)
    BY <1>8, <1>9, FS_Union
  <2>2. Cardinality(Q \cap R) = 0
    BY <1>8, FS_EmptySet
  <2>3. Cardinality(Q) \in Nat /\ Cardinality(R) \in Nat
    BY <1>9, FS_CardinalityType
  <2> QED
    BY <2>1, <2>2, <2>3
<1>12. CountComponents(W) > CountComponents(Event) <=> \E p, q \in Q : p # q
  <2>1. CountComponents(Event) = Cardinality(E) /\ CountComponents(W) = Cardinality(P)
    BY <1>2 DEF CountComponents
  <2>2. Cardinality(Q) \in Nat /\ Cardinality(R) \in Nat
    BY <1>9, FS_CardinalityType
  <2>3. Cardinality(P) > Cardinality(E) <=> Cardinality(Q) > 1
    BY ONLY <1>10, <1>11, <2>2
  <2>4. Cardinality(Q) > 1 <=> \E p, q \in Q : p # q
    BY <1>9, TwoOfThem
  <2> QED
    BY <2>1, <2>3, <2>4
<1>13. ASSUME NEW x \in C \ {n} PROVE \E y \in Neighbours(n) \ {n} : Connected(x, W) = Connected(y, W)
  <2>1. PICK S : S = {n} \cup {z \in W : \E y \in Neighbours(n) \ {n} : z \in Connected(y, W)}
    OBVIOUS
  <2>2. S \in SUBSET Event /\ n \in S
    BY <1>1, <2>1
  <2>3. ASSUME NEW k \in S, NEW m \in Neighbours(k) \cap Event PROVE m \in S
    <3>1. CASE m = n
      BY <2>1, <3>1
    <3>2. CASE m # n /\ k = n
      <4>1. m \in W /\ m \in Neighbours(n) \ {n}
        BY <1>1, <3>2
      <4>2. m \in Connected(m, W)
        BY <4>1, ConnectedItself
      <4> QED
        BY <2>1, <4>1, <4>2
    <3>3. CASE m # n /\ k # n
      <4>1. m \in W
        BY <1>1, <3>3
      <4>2. PICK y \in Neighbours(n) \ {n} : k \in Connected(y, W)
        BY <2>1, <3>3
      <4>3. y \in W
        BY <1>1, <4>2, NeighboursAre
      <4>4. m \in Connected(y, W)
        BY <4>1, <4>2, <4>3, ConnectedItself DEF Spreads
      <4> QED
        BY <2>1, <4>1, <4>4
    <3> QED
      BY <3>1, <3>2, <3>3
  <2>4. Spreads(S, Event)
    BY <2>3 DEF Spreads
  <2>5. C \subseteq S
    BY <1>1, <2>2, <2>4, ConnectedLeast
  <2>6. PICK y \in Neighbours(n) \ {n} : x \in Connected(y, W)
    BY <2>1, <2>5
  <2>7. y \in W
    BY <1>1, <2>6, NeighboursAre
  <2>8. Connected(x, W) = Connected(y, W)
    BY <1>3, <2>6, <2>7, ConnectedSame
  <2> QED
    BY <2>6, <2>8
<1>14. ASSUME NEW p \in Q, NEW q \in Q, p # q
       PROVE  \E x, y \in Neighbours(n) \ {n} : y \notin Connected(x, W)
  <2>1. PICK x, y \in Neighbours(n) \ {n} : p = Connected(x, W) /\ q = Connected(y, W)
    BY <1>2, <1>13
  <2>2. x \in W
    BY <1>1, <2>1, NeighboursAre
  <2>3. y \in Connected(x, W) => Connected(y, W) = Connected(x, W)
    BY <1>3, <2>2, ConnectedSame
  <2> QED
    BY <1>14, <2>1, <2>3
<1>15. ASSUME NEW x \in Neighbours(n) \ {n}, NEW y \in Neighbours(n) \ {n}, y \notin Connected(x, W)
       PROVE  \E p, q \in Q : p # q
  <2>1. x \in Event /\ y \in Event
    BY NeighboursAre
  <2>2. x \in C \ {n} /\ y \in C \ {n}
    BY <1>3, <2>1 DEF Spreads
  <2>3. y \in Connected(y, W)
    <3>1. y \in W
      BY <1>1, <2>1
    <3> QED
      BY <3>1, ConnectedItself
  <2>4. Connected(x, W) \in Q /\ Connected(y, W) \in Q /\ Connected(x, W) # Connected(y, W)
    BY <1>2, <1>15, <2>2, <2>3
  <2> QED
    BY <2>4
<1> QED
  BY <1>1, <1>12, <1>14, <1>15

-----------------------------------------------------------------------------
(* CausalAnalysis: the queue. *)

Once(s) == \A i, j \in 1..Len(s) : s[i] = s[j] => i = j

\* s has each of S once, first those that are first in the document.
Queued(s, S) == s \in Seq(Event) /\ Once(s) /\ Sorted(s) /\ Range(s) = S

LEMMA RangeIs ==
  ASSUME NEW S, NEW s \in Seq(S)
  PROVE  Range(s) \in SUBSET S /\ \A x : x \in Range(s) <=> \E i \in 1..Len(s) : s[i] = x
<1>1. DOMAIN s = 1..Len(s) /\ \A i \in 1..Len(s) : s[i] \in S
  OBVIOUS
<1> QED
  BY <1>1 DEF Range

LEMMA HeadIs ==
  ASSUME NEW q \in Seq(Event), q # <<>>, NEW S, S = Range(Tail(q))
  PROVE  /\ Head(q) \in Event /\ Tail(q) \in Seq(Event) /\ Range(q) = S \cup {Head(q)}
         /\ Once(q) => Once(Tail(q)) /\ Head(q) \notin S
         /\ Sorted(q) => Sorted(Tail(q))
<1>1. PICK n, t, len : n = Head(q) /\ t = Tail(q) /\ len = Len(q)
  OBVIOUS
<1>2. /\ len \in Nat /\ len > 0 /\ n \in Event /\ n = q[1] /\ t \in Seq(Event) /\ Len(t) = len - 1
      /\ \A i \in 1..(len - 1) : t[i] = q[i + 1]
  BY <1>1
<1>3. \A x : x \in Range(q) <=> \E i \in 1..len : q[i] = x
  BY <1>1, RangeIs
<1>4. \A x : x \in S <=> \E i \in 1..(len - 1) : t[i] = x
  <2>1. S = Range(t) /\ t \in Seq(Event) /\ Len(t) = len - 1
    BY <1>1, <1>2
  <2>2. \A x : x \in Range(t) <=> \E i \in 1..Len(t) : t[i] = x
    BY ONLY <2>1, RangeIs
  <2> QED
    BY ONLY <2>1, <2>2
<1>5. ASSUME NEW i \in 1..(len - 1) PROVE i + 1 \in 1..len /\ i + 1 # 1 /\ t[i] = q[i + 1]
  BY <1>2
<1>6. ASSUME NEW i \in 1..len PROVE i = 1 \/ (i - 1 \in 1..(len - 1) /\ t[i - 1] = q[i])
  BY <1>2
<1>7. Range(q) = S \cup {n}
  <2>1. ASSUME NEW x \in Range(q) PROVE x \in S \cup {n}
    BY <1>2, <1>3, <1>4, <1>6
  <2>2. ASSUME NEW x \in S PROVE x \in Range(q)
    BY <1>3, <1>4, <1>5
  <2>3. n \in Range(q)
    <3>1. 1 \in 1..len
      BY <1>2
    <3> QED
      BY <1>2, <1>3, <3>1
  <2> QED
    BY <2>1, <2>2, <2>3
<1>8. ASSUME Once(q) PROVE Once(t) /\ n \notin S
  <2>1. \A i, j \in 1..len : q[i] = q[j] => i = j
    BY <1>1, <1>8 DEF Once
  <2>2. ASSUME NEW i \in 1..(len - 1), NEW j \in 1..(len - 1), t[i] = t[j] PROVE i = j
    <3>1. i + 1 = j + 1
      BY <1>5, <2>1, <2>2
    <3> QED
      BY <3>1
  <2>3. ASSUME NEW i \in 1..(len - 1) PROVE t[i] # n
    <3>1. 1 \in 1..len
      BY <1>2
    <3> QED
      BY <1>2, <1>5, <2>1, <3>1
  <2> QED
    BY <1>2, <1>4, <2>2, <2>3 DEF Once
<1>9. ASSUME Sorted(q) PROVE Sorted(t)
  <2>1. \A i, j \in 1..len : i < j => documentOrder[q[i]] <= documentOrder[q[j]]
    BY <1>1, <1>9 DEF Sorted
  <2>2. ASSUME NEW i \in 1..(len - 1), NEW j \in 1..(len - 1), i < j
        PROVE  documentOrder[t[i]] <= documentOrder[t[j]]
    <3>1. i + 1 < j + 1
      BY <2>2
    <3> QED
      BY <1>5, <2>1, <3>1
  <2> QED
    BY <1>2, <2>2 DEF Sorted
<1> QED
  BY <1>1, <1>2, <1>7, <1>8, <1>9

\* Where n goes: at p, before all that come later in the document.
LEMMA InsertionIs ==
  ASSUME documentOrder \in [Event -> Nat], NEW q \in Seq(Event), NEW n \in Event, NEW len, len = Len(q)
  PROVE  \E p \in 1..(len + 1) :
           /\ Insert(q, n) = [i \in 1..(len + 1) |-> IF i < p THEN q[i] ELSE IF i = p THEN n ELSE q[i - 1]]
           /\ \A i \in 1..len : (i < p => documentOrder[q[i]] <= documentOrder[n])
           /\ Sorted(q) => \A i \in 1..len : i >= p => documentOrder[q[i]] >= documentOrder[n]
<1>1. PICK later : later = {i \in 1..len : documentOrder[q[i]] > documentOrder[n]}
  OBVIOUS
<1>2. len \in Nat /\ documentOrder[n] \in Nat /\ \A i \in 1..len : q[i] \in Event /\ documentOrder[q[i]] \in Nat
  OBVIOUS
<1>3. CASE later = {}
  <2>1. Insert(q, n) = Append(q, n)
    BY <1>1, <1>3 DEF Insert
  <2>2. Append(q, n) = [i \in 1..(len + 1) |-> IF i < len + 1 THEN q[i] ELSE IF i = len + 1 THEN n ELSE q[i - 1]]
    <3>1. PICK s, u : s = Append(q, n)
                      /\ u = [i \in 1..(len + 1) |-> IF i < len + 1 THEN q[i] ELSE IF i = len + 1 THEN n ELSE q[i - 1]]
      OBVIOUS
    <3>2. s \in Seq(Event) /\ Len(s) = len + 1 /\ s[len + 1] = n /\ \A i \in 1..len : s[i] = q[i]
      BY <3>1
    <3>3. \A i \in 1..(len + 1) : i < len + 1 => i \in 1..len
      BY <1>2
    <3>4. \A i \in 1..(len + 1) : u[i] = s[i]
      BY <1>2, <3>1, <3>2, <3>3
    <3>5. u \in Seq(Event) /\ Len(u) = len + 1
      <4>1. u \in [1..(len + 1) -> Event]
        BY <1>2, <3>1, <3>2, <3>4
      <4> QED
        BY <1>2, <4>1
    <3> QED
      BY <3>1, <3>2, <3>4, <3>5, SeqEqual
  <2>3. \A i \in 1..len : documentOrder[q[i]] <= documentOrder[n]
    BY <1>1, <1>2, <1>3
  <2>4. len + 1 \in 1..(len + 1) /\ \A i \in 1..len : ~(i >= len + 1)
    BY <1>2
  <2> QED
    BY <2>1, <2>2, <2>3, <2>4
<1>4. CASE later # {}
  <2>1. PICK p : p = Min(later) /\ p \in later /\ \A i \in later : p <= i
    <3>1. later \in SUBSET Nat
      BY <1>1
    <3> QED
      BY <1>4, <3>1, LeastIsThere
  <2>2. p \in 1..len /\ documentOrder[q[p]] > documentOrder[n]
    BY <1>1, <2>1
  <2>3. Insert(q, n) = SubSeq(q, 1, p - 1) \o <<n>> \o SubSeq(q, p, len)
    BY <1>1, <1>4, <2>1 DEF Insert, InsertAt
  <2>4. SubSeq(q, 1, p - 1) \o <<n>> \o SubSeq(q, p, len)
          = [i \in 1..(len + 1) |-> IF i < p THEN q[i] ELSE IF i = p THEN n ELSE q[i - 1]]
    <3>1. PICK s, t, v, w, u : /\ s = SubSeq(q, 1, p - 1) /\ t = SubSeq(q, p, len) /\ v = s \o <<n>> /\ w = v \o t
                               /\ u = [i \in 1..(len + 1) |-> IF i < p THEN q[i] ELSE IF i = p THEN n ELSE q[i - 1]]
      OBVIOUS
    <3>2. s \in Seq(Event) /\ Len(s) = p - 1 /\ \A i \in 1..(p - 1) : s[i] = q[i]
      <4>1. PICK m : m = p - 1 /\ m \in 0..Len(q)
        BY <1>2, <2>2
      <4>2. SubSeq(q, 1, m) \in Seq(Event) /\ Len(SubSeq(q, 1, m)) = m
        BY <4>1, PrefixIs
      <4>3. \A i \in 1..m : SubSeq(q, 1, m)[i] = q[i]
        BY <4>1, PrefixIs
      <4> QED
        BY <3>1, <4>1, <4>2, <4>3
    <3>3. t \in Seq(Event) /\ Len(t) = len - p + 1 /\ \A i \in 1..(len - p + 1) : t[i] = q[p + i - 1]
      <4>1. p \in Int /\ len \in Int /\ p <= len /\ \A i \in p..len : q[i] \in Event
        BY <1>2, <2>2
      <4>2. SubSeq(q, p, len) \in Seq(Event)
        BY ONLY <4>1, SubSeqProperties
      <4>3. Len(SubSeq(q, p, len)) = len - p + 1
        BY ONLY <4>1, SubSeqProperties
      <4>4. \A i \in 1..(len - p + 1) : SubSeq(q, p, len)[i] = q[p + i - 1]
        BY ONLY <4>1, SubSeqProperties
      <4> QED
        BY <3>1, <4>2, <4>3, <4>4
    <3>4. v \in Seq(Event) /\ Len(v) = p /\ v[p] = n /\ \A i \in 1..(p - 1) : v[i] = q[i]
      <4>1. PICK m : m = p - 1 /\ m \in Nat /\ m + 1 = p
        BY <2>2
      <4>2. <<n>> \in Seq(Event) /\ Len(<<n>>) = 1 /\ <<n>>[1] = n
        OBVIOUS
      <4>3. PICK c : c = <<n>> /\ c \in Seq(Event) /\ Len(c) = 1 /\ c[1] = n
        BY <4>2
      <4>4. v = s \o c /\ Len(s) = m
        BY <3>1, <3>2, <4>1, <4>3
      <4>5. v \in Seq(Event)
        BY ONLY <3>2, <4>3, <4>4, ConcatProperties
      <4>6. Len(v) = m + 1
        BY ONLY <3>2, <4>3, <4>4, ConcatProperties
      <4>7. \A i \in 1..(m + 1) : v[i] = IF i <= m THEN s[i] ELSE c[i - m]
        BY ONLY <3>2, <4>3, <4>4, ConcatProperties
      <4>8. v[m + 1] = c[1]
        <5>1. m + 1 \in 1..(m + 1) /\ ~(m + 1 <= m) /\ (m + 1) - m = 1
          BY ONLY <4>1
        <5> QED
          BY ONLY <4>7, <5>1
      <4>9. \A i \in 1..m : v[i] = s[i]
        <5>1. \A i \in 1..m : i \in 1..(m + 1) /\ i <= m
          BY ONLY <4>1
        <5> QED
          BY ONLY <4>7, <5>1
      <4> QED
        BY <3>2, <4>1, <4>3, <4>5, <4>6, <4>8, <4>9
    <3>5. /\ w \in Seq(Event) /\ Len(w) = len + 1 /\ (\A i \in 1..p : w[i] = v[i])
          /\ \A i \in 1..(len - p + 1) : w[p + i] = t[i]
      <4>1. PICK m : m = len - p + 1 /\ m \in Nat /\ p + m = len + 1 /\ p \in Nat
        BY <1>2, <2>2
      <4>2. w = v \o t /\ Len(v) = p /\ Len(t) = m /\ v \in Seq(Event) /\ t \in Seq(Event)
        BY <3>1, <3>3, <3>4, <4>1
      <4>3. w \in Seq(Event)
        BY ONLY <4>2, ConcatProperties
      <4>4. Len(w) = p + m
        BY ONLY <4>2, ConcatProperties
      <4>5. \A i \in 1..(p + m) : w[i] = IF i <= p THEN v[i] ELSE t[i - p]
        BY ONLY <4>2, ConcatProperties
      <4>6. ASSUME NEW i \in 1..p PROVE w[i] = v[i]
        <5>1. i \in 1..(p + m) /\ i <= p
          BY ONLY <4>1, <4>6
        <5> QED
          BY ONLY <4>5, <5>1
      <4>7. ASSUME NEW i \in 1..m PROVE w[p + i] = t[i]
        <5>1. PICK k : k = p + i
          OBVIOUS
        <5>2. k \in 1..(p + m) /\ ~(k <= p) /\ k - p = i
          BY ONLY <4>1, <4>7, <5>1
        <5> QED
          BY ONLY <4>5, <5>1, <5>2
      <4> QED
        BY <4>1, <4>3, <4>4, <4>6, <4>7
    <3>6. ASSUME NEW i \in 1..(len + 1) PROVE w[i] = IF i < p THEN q[i] ELSE IF i = p THEN n ELSE q[i - 1]
      <4>1. CASE i <= p
        <5>1. i \in 1..p /\ (i < p => i \in 1..(p - 1)) /\ (i < p \/ i = p)
          BY <2>2, <4>1
        <5>2. w[i] = v[i]
          BY <3>5, <5>1
        <5> QED
          BY <2>2, <3>4, <5>1, <5>2
      <4>2. CASE ~(i <= p)
        <5>1. PICK k : k = i - p
          OBVIOUS
        <5>2. k \in 1..(len - p + 1) /\ p + k = i /\ p + k - 1 = i - 1 /\ ~(i < p) /\ i # p
          BY <1>2, <2>2, <4>2, <5>1
        <5>3. w[p + k] = t[k]
          BY <3>5, <5>2
        <5>4. t[k] = q[p + k - 1]
          BY <3>3, <5>2
        <5> QED
          BY <5>2, <5>3, <5>4
      <4> QED
        BY <4>1, <4>2
    <3>7. \A i \in 1..(len + 1) : u[i] = w[i]
      BY <3>1, <3>6
    <3>8. u \in Seq(Event) /\ Len(u) = len + 1
      <4>1. \A i \in 1..(len + 1) : w[i] \in Event
        BY <3>5, ElementOfSeq
      <4>2. u \in [1..(len + 1) -> Event]
        BY <3>1, <3>7, <4>1
      <4> QED
        BY <1>2, <4>2
    <3>9. u = w
      BY ONLY <3>5, <3>7, <3>8, SeqEqual
    <3> QED
      BY <3>1, <3>9
  <2>5. \A i \in 1..len : i < p => documentOrder[q[i]] <= documentOrder[n]
    BY <1>1, <1>2, <2>1, <2>2
  <2>6. ASSUME Sorted(q), NEW i \in 1..len, i >= p PROVE documentOrder[q[i]] >= documentOrder[n]
    <3>1. p < i => documentOrder[q[p]] <= documentOrder[q[i]]
      BY <2>2, <2>6 DEF Sorted
    <3>2. documentOrder[q[i]] \in Nat /\ documentOrder[q[p]] \in Nat /\ (p < i \/ p = i)
      BY <1>2, <2>2, <2>6
    <3> QED
      BY <1>2, <2>2, <3>1, <3>2
  <2>7. p \in 1..(len + 1)
    BY <1>2, <2>2
  <2> QED
    BY <2>3, <2>4, <2>5, <2>6, <2>7
<1> QED
  BY <1>3, <1>4

LEMMA InsertIs ==
  ASSUME documentOrder \in [Event -> Nat], NEW S, NEW q, Queued(q, S), NEW n \in Event, n \notin S
  PROVE  Queued(Insert(q, n), S \cup {n})
<1>1. PICK len : len = Len(q)
  OBVIOUS
<1>2. q \in Seq(Event) /\ Once(q) /\ Sorted(q) /\ Range(q) = S /\ len \in Nat
  BY <1>1 DEF Queued
<1>3. PICK p \in 1..(len + 1) :
        /\ Insert(q, n) = [i \in 1..(len + 1) |-> IF i < p THEN q[i] ELSE IF i = p THEN n ELSE q[i - 1]]
        /\ \A i \in 1..len : (i < p => documentOrder[q[i]] <= documentOrder[n])
        /\ Sorted(q) => \A i \in 1..len : i >= p => documentOrder[q[i]] >= documentOrder[n]
  BY <1>1, <1>2, InsertionIs
<1>4. PICK s : s = Insert(q, n)
  OBVIOUS
<1>5. \A i \in 1..len : q[i] \in Event /\ q[i] \in S /\ documentOrder[q[i]] \in Nat
  <2>1. \A i \in 1..len : q[i] \in Event
    BY <1>1, <1>2
  <2>2. \A i \in 1..len : q[i] \in S
    BY <1>1, <1>2, RangeIs
  <2> QED
    BY <2>1, <2>2
\* where each position comes from: 0 is n.
<1>6. PICK from : from = [i \in 1..(len + 1) |-> IF i < p THEN i ELSE IF i = p THEN 0 ELSE i - 1]
  OBVIOUS
<1>7. ASSUME NEW i \in 1..(len + 1)
      PROVE  /\ from[i] \in 0..len
             /\ from[i] = 0 => i = p /\ s[i] = n
             /\ from[i] # 0 => i # p /\ from[i] \in 1..len /\ s[i] = q[from[i]]
             /\ i < p => from[i] = i
             /\ i > p => from[i] = i - 1
  BY <1>2, <1>3, <1>4, <1>6
<1>8. ASSUME NEW i \in 1..len PROVE \E j \in 1..(len + 1) : s[j] = q[i]
  <2>1. CASE i < p
    <3>1. i \in 1..(len + 1) /\ from[i] = i /\ i # 0
      BY <1>2, <1>7, <2>1
    <3> QED
      BY <1>7, <3>1
  <2>2. CASE ~(i < p)
    <3>1. i + 1 \in 1..(len + 1) /\ i + 1 > p
      BY <1>2, <2>2
    <3>2. from[i + 1] = i /\ i # 0
      BY <1>7, <3>1
    <3> QED
      BY <1>7, <3>1, <3>2
  <2> QED
    BY <2>1, <2>2
<1>9. s \in Seq(Event) /\ Len(s) = len + 1
  <2>1. \A i \in 1..(len + 1) : s[i] \in Event
    BY <1>5, <1>7
  <2>2. s \in [1..(len + 1) -> Event]
    BY <1>3, <1>4, <2>1
  <2> QED
    BY <1>2, <2>2
<1>10. Range(s) = S \cup {n}
  <2>1. ASSUME NEW x \in Range(s) PROVE x \in S \cup {n}
    <3>1. PICK i \in 1..(len + 1) : s[i] = x
      BY <1>9, RangeIs
    <3> QED
      BY <1>5, <1>7, <3>1
  <2>2. ASSUME NEW x \in S PROVE x \in Range(s)
    <3>1. PICK i \in 1..len : q[i] = x
      BY <1>1, <1>2, RangeIs
    <3>2. PICK j \in 1..(len + 1) : s[j] = q[i]
      BY <1>8
    <3> QED
      BY <1>9, <3>1, <3>2, RangeIs
  <2>3. n \in Range(s)
    <3>1. s[p] = n
      BY <1>3, <1>4
    <3> QED
      BY <1>9, <3>1, RangeIs
  <2> QED
    BY <2>1, <2>2, <2>3
<1>11. ASSUME NEW i \in 1..(len + 1), NEW j \in 1..(len + 1), s[i] = s[j] PROVE i = j
  <2>1. CASE from[i] = 0 \/ from[j] = 0
    <3>1. from[i] # 0 => s[i] \in S
      BY <1>5, <1>7
    <3>2. from[j] # 0 => s[j] \in S
      BY <1>5, <1>7
    <3> QED
      BY <1>7, <1>11, <2>1, <3>1, <3>2
  <2>2. CASE from[i] # 0 /\ from[j] # 0
    <3>1. from[i] = from[j]
      BY <1>1, <1>2, <1>7, <1>11, <2>2 DEF Once
    <3>2. i # p /\ j # p
      BY <1>7, <2>2
    <3> QED
      BY <1>3, <1>6, <3>1, <3>2
  <2> QED
    BY <2>1, <2>2
<1>12. ASSUME NEW i \in 1..(len + 1), NEW j \in 1..(len + 1), i < j
       PROVE  documentOrder[s[i]] <= documentOrder[s[j]]
  <2>0. \A a, c \in 1..len : a < c => documentOrder[q[a]] <= documentOrder[q[c]]
    BY <1>1, <1>2 DEF Sorted
  <2>1. CASE i = p
    <3>1. j > p /\ from[j] = j - 1 /\ j - 1 \in 1..len /\ j - 1 >= p
      BY <1>3, <1>7, <1>12, <2>1
    <3>2. s[i] = n /\ s[j] = q[j - 1]
      BY <1>7, <1>3, <1>4, <2>1, <3>1
    <3> QED
      BY <1>2, <1>3, <3>1, <3>2
  <2>2. CASE j = p
    <3>1. i < p /\ from[i] = i /\ i \in 1..len
      BY <1>3, <1>7, <1>12, <2>2
    <3>2. s[j] = n /\ s[i] = q[i]
      BY <1>7, <1>3, <1>4, <2>2, <3>1
    <3> QED
      BY <1>3, <3>1, <3>2
  <2>3. CASE i # p /\ j # p
    <3>1. from[i] # 0 /\ from[j] # 0
      BY <1>7, <2>3
    <3>2. from[i] \in 1..len /\ from[j] \in 1..len /\ s[i] = q[from[i]] /\ s[j] = q[from[j]]
      BY <1>7, <3>1
    <3>3. from[i] < from[j]
      BY <1>3, <1>6, <1>12, <2>3
    <3> QED
      BY <2>0, <3>2, <3>3
  <2> QED
    BY <2>1, <2>2, <2>3
<1>13. Once(s) /\ Sorted(s)
  BY <1>9, <1>11, <1>12 DEF Once, Sorted
<1> QED
  BY <1>4, <1>9, <1>10, <1>13 DEF Queued

\* An order of a finite set.
LEMMA InAnyOrder ==
  ASSUME NEW S \in SUBSET Event, IsFiniteSet(S), NEW s \in SetToSeqs(S)
  PROVE  s \in Seq(Event) /\ Once(s) /\ Range(s) = S
<1>1. PICK n : n = Cardinality(S)
  OBVIOUS
<1>2. n \in Nat
  BY <1>1, FS_CardinalityType
<1>3. s \in [1..n -> S] /\ (\A i, j \in 1..n : i # j => s[i] # s[j])
  BY <1>1 DEF SetToSeqs
<1>4. s \in Seq(S) /\ s \in Seq(Event) /\ Len(s) = n
  <2>1. s \in Seq(S) /\ Len(s) = n
    BY <1>2, <1>3
  <2>2. s \in [1..n -> Event]
    BY <1>3
  <2> QED
    BY <1>2, <2>1, <2>2
<1>5. Range(s) = S
  <2>1. IsFiniteSet(1..n) /\ Cardinality(1..n) = n
    <3>1. 1 \in Int /\ n \in Int
      BY <1>2
    <3>2. IsFiniteSet(1..n) /\ Cardinality(1..n) = IF 1 > n THEN 0 ELSE n - 1 + 1
      BY <3>1, FS_Interval
    <3> QED
      BY <1>2, <3>2
  <2>2. s \in Injection(1..n, S)
    BY <1>3 DEF Injection, IsInjective
  <2>3. s \in Surjection(1..n, S)
    BY <1>1, <2>1, <2>2, FS_Injection
  <2>4. \A x \in S : \E i \in 1..n : s[i] = x
    BY <2>3 DEF Surjection
  <2>5. Range(s) \in SUBSET S
    BY ONLY <1>4, RangeIs
  <2>6. \A x : x \in Range(s) <=> \E i \in 1..n : s[i] = x
    BY <1>4, RangeIs
  <2> QED
    BY <2>4, <2>5, <2>6
<1>6. Once(s)
  BY <1>3, <1>4 DEF Once
<1> QED
  BY <1>4, <1>5, <1>6

LEMMA SomeOrderIs ==
  ASSUME NEW S \in SUBSET Event, IsFiniteSet(S), NEW s \in SomeOrder(S)
  PROVE  Queued(s, S)
BY InAnyOrder DEF SomeOrder, Queued

LEMMA InsertAllIs ==
  ASSUME documentOrder \in [Event -> Nat], NEW S, NEW q, Queued(q, S),
         NEW T \in SUBSET Event, IsFiniteSet(T), NEW s \in SomeOrder(T), S \cap T = {}
  PROVE  Queued(InsertAll(q, s), S \cup T)
<1>1. PICK len : len = Len(s)
  OBVIOUS
<1>2. s \in Seq(Event) /\ Once(s) /\ Range(s) = T /\ len \in Nat
  BY <1>1, SomeOrderIs DEF Queued
<1>3. \A i \in 1..len : s[i] \in T
  BY <1>1, <1>2, RangeIs
<1>4. PICK Step : Step = [p \in Nat \X Seq(Event) |-> IF p[1] \in 1..len THEN Insert(p[2], s[p[1]]) ELSE p[2]]
  OBVIOUS
<1>5. q \in Seq(Event) /\ S \in SUBSET Event
  BY RangeIs DEF Queued
<1>6. ASSUME NEW d \in Seq(Event), NEW n \in Event PROVE Insert(d, n) \in Seq(Event)
  <2>0. PICK size : size = Len(d)
    OBVIOUS
  <2>1. PICK p \in 1..(size + 1) :
          /\ Insert(d, n) = [i \in 1..(size + 1) |-> IF i < p THEN d[i] ELSE IF i = p THEN n ELSE d[i - 1]]
          /\ \A i \in 1..size : (i < p => documentOrder[d[i]] <= documentOrder[n])
          /\ Sorted(d) => \A i \in 1..size : i >= p => documentOrder[d[i]] >= documentOrder[n]
    BY <2>0, InsertionIs
  <2>2. size \in Nat /\ \A i \in 1..size : d[i] \in Event
    BY <2>0
  <2>3. ASSUME NEW i \in 1..(size + 1)
        PROVE  (IF i < p THEN d[i] ELSE IF i = p THEN n ELSE d[i - 1]) \in Event
    <3>1. (i < p => i \in 1..size) /\ (i > p => i - 1 \in 1..size) /\ (i < p \/ i = p \/ i > p)
      BY <2>2
    <3> QED
      BY <2>2, <3>1
  <2>4. Insert(d, n) \in [1..(size + 1) -> Event]
    BY <2>1, <2>3
  <2>5. PICK m \in Nat : m = size + 1
    BY <2>2
  <2>6. Insert(d, n) \in [1..m -> Event]
    BY <2>4, <2>5
  <2> QED
    BY ONLY <2>5, <2>6
<1>7. Step \in [Nat \X Seq(Event) -> Seq(Event)]
  <2>1. ASSUME NEW p \in Nat \X Seq(Event)
        PROVE  (IF p[1] \in 1..len THEN Insert(p[2], s[p[1]]) ELSE p[2]) \in Seq(Event)
    <3>1. PICK d \in Seq(Event), i \in Nat : d = p[2] /\ i = p[1]
      OBVIOUS
    <3>2. i \in 1..len => s[i] \in Event
      BY <1>3
    <3> QED
      BY <1>6, <3>1, <3>2
  <2> QED
    BY <1>4, <2>1
<1>8. PICK g \in [Nat -> Seq(Event)] : GoesBy(g, q, Step)
  BY ONLY <1>5, <1>7, Recursion
<1>9. PICK f : f = [n \in 0..len |-> g[n]]
  OBVIOUS
<1>10. f = [i \in 0..len |-> IF i = 0 THEN q ELSE Insert(f[i - 1], s[i])]
  <2>1. ASSUME NEW n \in 0..len, n # 0 PROVE f[n] = Insert(f[n - 1], s[n])
    <3>1. n - 1 \in Nat /\ (n - 1) + 1 = n /\ n - 1 \in 0..len /\ n \in 1..len
      BY ONLY <1>2, <2>1
    <3>2. g[n] = Step[<<n, g[n - 1]>>]
      BY <1>8, <3>1 DEF GoesBy
    <3>3. <<n, g[n - 1]>> \in Nat \X Seq(Event)
      <4>1. n \in Nat /\ g[n - 1] \in Seq(Event)
        BY <1>8, <3>1
      <4> QED
        BY ONLY <4>1
    <3>4. f[n] = g[n] /\ f[n - 1] = g[n - 1]
      BY <1>9, <3>1
    <3> QED
      BY <1>4, <3>1, <3>2, <3>3, <3>4
  <2>2. f[0] = q
    BY <1>2, <1>8, <1>9 DEF GoesBy
  <2> QED
    BY <1>9, <2>1, <2>2
<1> DEFINE longer[i \in 0..len] == IF i = 0 THEN q ELSE Insert(longer[i - 1], s[i])
<1>11. longer = [i \in 0..len |-> IF i = 0 THEN q ELSE Insert(longer[i - 1], s[i])]
  BY <1>10
<1>12. InsertAll(q, s) = longer[len]
  BY <1>1 DEF InsertAll
<1>13. PICK h : /\ h = [i \in 0..len |-> IF i = 0 THEN q ELSE Insert(h[i - 1], s[i])]
                /\ InsertAll(q, s) = h[len]
  <2> HIDE DEF longer
  <2> QED
    BY <1>11, <1>12
<1> HIDE DEF longer
<1> DEFINE Upto(n) == {s[i] : i \in 1..n}
           P == {n \in Nat : n <= len => Queued(h[n], S \cup Upto(n))}
<1>14. 0 \in P
  <2>1. h[0] = q /\ Upto(0) = {}
    BY <1>2, <1>13
  <2> QED
    BY <2>1
<1>15. ASSUME NEW n \in Nat, n \in P PROVE n + 1 \in P
  <2>1. SUFFICES ASSUME n + 1 <= len PROVE Queued(h[n + 1], S \cup Upto(n + 1))
    OBVIOUS
  <2>2. n <= len /\ n + 1 \in 0..len /\ n + 1 # 0 /\ (n + 1) - 1 = n /\ n + 1 \in 1..len
    BY ONLY <1>2, <1>15, <2>1
  <2>3. Queued(h[n], S \cup Upto(n))
    BY <1>15, <2>2
  <2>4. h[n + 1] = Insert(h[n], s[n + 1])
    BY <1>13, <2>2
  <2>5. s[n + 1] \in Event /\ s[n + 1] \in T
    BY <1>3, <2>2
  <2>6. s[n + 1] \notin Upto(n)
    <3>1. ASSUME NEW i \in 1..n PROVE s[i] # s[n + 1]
      <4>1. i \in 1..len /\ i # n + 1
        BY <1>2, <2>2
      <4> QED
        BY <1>1, <1>2, <2>2, <4>1 DEF Once
    <3> QED
      BY <3>1
  <2>7. S \cup Upto(n + 1) = (S \cup Upto(n)) \cup {s[n + 1]}
    <3>1. \A i \in 1..(n + 1) : i \in 1..n \/ i = n + 1
      BY ONLY n \in Nat
    <3>2. \A i \in 1..n : i \in 1..(n + 1)
      BY ONLY n \in Nat
    <3>3. n + 1 \in 1..(n + 1)
      BY ONLY n \in Nat
    <3> QED
      BY <3>1, <3>2, <3>3
  <2>8. s[n + 1] \notin S \cup Upto(n)
    BY <2>5, <2>6
  <2>9. PICK known, x, old : known = S \cup Upto(n) /\ x = s[n + 1] /\ old = h[n]
    OBVIOUS
  <2>10. Queued(Insert(old, x), known \cup {x})
    <3>1. Queued(old, known) /\ x \in Event /\ x \notin known
      BY <2>3, <2>5, <2>8, <2>9
    <3> QED
      BY ONLY <3>1, documentOrder \in [Event -> Nat], InsertIs
  <2> HIDE DEF Upto
  <2> QED
    BY <2>4, <2>7, <2>9, <2>10
<1>16. len \in P
  <2> HIDE DEF P
  <2>1. \A n \in Nat : n \in P
    BY <1>14, <1>15, SetInduction
  <2> QED
    BY <1>2, <2>1
<1>17. Upto(len) = T
  <2>1. \A x : x \in T <=> \E i \in 1..len : s[i] = x
    BY <1>1, <1>2, RangeIs
  <2> QED
    BY <2>1
<1>18. Queued(h[len], S \cup Upto(len))
  <2> HIDE DEF Upto
  <2>1. len <= len
    BY <1>2
  <2> QED
    BY <1>16, <2>1
<1> HIDE DEF Upto
<1> QED
  BY <1>13, <1>17, <1>18

-----------------------------------------------------------------------------
(* CausalAnalysis: the causal order. *)

CausalTypeOK ==
  /\ causes \in SUBSET (Event \X Event) /\ documentOrder \in [Event -> Nat] /\ inDegree \in [Event -> Nat]
  /\ queue \in Seq(Event) /\ results \in Seq(Event)
  /\ visited \in SUBSET Event /\ component \in SUBSET Event /\ components \in SUBSET (SUBSET Event)
  /\ phase \in {"order", "threads", "ended"}

\* The degrees count the causes that are not ordered, and the nodes that have none are
\* ordered or queued.
OrderInv ==
  /\ Once(results)
  /\ \A n \in Event : inDegree[n] = Cardinality(Antecedents(n) \ Range(results))
  /\ \A i \in 1..Len(results) : \A n \in Antecedents(results[i]) : \E j \in 1..(i - 1) : results[j] = n
  /\ phase = "order" => /\ Once(queue) /\ Sorted(queue) /\ Range(queue) \cap Range(results) = {}
                        /\ visited = {} /\ component = {} /\ components = {}
  /\ \A n \in Event : inDegree[n] = 0 <=> n \in Range(results) \/ (phase = "order" /\ n \in Range(queue))

\* A component: what is connected, and nothing more.
Whole(c) == c # {} /\ Spreads(c, Event) /\ \A m, k \in c : k \in Connected(m, Event)

\* The components that are ended are whole, and of the one being built only what is
\* queued may have neighbours elsewhere.
ThreadInv ==
  phase # "order" =>
    /\ visited = (UNION components) \cup component \cup Range(queue)
    /\ \A c \in components : Whole(c) /\ c \cap (component \cup Range(queue)) = {}
    /\ \A n \in component : Neighbours(n) \subseteq component \cup Range(queue)
    /\ \A m, k \in component \cup Range(queue) : k \in Connected(m, Event)
    /\ phase = "ended" => visited = Event /\ component = {} /\ queue = <<>>

CausalInv == CausalTypeOK /\ OrderInv /\ ThreadInv

LEMMA NoneInRange == Range(<<>>) = {} /\ Once(<<>>) /\ Sorted(<<>>)
BY DEF Range, Once, Sorted

LEMMA AppendIs ==
  ASSUME NEW s \in Seq(Event), NEW n \in Event
  PROVE  /\ Append(s, n) \in Seq(Event) /\ Range(Append(s, n)) = Range(s) \cup {n}
         /\ Once(s) /\ n \notin Range(s) => Once(Append(s, n))
<1>1. PICK len, t : len = Len(s) /\ t = Append(s, n)
  OBVIOUS
<1>2. len \in Nat /\ t \in Seq(Event) /\ Len(t) = len + 1 /\ t[len + 1] = n /\ \A i \in 1..len : t[i] = s[i]
  BY <1>1
<1>3. \A i \in 1..(len + 1) : i \in 1..len \/ i = len + 1
  BY <1>2
<1>4. (\A i \in 1..len : i \in 1..(len + 1) /\ i # len + 1) /\ len + 1 \in 1..(len + 1)
  BY <1>2
<1>5. \A x : x \in Range(s) <=> \E i \in 1..len : s[i] = x
  BY <1>1, RangeIs
<1>6. \A x : x \in Range(t) <=> \E i \in 1..(len + 1) : t[i] = x
  BY <1>2, RangeIs
<1>7. Range(t) = Range(s) \cup {n}
  BY <1>2, <1>3, <1>4, <1>5, <1>6
<1>8. ASSUME Once(s), n \notin Range(s) PROVE Once(t)
  <2>1. ASSUME NEW i \in 1..(len + 1), NEW j \in 1..(len + 1), t[i] = t[j] PROVE i = j
    <3>1. CASE i \in 1..len /\ j \in 1..len
      BY <1>1, <1>2, <1>8, <2>1, <3>1 DEF Once
    <3>2. CASE i = len + 1 /\ j = len + 1
      BY <3>2
    <3>3. CASE i \in 1..len /\ j = len + 1
      BY <1>2, <1>5, <1>8, <2>1, <3>3
    <3>4. CASE j \in 1..len /\ i = len + 1
      BY <1>2, <1>5, <1>8, <2>1, <3>4
    <3> QED
      BY <1>3, <3>1, <3>2, <3>3, <3>4
  <2> QED
    BY <1>2, <2>1 DEF Once
<1> QED
  BY <1>1, <1>2, <1>7, <1>8

LEMMA CausalStart ==
  ASSUME CausalInit
  PROVE  CausalInv
<1>1. /\ causes \in SUBSET (Event \X Event) /\ documentOrder \in [Event -> Nat]
      /\ inDegree = [n \in Event |-> Cardinality(Antecedents(n))]
      /\ queue \in SomeOrder({n \in Event : inDegree[n] = 0}) /\ results = <<>>
      /\ visited = {} /\ component = {} /\ components = {} /\ phase = "order"
  <2>1. /\ causes \in CausalGraph /\ documentOrder \in [Event -> Orders]
        /\ inDegree = [n \in Event |-> Cardinality(Antecedents(n))]
        /\ queue \in SomeOrder({n \in Event : inDegree[n] = 0}) /\ results = <<>>
        /\ visited = {} /\ component = {} /\ components = {} /\ phase = "order"
    BY DEF CausalInit
  <2>2. Orders \in SUBSET Nat
    <3>1. \A x \in 0..NoOrder : x \in Nat
      BY CausalAnalysisAssumption
    <3> QED
      BY <3>1, CausalAnalysisAssumption
  <2>3. causes \in SUBSET (Event \X Event)
    BY <2>1, CausalAnalysisAssumption
  <2>4. documentOrder \in [Event -> Nat]
    BY <2>1, <2>2
  <2> QED
    BY <2>1, <2>3, <2>4
<1>2. PICK S : S = {n \in Event : inDegree[n] = 0}
  OBVIOUS
<1>3. S \in SUBSET Event /\ IsFiniteSet(S)
  BY <1>2, FS_Subset, CausalAnalysisAssumption
<1>4. Queued(queue, S)
  BY <1>1, <1>2, <1>3, SomeOrderIs
<1>5. Range(results) = {} /\ Once(results) /\ Len(results) = 0 /\ results \in Seq(Event)
  BY <1>1, NoneInRange
<1>6. ASSUME NEW n \in Event
      PROVE  inDegree[n] \in Nat /\ inDegree[n] = Cardinality(Antecedents(n) \ Range(results))
  <2>1. inDegree[n] = Cardinality(Antecedents(n))
    BY <1>1
  <2>2. Cardinality(Antecedents(n)) \in Nat
    BY <1>1, AntecedentsAre, FS_CardinalityType
  <2>3. Antecedents(n) \ Range(results) = Antecedents(n)
    BY <1>5
  <2> QED
    BY <2>1, <2>2, <2>3
<1>7. inDegree \in [Event -> Nat]
  BY <1>1, <1>6
<1>8. CausalTypeOK
  BY <1>1, <1>4, <1>5, <1>7 DEF CausalTypeOK, Queued
<1>9. \A n \in Event : inDegree[n] = 0 <=> n \in Range(queue)
  BY <1>2, <1>4 DEF Queued
<1>10. OrderInv
  BY <1>1, <1>4, <1>5, <1>6, <1>9 DEF OrderInv, Queued
<1>11. ThreadInv
  BY <1>1 DEF ThreadInv
<1> QED
  BY <1>8, <1>10, <1>11 DEF CausalInv

LEMMA JoinedIs ==
  ASSUME NEW s \in Seq(Event), NEW t \in Seq(Event)
  PROVE  s \o t \in Seq(Event) /\ Range(s \o t) = Range(s) \cup Range(t)
<1>1. PICK m, n, u : m = Len(s) /\ n = Len(t) /\ u = s \o t
  OBVIOUS
<1>2. /\ m \in Nat /\ n \in Nat /\ u \in Seq(Event) /\ Len(u) = m + n
      /\ \A i \in 1..(m + n) : u[i] = IF i <= m THEN s[i] ELSE t[i - m]
  BY <1>1
<1>3. \A x : x \in Range(s) <=> \E i \in 1..m : s[i] = x
  BY <1>1, RangeIs
<1>4. \A x : x \in Range(t) <=> \E i \in 1..n : t[i] = x
  BY <1>1, RangeIs
<1>5. \A x : x \in Range(u) <=> \E i \in 1..(m + n) : u[i] = x
  BY <1>2, RangeIs
<1>6. ASSUME NEW i \in 1..(m + n) PROVE (i \in 1..m /\ u[i] = s[i]) \/ (i - m \in 1..n /\ u[i] = t[i - m])
  BY <1>2
<1>7. ASSUME NEW i \in 1..m PROVE i \in 1..(m + n) /\ u[i] = s[i]
  BY <1>2
<1>8. ASSUME NEW i \in 1..n PROVE i + m \in 1..(m + n) /\ u[i + m] = t[i]
  BY <1>2
<1>9. \A x \in Range(u) : x \in Range(s) \cup Range(t)
  BY <1>3, <1>4, <1>5, <1>6
<1>10. \A x \in Range(s) \cup Range(t) : x \in Range(u)
  BY <1>3, <1>4, <1>5, <1>7, <1>8
<1> QED
  BY <1>1, <1>2, <1>9, <1>10

LEMMA OrderNextKeeps ==
  ASSUME CausalInv, OrderNext
  PROVE  CausalInv'
<1>1. PICK node, done, t, degree, freed :
        /\ node = Head(queue) /\ done = Range(results) /\ t = Tail(queue)
        /\ degree = [n \in Event |-> IF n \in From(node) THEN inDegree[n] - 1 ELSE inDegree[n]]
        /\ freed = {n \in From(node) : degree[n] = 0}
  OBVIOUS
<1>2. /\ phase = "order" /\ queue # <<>> /\ results' = Append(results, node) /\ inDegree' = degree
      /\ UNCHANGED <<causes, documentOrder, visited, component, components, phase>>
  BY <1>1 DEF OrderNext
<1>3. PICK s \in SomeOrder(freed) : queue' = InsertAll(t, s)
  BY <1>1 DEF OrderNext
<1>4. /\ causes \in SUBSET (Event \X Event) /\ documentOrder \in [Event -> Nat] /\ inDegree \in [Event -> Nat]
      /\ queue \in Seq(Event) /\ results \in Seq(Event)
  BY DEF CausalInv, CausalTypeOK
<1>5. /\ Once(results) /\ Once(queue) /\ Sorted(queue) /\ Range(queue) \cap done = {}
      /\ visited = {} /\ component = {} /\ components = {}
  BY <1>1, <1>2 DEF CausalInv, OrderInv
<1>6. \A n \in Event : inDegree[n] = Cardinality(Antecedents(n) \ done)
  BY <1>1 DEF CausalInv, OrderInv
<1>7. \A n \in Event : inDegree[n] = 0 <=> n \in done \/ n \in Range(queue)
  BY <1>1, <1>2 DEF CausalInv, OrderInv
<1>8. PICK S : S = Range(t)
  OBVIOUS
<1>9. node \in Event /\ t \in Seq(Event) /\ Range(queue) = S \cup {node} /\ Once(t) /\ node \notin S /\ Sorted(t)
  BY <1>1, <1>2, <1>4, <1>5, <1>8, HeadIs
<1>10. node \notin done /\ inDegree[node] = 0
  BY <1>5, <1>7, <1>9
<1>11. PICK rest : rest = [n \in Event |-> Antecedents(n) \ done]
  OBVIOUS
<1>12. ASSUME NEW n \in Event
       PROVE  /\ IsFiniteSet(rest[n]) /\ inDegree[n] = Cardinality(rest[n]) /\ inDegree[n] \in Nat
              /\ n \in From(node) <=> node \in rest[n]
  <2>1. rest[n] = Antecedents(n) \ done /\ IsFiniteSet(Antecedents(n))
    BY <1>4, <1>11, AntecedentsAre
  <2>2. rest[n] \in SUBSET Antecedents(n)
    BY <2>1
  <2>3. IsFiniteSet(rest[n])
    BY <2>1, <2>2, FS_Subset
  <2>4. n \in From(node) <=> node \in Antecedents(n)
    BY <1>4, EdgeIs
  <2> QED
    BY <1>4, <1>6, <1>10, <2>1, <2>3, <2>4
<1>13. ASSUME NEW n \in Event
       PROVE  /\ degree[n] \in Nat /\ degree[n] = Cardinality(rest[n] \ {node})
              /\ n \in From(node) => inDegree[n] # 0
              /\ n \notin From(node) => degree[n] = inDegree[n]
  <2>1. IsFiniteSet(rest[n] \ {node})
        /\ Cardinality(rest[n] \ {node}) = IF node \in rest[n] THEN Cardinality(rest[n]) - 1 ELSE Cardinality(rest[n])
    BY <1>12, FS_RemoveElement
  <2>2. Cardinality(rest[n] \ {node}) \in Nat
    BY <2>1, FS_CardinalityType
  <2>3. degree[n] = IF n \in From(node) THEN inDegree[n] - 1 ELSE inDegree[n]
    BY <1>1
  <2>4. CASE n \in From(node)
    BY <1>12, <2>1, <2>2, <2>3, <2>4
  <2>5. CASE n \notin From(node)
    BY <1>12, <2>1, <2>2, <2>3, <2>5
  <2> QED
    BY <2>4, <2>5
<1>14. freed \in SUBSET Event /\ IsFiniteSet(freed)
  <2>1. freed \in SUBSET Event
    BY <1>1, <1>4, AntecedentsAre
  <2> QED
    BY <2>1, FS_Subset, CausalAnalysisAssumption
<1>15. \A n \in freed : n \in From(node) /\ inDegree[n] # 0 /\ n \notin done /\ n \notin Range(queue)
  BY <1>1, <1>7, <1>13, <1>14
<1>16. Queued(t, S)
  BY <1>8, <1>9 DEF Queued
<1>17. Queued(queue', S \cup freed)
  <2>1. S \cap freed = {}
    BY <1>9, <1>15
  <2> QED
    BY <1>3, <1>4, <1>14, <1>16, <2>1, InsertAllIs
<1>18. queue' \in Seq(Event) /\ Once(queue') /\ Sorted(queue') /\ Range(queue') = S \cup freed
  BY <1>17 DEF Queued
<1>19. results' \in Seq(Event) /\ Range(results') = done \cup {node} /\ Once(results')
  BY <1>1, <1>2, <1>4, <1>5, <1>9, <1>10, AppendIs
<1>20. CausalTypeOK'
  <2>1. inDegree' \in [Event -> Nat]
    BY <1>1, <1>2, <1>13
  <2> QED
    BY <1>2, <1>18, <1>19, <2>1 DEF CausalInv, CausalTypeOK
<1>21. Sorted(queue)'
  BY <1>2, <1>18 DEF Sorted
<1>22. ASSUME NEW n \in Event PROVE inDegree'[n] = Cardinality(Antecedents(n)' \ Range(results'))
  <2>1. Antecedents(n)' = Antecedents(n)
    BY <1>2 DEF Antecedents
  <2>2. Antecedents(n) \ (done \cup {node}) = rest[n] \ {node}
    BY <1>11
  <2> QED
    BY <1>2, <1>13, <1>19, <2>1, <2>2
<1>23. Range(queue') \cap Range(results') = {}
  BY <1>5, <1>9, <1>15, <1>18, <1>19
<1>24. ASSUME NEW n \in Event PROVE inDegree'[n] = 0 <=> n \in Range(results') \/ n \in Range(queue')
  <2>1. CASE n \in From(node)
    <3>1. n \in freed <=> degree[n] = 0
      BY <1>1, <2>1
    <3>2. n \notin done /\ n \notin Range(queue)
      BY <1>7, <1>13, <2>1
    <3>3. n # node /\ n \notin S
      BY <1>9, <3>2
    <3> QED
      BY <1>2, <1>18, <1>19, <3>1, <3>2, <3>3
  <2>2. CASE n \notin From(node)
    <3>1. n \notin freed /\ degree[n] = inDegree[n]
      BY <1>13, <1>15, <2>2
    <3> QED
      BY <1>2, <1>7, <1>9, <1>18, <1>19, <3>1
  <2> QED
    BY <2>1, <2>2
<1>25. ASSUME NEW i \in 1..Len(results'), NEW n \in Antecedents(results'[i]) PROVE \E j \in 1..(i - 1) : results'[j] = n
  <2>1. PICK len : len = Len(results)
    OBVIOUS
  <2>2. len \in Nat /\ Len(results') = len + 1 /\ results'[len + 1] = node /\ \A j \in 1..len : results'[j] = results[j]
    BY <1>2, <1>4, <1>9, <2>1
  <2>3. n \in Antecedents(results'[i])
    OBVIOUS
  <2>4. CASE i \in 1..len
    <3>1. n \in Antecedents(results[i])
      BY <2>2, <2>3, <2>4
    <3>2. PICK j \in 1..(i - 1) : results[j] = n
      BY <2>1, <2>4, <3>1 DEF CausalInv, OrderInv
    <3>3. j \in 1..len
      BY <2>2, <2>4
    <3> QED
      BY <2>2, <3>2, <3>3
  <2>5. CASE i = len + 1
    <3>1. n \in Antecedents(node)
      BY <2>2, <2>3, <2>5
    <3>2. rest[node] = {}
      BY <1>9, <1>10, <1>12, FS_EmptySet
    <3>3. n \in done
      BY <1>9, <1>11, <3>1, <3>2
    <3>4. PICK j \in 1..len : results[j] = n
      BY <1>1, <1>4, <2>1, <3>3, RangeIs
    <3>5. j \in 1..(i - 1)
      BY <2>2, <2>5
    <3> QED
      BY <2>2, <3>4, <3>5
  <2>6. i \in 1..len \/ i = len + 1
    BY <2>2
  <2> QED
    BY <2>4, <2>5, <2>6
<1>26. OrderInv'
  <2>1. visited' = {} /\ component' = {} /\ components' = {} /\ phase' = "order"
    BY <1>2, <1>5
  <2>2. Once(results)' /\ Once(queue)'
    BY <1>18, <1>19 DEF Once
  <2>3. (\A n \in Event : inDegree[n] = Cardinality(Antecedents(n) \ Range(results)))'
    BY <1>22
  <2>4. (\A i \in 1..Len(results) : \A n \in Antecedents(results[i]) : \E j \in 1..(i - 1) : results[j] = n)'
    BY <1>2, <1>25 DEF Antecedents
  <2>5. (\A n \in Event : inDegree[n] = 0 <=> n \in Range(results) \/ (phase = "order" /\ n \in Range(queue)))'
    BY <1>24, <2>1
  <2> QED
    BY <1>21, <1>23, <2>1, <2>2, <2>3, <2>4, <2>5 DEF OrderInv
<1>27. ThreadInv'
  BY <1>2 DEF ThreadInv
<1> QED
  BY <1>20, <1>26, <1>27 DEF CausalInv

LEMMA OrderStays ==
  ASSUME OrderInv, phase # "order", phase' # "order", UNCHANGED <<causes, inDegree, results>>
  PROVE  OrderInv'
BY DEF OrderInv, Once, Antecedents

LEMMA OrderEndsKeeps ==
  ASSUME CausalInv, OrderEnds
  PROVE  CausalInv'
<1>1. /\ phase = "order" /\ queue = <<>> /\ phase' = "threads"
      /\ UNCHANGED <<causes, documentOrder, inDegree, queue, results, visited, component, components>>
  BY DEF OrderEnds
<1>2. visited = {} /\ component = {} /\ components = {}
  BY <1>1 DEF CausalInv, OrderInv
<1>3. Range(queue) = {}
  BY <1>1, NoneInRange
<1>4. CausalTypeOK'
  BY <1>1 DEF CausalInv, CausalTypeOK
<1>5. OrderInv'
  <2>1. \A n \in Event : inDegree[n] = 0 <=> n \in Range(results)
    BY <1>1, <1>3 DEF CausalInv, OrderInv
  <2>2. (\A n \in Event : inDegree[n] = 0 <=> n \in Range(results) \/ (phase = "order" /\ n \in Range(queue)))'
    BY <1>1, <2>1
  <2>3. (\A n \in Event : inDegree[n] = Cardinality(Antecedents(n) \ Range(results)))'
    BY <1>1 DEF CausalInv, OrderInv, Antecedents
  <2>4. (\A i \in 1..Len(results) : \A n \in Antecedents(results[i]) : \E j \in 1..(i - 1) : results[j] = n)'
    <3>1. \A i \in 1..Len(results) : \A n \in Antecedents(results[i]) : \E j \in 1..(i - 1) : results[j] = n
      BY DEF CausalInv, OrderInv
    <3>2. causes' = causes /\ results' = results
      BY <1>1
    <3>3. ASSUME NEW i \in 1..Len(results'), NEW n \in Antecedents(results'[i]) PROVE \E j \in 1..(i - 1) : results'[j] = n
      BY <3>1, <3>2
    <3> QED
      BY <1>1, <3>3 DEF Antecedents
  <2>5. Once(results)'
    BY <1>1 DEF CausalInv, OrderInv, Once
  <2> QED
    BY <1>1, <2>2, <2>3, <2>4, <2>5 DEF OrderInv
<1>6. ThreadInv'
  <2>1. /\ visited' = {} /\ component' = {} /\ components' = {} /\ Range(queue') = {} /\ phase' = "threads"
    BY <1>1, <1>2, <1>3
  <2>2. UNION components' = {}
    BY <2>1
  <2> QED
    BY <2>1, <2>2 DEF ThreadInv
<1> QED
  BY <1>4, <1>5, <1>6 DEF CausalInv

-----------------------------------------------------------------------------
(* CausalAnalysis: the threads. *)

LEMMA GraphStays ==
  ASSUME UNCHANGED causes
  PROVE  /\ \A n : Neighbours(n)' = Neighbours(n)
         /\ \A n, W : Connected(n, W)' = Connected(n, W)
         /\ \A c : Whole(c)' <=> Whole(c)
<1>1. ASSUME NEW n PROVE Neighbours(n)' = Neighbours(n)
  BY DEF Neighbours, From, Antecedents
<1>2. ASSUME NEW S, NEW W PROVE Spreads(S, W)' <=> Spreads(S, W)
  BY <1>1 DEF Spreads
<1>3. ASSUME NEW n, NEW W PROVE Connected(n, W)' = Connected(n, W)
  BY <1>2 DEF Connected
<1>4. ASSUME NEW c PROVE Whole(c)' <=> Whole(c)
  BY <1>2, <1>3 DEF Whole
<1> QED
  BY <1>1, <1>3, <1>4

LEMMA StartComponentKeeps ==
  ASSUME CausalInv, StartComponent
  PROVE  CausalInv'
<1>1. /\ phase = "threads" /\ queue = <<>> /\ component = {}
      /\ UNCHANGED <<causes, documentOrder, inDegree, results, component, components, phase>>
  BY DEF StartComponent
<1>2. PICK n \in Event \ visited : queue' = <<n>> /\ visited' = visited \cup {n}
  BY DEF StartComponent
<1>3. Range(queue) = {} /\ Range(queue') = {n} /\ queue' \in Seq(Event)
  BY <1>1, <1>2, NoneInRange DEF Range
<1>4. CausalTypeOK'
  BY <1>1, <1>2, <1>3 DEF CausalInv, CausalTypeOK
<1>5. OrderInv'
  BY <1>1, OrderStays DEF CausalInv
<1>6. /\ visited = UNION components
      /\ \A c \in components : Whole(c)
  BY <1>1, <1>3 DEF CausalInv, ThreadInv
<1>7. n \in Connected(n, Event)
  BY ConnectedItself
<1>8. \A c \in components' : Whole(c)' /\ c \cap (component' \cup Range(queue')) = {}
  <2>1. \A c \in components : n \notin c
    BY <1>2, <1>6
  <2> QED
    BY <1>1, <1>3, <1>6, <2>1, GraphStays
<1>9. (\A m, k \in component \cup Range(queue) : k \in Connected(m, Event))'
  BY <1>1, <1>3, <1>7, GraphStays
<1>10. ThreadInv'
  BY <1>1, <1>2, <1>3, <1>6, <1>8, <1>9 DEF ThreadInv
<1> QED
  BY <1>4, <1>5, <1>10 DEF CausalInv

LEMMA GrowComponentKeeps ==
  ASSUME CausalInv, GrowComponent
  PROVE  CausalInv'
<1>1. PICK node, new, t, Q : node = Head(queue) /\ new = Adjacent(node) \ visited /\ t = Tail(queue) /\ Q = Range(t)
  OBVIOUS
<1>2. /\ phase = "threads" /\ queue # <<>> /\ component' = component \cup {node} /\ visited' = visited \cup new
      /\ UNCHANGED <<causes, documentOrder, inDegree, results, components, phase>>
  BY <1>1 DEF GrowComponent
<1>3. PICK s \in SetToSeqs(new) : queue' = t \o s
  BY <1>1 DEF GrowComponent
<1>4. causes \in SUBSET (Event \X Event) /\ queue \in Seq(Event) /\ visited \in SUBSET Event /\ component \in SUBSET Event
  BY DEF CausalInv, CausalTypeOK
<1>5. node \in Event /\ t \in Seq(Event) /\ Range(queue) = Q \cup {node}
  BY <1>1, <1>2, <1>4, HeadIs
<1>6. PICK old : old = component \cup Range(queue)
  OBVIOUS
<1>7. /\ visited = (UNION components) \cup old
      /\ \A c \in components : Whole(c) /\ c \cap old = {}
      /\ \A n \in component : Neighbours(n) \subseteq old
      /\ \A m, k \in old : k \in Connected(m, Event)
  BY <1>2, <1>6 DEF CausalInv, ThreadInv
<1>8. new = Neighbours(node) \ visited /\ new \in SUBSET Event
  BY <1>1, <1>4, NeighboursAre DEF Adjacent
<1>9. s \in Seq(Event) /\ Range(s) = new
  <2>1. IsFiniteSet(new)
    BY <1>8, FS_Subset, CausalAnalysisAssumption
  <2> QED
    BY <1>8, <2>1, InAnyOrder
<1>10. queue' \in Seq(Event) /\ Range(queue') = Q \cup new
  BY <1>1, <1>3, <1>5, <1>9, JoinedIs
<1>11. component' \cup Range(queue') = old \cup new /\ node \in old
  BY <1>2, <1>5, <1>6, <1>10
<1>12. CausalTypeOK'
  <2>1. visited' \in SUBSET Event /\ component' \in SUBSET Event
    BY <1>2, <1>4, <1>5, <1>8
  <2> QED
    BY <1>2, <1>10, <2>1 DEF CausalInv, CausalTypeOK
<1>13. OrderInv'
  BY <1>2, OrderStays DEF CausalInv
<1>14. Neighbours(node) \subseteq old \cup new
  <2>1. ASSUME NEW m \in Neighbours(node), m \notin old, m \in visited PROVE FALSE
    <3>1. PICK c \in components : m \in c
      BY <1>7, <2>1
    <3>2. node \in Neighbours(m)
      BY <1>4, NeighboursAre
    <3>3. node \in c
      BY <1>5, <1>7, <3>1, <3>2 DEF Whole, Spreads
    <3> QED
      BY <1>7, <1>11, <3>1, <3>3
  <2> QED
    BY <1>8, <2>1
<1>15. ASSUME NEW m \in old \cup new PROVE m \in Connected(node, Event)
  <2>1. CASE m \in old
    BY <1>7, <1>11, <2>1
  <2>2. CASE m \in new
    BY <1>5, <1>8, <2>2, ConnectedItself DEF Spreads
  <2> QED
    BY <2>1, <2>2
<1>16. \A m, k \in old \cup new : k \in Connected(m, Event)
  <2>1. ASSUME NEW m \in old \cup new PROVE Connected(m, Event) = Connected(node, Event)
    BY <1>4, <1>5, <1>15, ConnectedSame
  <2> QED
    BY <1>15, <2>1
<1>17. \A c \in components' : Whole(c)' /\ c \cap (component' \cup Range(queue')) = {}
  BY <1>2, <1>7, <1>8, <1>11, GraphStays
<1>18. visited' = (UNION components') \cup component' \cup Range(queue')
  BY <1>2, <1>7, <1>11
<1>19. (\A n \in component : Neighbours(n) \subseteq component \cup Range(queue))'
  <2>1. \A n \in component \cup {node} : Neighbours(n) \subseteq old \cup new
    BY <1>7, <1>14
  <2> QED
    BY <1>2, <1>11, <2>1, GraphStays
<1>20. (\A m, k \in component \cup Range(queue) : k \in Connected(m, Event))'
  BY <1>2, <1>11, <1>16, GraphStays
<1>21. ThreadInv'
  BY <1>2, <1>17, <1>18, <1>19, <1>20 DEF ThreadInv
<1> QED
  BY <1>12, <1>13, <1>21 DEF CausalInv

LEMMA EndComponentKeeps ==
  ASSUME CausalInv, EndComponent
  PROVE  CausalInv'
<1>1. /\ phase = "threads" /\ queue = <<>> /\ component # {}
      /\ components' = components \cup {component} /\ component' = {}
      /\ UNCHANGED <<causes, documentOrder, inDegree, queue, results, visited, phase>>
  BY DEF EndComponent
<1>2. Range(queue) = {} /\ Range(queue') = {}
  BY <1>1, NoneInRange
<1>3. /\ visited = (UNION components) \cup component
      /\ \A c \in components : Whole(c)
      /\ \A n \in component : Neighbours(n) \subseteq component
      /\ \A m, k \in component : k \in Connected(m, Event)
  BY <1>1, <1>2 DEF CausalInv, ThreadInv
<1>4. Whole(component)
  BY <1>1, <1>3 DEF Whole, Spreads
<1>5. CausalTypeOK'
  BY <1>1 DEF CausalInv, CausalTypeOK
<1>6. OrderInv'
  BY <1>1, OrderStays DEF CausalInv
<1>7. \A c \in components' : Whole(c)'
  BY <1>1, <1>3, <1>4, GraphStays
<1>8. visited' = (UNION components') \cup component' \cup Range(queue')
  BY <1>1, <1>2, <1>3
<1>9. ThreadInv'
  BY <1>1, <1>2, <1>7, <1>8 DEF ThreadInv
<1> QED
  BY <1>5, <1>6, <1>9 DEF CausalInv

LEMMA ThreadsEndKeeps ==
  ASSUME CausalInv, ThreadsEnd
  PROVE  CausalInv'
<1>1. /\ phase = "threads" /\ queue = <<>> /\ component = {} /\ visited = Event /\ phase' = "ended"
      /\ UNCHANGED <<causes, documentOrder, inDegree, queue, results, visited, component, components>>
  BY DEF ThreadsEnd
<1>2. CausalTypeOK'
  BY <1>1 DEF CausalInv, CausalTypeOK
<1>3. OrderInv'
  BY <1>1, OrderStays DEF CausalInv
<1>4. ThreadInv'
  <2>1. /\ visited = (UNION components) \cup component \cup Range(queue)
        /\ \A c \in components : Whole(c) /\ c \cap (component \cup Range(queue)) = {}
    BY <1>1 DEF CausalInv, ThreadInv
  <2>2. Range(queue) = {} /\ Range(queue') = {}
    BY <1>1, NoneInRange
  <2>3. \A c \in components' : Whole(c)'
    BY <1>1, <2>1, GraphStays
  <2> QED
    BY <1>1, <2>1, <2>2, <2>3 DEF ThreadInv
<1> QED
  BY <1>2, <1>3, <1>4 DEF CausalInv

LEMMA CausalStays ==
  ASSUME CausalInv, UNCHANGED causalVars
  PROVE  CausalInv'
<1>1. UNCHANGED <<causes, documentOrder, inDegree, queue, results, visited, component, components, phase>>
  BY DEF causalVars
<1>2. CausalTypeOK'
  BY <1>1 DEF CausalInv, CausalTypeOK
<1>3. OrderInv'
  BY <1>1 DEF CausalInv, OrderInv, Once, Sorted, Antecedents
<1>4. (\A c \in components : Whole(c) /\ c \cap (component \cup Range(queue)) = {})'
      <=> \A c \in components : Whole(c) /\ c \cap (component \cup Range(queue)) = {}
  BY <1>1, GraphStays
<1>5. (\A n \in component : Neighbours(n) \subseteq component \cup Range(queue))'
      <=> \A n \in component : Neighbours(n) \subseteq component \cup Range(queue)
  BY <1>1, GraphStays
<1>6. (\A m, k \in component \cup Range(queue) : k \in Connected(m, Event))'
      <=> \A m, k \in component \cup Range(queue) : k \in Connected(m, Event)
  BY <1>1, GraphStays
<1>7. ThreadInv'
  BY <1>1, <1>4, <1>5, <1>6 DEF CausalInv, ThreadInv
<1> QED
  BY <1>2, <1>3, <1>7 DEF CausalInv

LEMMA CausalInvariant == CausalSpec => []CausalInv
<1>1. CausalInit => CausalInv
  BY CausalStart
<1>2. CausalInv /\ [CausalNext]_causalVars => CausalInv'
  <2> SUFFICES ASSUME CausalInv, [CausalNext]_causalVars PROVE CausalInv'
    OBVIOUS
  <2>1. CASE OrderNext
    BY <2>1, OrderNextKeeps
  <2>2. CASE OrderEnds
    BY <2>2, OrderEndsKeeps
  <2>3. CASE StartComponent
    BY <2>3, StartComponentKeeps
  <2>4. CASE GrowComponent
    BY <2>4, GrowComponentKeeps
  <2>5. CASE EndComponent
    BY <2>5, EndComponentKeeps
  <2>6. CASE ThreadsEnd
    BY <2>6, ThreadsEndKeeps
  <2>7. CASE UNCHANGED causalVars
    BY <2>7, CausalStays
  <2> QED
    BY <2>1, <2>2, <2>3, <2>4, <2>5, <2>6, <2>7 DEF CausalNext
<1> QED
  BY <1>1, <1>2, PTL DEF CausalSpec

-----------------------------------------------------------------------------
(* CausalAnalysis: what the invariant says of the order. *)

LEMMA LeadsStep ==
  ASSUME causes \in SUBSET (Event \X Event), NEW n, NEW m, n \in Antecedents(m)
  PROVE  n \in Event /\ m \in Event /\ m \in From(n) /\ Leads(n, m)
<1>1. n \in Event /\ m \in Event /\ m \in From(n)
  BY EdgeIs
<1> QED
  BY <1>1 DEF Leads

LEMMA LeadsOn ==
  ASSUME NEW a, NEW b, NEW c, Leads(a, b), Leads(b, c)
  PROVE  Leads(a, c)
BY DEF Leads

\* No cycle leads to a node that was ordered.
LEMMA OrderedIsFree ==
  ASSUME CausalInv, NEW n \in Range(results), NEW c \in Event, Leads(c, c), c = n \/ Leads(c, n)
  PROVE  FALSE
<1>1. PICK done, len : done = Range(results) /\ len = Len(results)
  OBVIOUS
<1>2. causes \in SUBSET (Event \X Event) /\ results \in Seq(Event) /\ len \in Nat
  BY <1>1 DEF CausalInv, CausalTypeOK
<1>3. done \in SUBSET Event /\ \A x : x \in done <=> \E i \in 1..len : results[i] = x
  BY <1>1, <1>2, RangeIs
<1>4. \A i, j \in 1..len : results[i] = results[j] => i = j
  BY <1>1 DEF CausalInv, OrderInv, Once
<1>5. \A i \in 1..len : \A m \in Antecedents(results[i]) : \E j \in 1..(i - 1) : results[j] = m
  BY <1>1 DEF CausalInv, OrderInv
<1>6. ASSUME NEW i \in 1..len, NEW m \in Antecedents(results[i])
      PROVE  \E j \in 1..len : j < i /\ results[j] = m
  <2>1. PICK j \in 1..(i - 1) : results[j] = m
    BY <1>5
  <2>2. j \in 1..len /\ j < i
    BY <1>2
  <2> QED
    BY <2>1, <2>2
<1>7. ASSUME NEW k \in Event \ done PROVE From(k) \subseteq Event \ done
  <2>1. ASSUME NEW m \in From(k) PROVE m \in Event /\ k \in Antecedents(m)
    BY <1>2, EdgeIs
  <2> QED
    BY <1>3, <1>6, <2>1
<1>8. c \in done
  <2>1. CASE c = n
    BY <1>1, <2>1
  <2>2. CASE Leads(c, n)
    <3>1. ASSUME c \notin done PROVE n \in Event \ done
      <4>1. PICK S : S = Event \ done
        OBVIOUS
      <4>2. S \in SUBSET Event /\ From(c) \subseteq S /\ \A k \in S : From(k) \subseteq S
        BY <1>7, <3>1, <4>1
      <4>3. n \in S
        BY <2>2, <4>2 DEF Leads
      <4> QED
        BY <4>1, <4>3
    <3> QED
      BY <1>1, <3>1
  <2> QED
    BY <2>1, <2>2
<1>9. PICK i \in 1..len : results[i] = c
  BY <1>3, <1>8
<1>10. PICK X : X = {m \in Event : m \in done => \E p \in 1..len : p > i /\ results[p] = m}
  OBVIOUS
<1>11. ASSUME NEW k \in {c} \cup X, NEW m \in From(k) PROVE m \in X
  <2>1. m \in Event /\ k \in Antecedents(m)
    BY <1>2, EdgeIs
  <2>2. ASSUME m \in done PROVE \E p \in 1..len : p > i /\ results[p] = m
    <3>1. PICK p \in 1..len : results[p] = m
      BY <1>3, <2>2
    <3>2. PICK j \in 1..len : j < p /\ results[j] = k
      BY <1>6, <2>1, <3>1
    <3>3. j = i \/ j > i
      <4>1. CASE k = c
        BY <1>4, <1>9, <3>2, <4>1
      <4>2. CASE k \in X
        <5>1. k \in done
          BY <1>3, <3>2
        <5>2. PICK r \in 1..len : r > i /\ results[r] = k
          BY <1>10, <4>2, <5>1
        <5>3. j = r
          BY <1>4, <3>2, <5>2
        <5> QED
          BY <5>2, <5>3
      <4> QED
        BY <4>1, <4>2
    <3>4. p > i
      <4>1. p \in Nat /\ i \in Nat /\ j \in Nat /\ j < p
        BY <1>2, <3>2
      <4> QED
        BY ONLY <3>3, <4>1
    <3> QED
      BY <3>1, <3>4
  <2> QED
    BY <1>10, <2>1, <2>2
<1>12. c \in X
  <2>1. X \in SUBSET Event /\ From(c) \subseteq X /\ \A k \in X : From(k) \subseteq X
    BY <1>10, <1>11
  <2> QED
    BY <2>1 DEF Leads
<1>13. PICK p \in 1..len : p > i /\ results[p] = c
  BY <1>8, <1>10, <1>12
<1>14. p = i
  BY <1>4, <1>9, <1>13
<1>15. i \in Nat /\ i > i
  BY <1>2, <1>13, <1>14
<1> QED
  BY ONLY <1>15

\* A cycle leads to every node that was left out: to one, of those that lead to it, to
\* which fewest lead.
LEMMA LeftOutIsBehind ==
  ASSUME CausalInv, phase # "order", NEW n \in Event, n \notin Range(results)
  PROVE  \E c \in Event : Leads(c, c) /\ (c = n \/ Leads(c, n))
<1>1. PICK U : U = Event \ Range(results)
  OBVIOUS
<1>2. causes \in SUBSET (Event \X Event)
  BY DEF CausalInv, CausalTypeOK
<1>3. ASSUME NEW m \in U PROVE \E x \in U : x \in Antecedents(m)
  <2>1. inDegree[m] = Cardinality(Antecedents(m) \ Range(results)) /\ inDegree[m] # 0
    BY <1>1 DEF CausalInv, OrderInv
  <2>2. Antecedents(m) \ Range(results) # {}
    BY <2>1, FS_EmptySet
  <2> QED
    BY <1>1, <1>2, <2>2, AntecedentsAre
<1>4. PICK A : A = [m \in Event |-> {x \in U : Leads(x, m)}]
  OBVIOUS
<1>5. ASSUME NEW m \in Event PROVE A[m] \in SUBSET U /\ IsFiniteSet(A[m]) /\ Cardinality(A[m]) \in Nat
  <2>1. A[m] \in SUBSET U /\ A[m] \in SUBSET Event
    BY <1>1, <1>4
  <2>2. IsFiniteSet(A[m])
    BY <2>1, FS_Subset, CausalAnalysisAssumption
  <2> QED
    BY <2>1, <2>2, FS_CardinalityType
<1>6. PICK B, sizes : B = {n} \cup A[n] /\ sizes = {Cardinality(A[m]) : m \in B}
  OBVIOUS
<1>7. B \in SUBSET U /\ n \in B
  BY <1>1, <1>5, <1>6
<1>8. sizes \in SUBSET Nat /\ sizes # {}
  BY <1>1, <1>5, <1>6, <1>7
<1>9. PICK least \in sizes : \A y \in sizes : least <= y
  BY <1>8, LeastIsThere
<1>10. PICK m \in B : \A y \in B : Cardinality(A[m]) <= Cardinality(A[y])
  BY <1>6, <1>9
<1>11. PICK c \in U : c \in Antecedents(m)
  BY <1>3, <1>7
<1>12. Leads(c, m) /\ c \in Event /\ m \in Event
  BY <1>2, <1>11, LeadsStep
<1>13. Leads(c, n) /\ c \in B
  <2>1. m = n \/ Leads(m, n)
    BY <1>4, <1>6
  <2>2. Leads(c, n)
    BY <1>12, <2>1, LeadsOn
  <2> QED
    BY <1>4, <1>6, <2>2
<1>14. A[c] \in SUBSET A[m]
  <2>1. \A x \in A[c] : x \in U /\ Leads(x, c)
    BY <1>4, <1>12
  <2>2. \A x \in A[c] : x \in A[m]
    BY <1>4, <1>12, <2>1, LeadsOn
  <2> QED
    BY <2>2
<1>15. A[c] = A[m]
  <2>1. Cardinality(A[c]) <= Cardinality(A[m]) /\ (Cardinality(A[m]) = Cardinality(A[c]) => A[m] = A[c])
    BY <1>5, <1>12, <1>14, FS_Subset
  <2>2. Cardinality(A[m]) <= Cardinality(A[c])
    BY <1>10, <1>13
  <2>3. Cardinality(A[m]) \in Nat /\ Cardinality(A[c]) \in Nat
    BY <1>5, <1>12
  <2> QED
    BY <2>1, <2>2, <2>3
<1>16. c \in A[m]
  BY <1>4, <1>11, <1>12
<1>17. Leads(c, c)
  BY <1>4, <1>12, <1>15, <1>16
<1> QED
  BY <1>12, <1>13, <1>17

LEMMA OrderIsSound ==
  ASSUME CausalInv
  PROVE  CausalOrderSound
<1>1. Sorted(queue) \/ phase # "order"
  BY DEF CausalInv, OrderInv
<1>2. \A i \in 1..Len(results) : \A n \in Antecedents(results[i]) : \E j \in 1..(i - 1) : results[j] = n
  BY DEF CausalInv, OrderInv
<1>3. ASSUME phase # "order"
      PROVE  Range(results) = {n \in Event : ~\E c \in Event : Leads(c, c) /\ (c = n \/ Leads(c, n))}
  <2>1. PICK S : S = {n \in Event : ~\E c \in Event : Leads(c, c) /\ (c = n \/ Leads(c, n))}
    OBVIOUS
  <2>2. Range(results) \in SUBSET Event
    BY RangeIs DEF CausalInv, CausalTypeOK
  <2>3. \A n \in Range(results) : n \in S
    BY <2>1, <2>2, OrderedIsFree
  <2>4. \A n \in S : n \in Range(results)
    BY <1>3, <2>1, LeftOutIsBehind
  <2> QED
    BY <2>1, <2>3, <2>4
<1> QED
  BY <1>1, <1>2, <1>3 DEF CausalOrderSound

-----------------------------------------------------------------------------
(* CausalAnalysis: what the invariant says of the threads. *)

LEMMA ThreadsAreSound ==
  ASSUME CausalInv
  PROVE  ThreadsSound
<1>1. SUFFICES ASSUME phase = "ended"
               PROVE  /\ UNION Threads = Event
                      /\ \A a, b \in Event : b \in Neighbours(a) => \E t \in Threads : {a, b} \subseteq t
                      /\ \A t \in Threads : \A a, b \in t : b \in Connected(a, Event) \/ Neighbours(a) \ {a} = {}
                      /\ PivotalNodes = {n \in Event : \E a, b \in Neighbours(n) \ {n} : b \notin Connected(a, Event \ {n})}
  BY DEF ThreadsSound
<1>2. causes \in SUBSET (Event \X Event) /\ components \in SUBSET (SUBSET Event)
  BY DEF CausalInv, CausalTypeOK
<1>3. UNION components = Event /\ \A c \in components : Whole(c)
  <2>1. /\ visited = (UNION components) \cup component \cup Range(queue)
        /\ \A c \in components : Whole(c)
        /\ visited = Event /\ component = {} /\ queue = <<>>
    BY <1>1 DEF CausalInv, ThreadInv
  <2>2. Range(queue) = {}
    BY <2>1, NoneInRange
  <2> QED
    BY <2>1, <2>2
<1>4. PICK alone, many : /\ alone = UNION {c \in components : Cardinality(c) = 1}
                         /\ many = {c \in components : Cardinality(c) > 1}
  OBVIOUS
<1>5. Threads = many \cup ({alone} \ {{}})
  BY <1>4 DEF Threads
<1>6. ASSUME NEW c \in components PROVE c \in many \/ (Cardinality(c) = 1 /\ c \subseteq alone /\ alone \in Threads)
  <2>1. c # {} /\ IsFiniteSet(c)
    BY <1>2, <1>3, FS_Subset, CausalAnalysisAssumption DEF Whole
  <2>2. Cardinality(c) \in Nat /\ Cardinality(c) # 0
    BY <2>1, FS_CardinalityType, FS_EmptySet
  <2>3. Cardinality(c) > 1 \/ Cardinality(c) = 1
    BY <2>2
  <2>4. CASE Cardinality(c) > 1
    BY <1>4, <2>4
  <2>5. CASE Cardinality(c) = 1
    <3>1. c \subseteq alone
      BY <1>4, <2>5
    <3> QED
      BY <1>5, <2>1, <2>5, <3>1
  <2> QED
    BY <2>3, <2>4, <2>5
<1>7. ASSUME NEW c \in components PROVE \E t \in Threads : c \subseteq t
  BY <1>5, <1>6
<1>8. \A t \in Threads : t \subseteq Event
  BY <1>2, <1>4, <1>5
<1>9. UNION Threads = Event
  BY <1>3, <1>7, <1>8
<1>10. ASSUME NEW a \in Event, NEW b \in Event, b \in Neighbours(a) PROVE \E t \in Threads : {a, b} \subseteq t
  <2>1. PICK c \in components : a \in c
    BY <1>3
  <2>2. b \in c
    BY <1>3, <1>10, <2>1 DEF Whole, Spreads
  <2>3. PICK t \in Threads : c \subseteq t
    BY <1>7
  <2> QED
    BY <2>1, <2>2, <2>3
<1>11. ASSUME NEW t \in Threads, NEW a \in t, NEW b \in t PROVE b \in Connected(a, Event) \/ Neighbours(a) \ {a} = {}
  <2>1. CASE t \in many
    BY <1>3, <1>4, <2>1 DEF Whole
  <2>2. CASE t = alone
    <3>1. PICK c \in components : Cardinality(c) = 1 /\ a \in c
      BY <1>4, <2>2
    <3>2. IsFiniteSet(c)
      BY <1>2, FS_Subset, CausalAnalysisAssumption
    <3>3. \E x : c = {x}
      BY <3>1, <3>2, FS_Singleton
    <3>4. Neighbours(a) \subseteq Event
      BY <1>2, NeighboursAre
    <3>5. Neighbours(a) \subseteq c
      BY <1>3, <3>1, <3>4 DEF Whole, Spreads
    <3> QED
      BY <3>1, <3>3, <3>5
  <2> QED
    BY <1>5, <2>1, <2>2
<1>12. PivotalNodes = {n \in Event : \E a, b \in Neighbours(n) \ {n} : b \notin Connected(a, Event \ {n})}
  <2>1. \A n \in Event : CountComponents(Event \ {n}) > CountComponents(Event)
                             <=> \E a, b \in Neighbours(n) \ {n} : b \notin Connected(a, Event \ {n})
    BY <1>2, PivotalIs
  <2> QED
    BY <2>1 DEF PivotalNodes
<1> QED
  BY <1>9, <1>10, <1>11, <1>12

\* What the analysis says of the causal graph, whatever its connections, cycles and
\* documentOrders: the causal order has exactly the nodes that no cycle leads to, each
\* after what causes it; the threads are the components, those of one node together;
\* and a node is pivotal just when it alone connects two of its neighbours.
THEOREM CausalIsSound == CausalSpec => []CausalSound
<1>1. CausalInv => CausalSound
  BY OrderIsSound, ThreadsAreSound DEF CausalSound
<1> QED
  BY <1>1, CausalInvariant, PTL
=============================================================================
