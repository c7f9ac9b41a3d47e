----------------------------- MODULE Documents -----------------------------
(***************************************************************************)
(* A document, its versions and its trash: services/documents.ts,          *)
(* services/versioning.ts and the routes over them, with what an analysis  *)
(* records of the text it read.                                            *)
(*                                                                         *)
(* A save is a chain of awaits: it compares the version the client knows,  *)
(* reads the row again, records the text that row had as a new version (a  *)
(* transaction that locks the row), and only then writes the new text. The *)
(* number currentVersion counts recorded versions: it is the number of the *)
(* text before the current one.                                            *)
(*                                                                         *)
(* The text stands for its editor state (yjsState) too: the editor sends   *)
(* both. Titles, styles and sizes are left out.                            *)
(***************************************************************************)
EXTENDS Naturals, Sequences, SequencesExt

CONSTANTS
  Save,        \* saves under way at once
  Text,        \* texts of the document
  Empty,       \* the text of a new document
  MaxVersions  \* bound: versions recorded

ASSUME DocumentsAssumption ==
  /\ Empty \in Text
  /\ MaxVersions \in Nat

VARIABLES
  doc,       \* the row: where it is, and its text
  version,   \* document_versions: the recorded texts; their number is currentVersion
  save,      \* where each save stands, and what it still needs of what it has read
  analysis,  \* the (version, text) a running analysis has read
  mark,      \* lastAnalyzedVersion, with (history) the text that was analysed
  overlap,   \* history: another save wrote since this one read the row
  blind      \* history: the text was written under a version number already read

docVars == <<doc, version, save, analysis, mark, overlap, blind>>

NotSaving == [at |-> "idle", old |-> Empty, bumped |-> FALSE]
Nothing == [version |-> 0, text |-> Empty, some |-> FALSE]
Readings == [version : 0..MaxVersions, text : Text, some : BOOLEAN]

DocRow == [state : {"here", "trash", "old", "gone"}, text : Text]

\* A version's number is its place: the unique index lets no two have one.
Versions == BoundedSeq(Text, MaxVersions)

DocTypeOK ==
  /\ doc \in DocRow
  /\ version \in Versions
  /\ save \in [Save -> [at : {"idle", "checked", "read", "ready", "summary"}, old : Text,
                        bumped : BOOLEAN]]
  /\ analysis \in Readings
  /\ mark \in Readings
  /\ overlap \in [Save -> BOOLEAN]
  /\ blind \in BOOLEAN

\* create, and the copy of a text.
DocInit ==
  /\ \E text \in Text : doc = [state |-> "here", text |-> text]
  /\ version = <<>>
  /\ save = [s \in Save |-> NotSaving]
  /\ analysis = Nothing
  /\ mark = Nothing
  /\ overlap = [s \in Save |-> FALSE]
  /\ blind = FALSE

--------------------------------------------------------------------------
(* DocumentsService.update. *)

\* get throws for a document that is not here; so does an expected version other
\* than currentVersion. A client may know it, force its save, or expect none, so
\* that a save may get past this whatever the version is.
CheckVersion(s) ==
  /\ save[s].at = "idle" /\ doc.state = "here"
  /\ save' = [save EXCEPT ![s].at = "checked"]
  /\ UNCHANGED <<doc, version, analysis, mark, overlap, blind>>

\* The row is read again; an empty text without a yjsState is not worth a version.
ReadCurrent(s) ==
  /\ save[s].at = "checked"
  /\ \E at \in IF doc.text = Empty THEN {"read", "ready"} ELSE {"read"} :
       save' = [save EXCEPT ![s] =
         IF doc.state # "here" THEN NotSaving
         ELSE [@ EXCEPT !.at = at, !.old = doc.text]]
  /\ overlap' = [overlap EXCEPT ![s] = FALSE]
  /\ UNCHANGED <<doc, version, analysis, mark, blind>>

AnyMutant(old) == version # <<>>
Recorded(old) == version # <<>> /\ Last(version) = old

\* createVersion. A row that is gone makes the insertion fail. A text recorded
\* already is recorded again if its yjsState has changed.
CreateVersion(s) ==
  /\ save[s].at = "read"
  /\ IF doc.state = "gone"
     THEN save' = [save EXCEPT ![s] = NotSaving] /\ UNCHANGED version
     ELSE \E new \in {TRUE, ~Recorded(save[s].old)} :
          /\ new => Len(version) < MaxVersions
          /\ version' = IF new THEN Append(version, save[s].old) ELSE version
          /\ save' = [save EXCEPT ![s].at = "ready", ![s].bumped = new, ![s].old = Empty]
  /\ UNCHANGED <<doc, analysis, mark, overlap, blind>>

\* The UPDATE, by id: it does not look at where the document is by now. The
\* version recorded for it may have been read by an analysis already.
WriteText(s) ==
  /\ save[s].at = "ready"
  /\ IF doc.state = "gone"
     THEN save' = [save EXCEPT ![s] = NotSaving] /\ UNCHANGED <<doc, overlap, blind>>
     ELSE /\ \E text \in Text : doc' = [doc EXCEPT !.text = text]
          /\ save' = [save EXCEPT ![s].at = "summary", ![s].bumped = FALSE]
          /\ overlap' = [t \in Save |-> t # s /\ (overlap[t] \/ save[t].at \in {"read", "ready"})]
          /\ blind' = \/ ~save[s].bumped
                      \/ \E r \in {analysis, mark} : r.some /\ r.version = Len(version)
  /\ UNCHANGED <<version, analysis, mark>>

\* updateDocumentSummary, which catches what it throws: from the two texts it makes
\* a summary, or edits the one that was read, and writes it by id over whatever the
\* row's summary is by now. Nothing here reads summaries, so they are left out.
UpdateSummary(s) ==
  /\ save[s].at = "summary"
  /\ save' = [save EXCEPT ![s] = NotSaving]
  /\ UNCHANGED <<doc, version, analysis, mark, overlap, blind>>

\* The process dies, or a statement fails.
SaveDies(s) ==
  /\ save[s].at # "idle"
  /\ save' = [save EXCEPT ![s] = NotSaving]
  /\ overlap' = [overlap EXCEPT ![s] = FALSE]
  /\ UNCHANGED <<doc, version, analysis, mark, blind>>

--------------------------------------------------------------------------
(* An analysis reads the row, and records its version when it has completed. *)

AnalysisReads ==
  /\ ~analysis.some /\ doc.state = "here" /\ doc.text # Empty
  /\ analysis' = [version |-> Len(version), text |-> doc.text, some |-> TRUE]
  /\ UNCHANGED <<doc, version, save, mark, overlap, blind>>

AnalysisCompletes ==
  /\ analysis.some
  /\ mark' = IF doc.state = "gone" THEN mark ELSE analysis
  /\ analysis' = Nothing
  /\ UNCHANGED <<doc, version, save, overlap, blind>>

AnalysisStops ==
  /\ analysis.some
  /\ analysis' = Nothing
  /\ UNCHANGED <<doc, version, save, mark, overlap, blind>>

\* What the analysis-status route tells the client.
LagMutant == mark.some /\ mark.version + 1 < Len(version)
HasChanges == mark.some /\ mark.version < Len(version)

--------------------------------------------------------------------------
(* The trash: 31 days, then the daily cleanup. *)

DocMoves(from, to) == doc.state \in from /\ doc' = [doc EXCEPT !.state = to]

DeleteDocument ==
  /\ DocMoves({"here"}, "trash")
  /\ UNCHANGED <<version, save, analysis, mark, overlap, blind>>

RestoreDocument ==
  /\ DocMoves({"trash", "old"}, "here")
  /\ UNCHANGED <<version, save, analysis, mark, overlap, blind>>

\* permanentDelete (the graph's nodes and the media before it are in modules of
\* their own), and the cleanup: the versions go with the row.
Erase(from) ==
  /\ doc.state \in from
  /\ doc' = [state |-> "gone", text |-> Empty]
  /\ version' = <<>>
  /\ mark' = Nothing
  /\ UNCHANGED <<save, analysis, overlap, blind>>

PermanentDelete == Erase({"trash", "old"})

RetentionEnds ==
  /\ DocMoves({"trash"}, "old")
  /\ UNCHANGED <<version, save, analysis, mark, overlap, blind>>

CleanupDocuments == Erase({"old"})

DocNext ==
  \/ \E s \in Save : \/ CheckVersion(s) \/ ReadCurrent(s) \/ CreateVersion(s) \/ WriteText(s)
                     \/ UpdateSummary(s) \/ SaveDies(s)
  \/ AnalysisReads \/ AnalysisCompletes \/ AnalysisStops
  \/ DeleteDocument \/ RestoreDocument \/ PermanentDelete \/ RetentionEnds \/ CleanupDocuments

DocSpec == DocInit /\ [][DocNext]_docVars

--------------------------------------------------------------------------
(* Properties. *)

\* No text is overwritten that is not among the recorded versions, although the
\* text recorded is one that was read some awaits earlier; except by a save that
\* another save overtook after it had read the row (the check of the expected
\* version comes before, and does not see it).
EditsKept ==
  [][doc' # doc => \A s \in Save : WriteText(s) =>
       doc.text \in Range(version) \cup {Empty} \/ overlap[s]]_docVars

\* A document said to have no changes since its analysis holds the text that was
\* analysed, unless that text was replaced under the number the analysis recorded:
\* by a save whose version was recorded before the analysis read the row and whose
\* text was written after, or by one that recorded no version.
NoChangesMeansAnalysed ==
  doc.state = "here" /\ mark.some /\ ~HasChanges => doc.text = mark.text \/ blind
=============================================================================
