----------------------------- MODULE Indicators -----------------------------
(***************************************************************************)
(* IndicatorsManager and IndicatorsModel (plugins/Lomiri/Indicators): the  *)
(* indicators of the panel, each described by a file of its name in one of *)
(* several directories.  Those of the user come first, and several may     *)
(* have a file for the same indicator.                                     *)
(*                                                                         *)
(* External: packages add and remove files; QFileSystemWatcher tells of a  *)
(* directory later, once for several changes.  The profile, which gives    *)
(* the positions, does not change.                                         *)
(***************************************************************************)
EXTENDS Integers, Sequences, FiniteSets, SequencesExt

CONSTANTS
  IndicatorNames,
  IndicatorDirs,  \* the directories, in the order they are loaded
  Location,       \* directory -> the number of its data directory, the first is the best
  Position,       \* directory -> name -> the position its file gives the indicator
  NoDir

ASSUME IndicatorsAssumption ==
  /\ IsFiniteSet(IndicatorNames)
  /\ IndicatorDirs \in Seq(ToSet(IndicatorDirs))
  /\ Location \in [ToSet(IndicatorDirs) -> Nat]
  /\ Position \in [ToSet(IndicatorDirs) -> [IndicatorNames -> Int]]
  /\ NoDir \notin ToSet(IndicatorDirs)

VARIABLES
  existing,   \* the directories that are there
  files,      \* directory -> names it has a file of
  dirNotices, \* directories the watcher has still to tell of
  watchedDirs,\* directories m_fsWatcher watches
  loaded,     \* m_loaded
  fileInfo,   \* name -> directory of m_fileInfo, NoDir if it is not in m_indicatorsData
  indicator,  \* name -> directory of the file that m_indicator was made from
  panelRows,  \* IndicatorsModel::m_indicators, by name
  leftOut     \* history: indicators that went with their file though another directory has one

panelVars ==
  <<existing, files, dirNotices, watchedDirs, loaded, fileInfo, indicator, panelRows, leftOut>>
AllDirs == ToSet(IndicatorDirs)

(***************************************************************************)
(* The manager's and the model's part of the state is m, of which the      *)
(* operators give what it is after a call.                                 *)
(***************************************************************************)
NoData == [fileInfo |-> [n \in IndicatorNames |-> NoDir], indicator |-> [n \in IndicatorNames |-> NoDir], rows |-> <<>>]
PanelNow == [fileInfo |-> fileInfo, indicator |-> indicator, rows |-> panelRows]

PositionOf(m, n) == Position[m.indicator[n]][n]

\* IndicatorsModel::onIndicatorLoaded(), which has the indicator made.
Before(m, n) == {i \in DOMAIN m.rows : \A j \in 1..i : PositionOf(m, n) < PositionOf(m, m.rows[j])}
AppendRow(m, n) == Append(m.rows, n)  \* variant: in the order of loading
InsertRow(m, n) == InsertAt(m.rows, Cardinality(Before(m, n)) + 1, n)

OnIndicatorLoaded(m, n) ==
  LET made == IF m.indicator[n] = NoDir THEN [m EXCEPT !.indicator[n] = m.fileInfo[n]] ELSE m
  IN  IF Contains(m.rows, n) THEN made ELSE [made EXCEPT !.rows = InsertRow(made, n)]

\* loadFile(): a file of a better or the same data directory replaces the other.
Replaces(dir, other) == Location[dir] <= Location[other]
LoadFile(m, dir, n) ==
  IF m.fileInfo[n] # NoDir /\ (m.fileInfo[n] = dir \/ ~Replaces(dir, m.fileInfo[n])) THEN m
  ELSE OnIndicatorLoaded([m EXCEPT !.fileInfo[n] = dir], n)

\* The indicator goes, first from the model.
RowOf(m, n) == CHOOSE i \in DOMAIN m.rows : m.rows[i] = n
Unload(m, n) ==
  [fileInfo |-> [m.fileInfo EXCEPT ![n] = NoDir],
   indicator |-> [m.indicator EXCEPT ![n] = NoDir],
   rows |-> IF Contains(m.rows, n) THEN RemoveAt(m.rows, RowOf(m, n)) ELSE m.rows]

\* loadDir(), between startVerify() and endVerify().
Unverified(m, dir, found) == {n \in IndicatorNames : m.fileInfo[n] = dir} \ found
LoadFiles(m, dir, names) == FoldLeft(LAMBDA a, n : LoadFile(a, dir, n), m, names)
UnloadEach(m, names) == FoldLeft(Unload, m, names)
LoadDir(m, dir) ==
  LET found == LoadFiles(m, dir, SetToSeq(files[dir]))
  IN  UnloadEach(found, SetToSeq(Unverified(found, dir, files[dir])))

Becomes(m) == fileInfo' = m.fileInfo /\ indicator' = m.indicator /\ panelRows' = m.rows

\* IndicatorsModel::load(): forgets everything, reads each directory and watches those
\* that are there.
LoadDirs(dirs) == FoldLeft(LoadDir, NoData, dirs)
Load ==
  /\ Becomes(LoadDirs(IndicatorDirs))
  /\ loaded' = TRUE /\ watchedDirs' = existing
  /\ dirNotices' = {}   \* the watcher is a new one
  /\ leftOut' = {}
  /\ UNCHANGED <<existing, files>>

\* unload(); the watcher stays.
UnloadAll ==
  /\ loaded
  /\ Becomes(NoData)
  /\ loaded' = FALSE
  /\ UNCHANGED <<existing, files, dirNotices, watchedDirs, leftOut>>

IndicatorDirChanged(dir) ==
  /\ dir \in dirNotices
  /\ dirNotices' = dirNotices \ {dir}
  /\ Becomes(LoadDir(PanelNow, dir))
  /\ leftOut' = leftOut \cup {n \in Unverified(PanelNow, dir, files[dir]) :
                               \E other \in watchedDirs \ dirNotices : n \in files[other]}
  /\ UNCHANGED <<existing, files, watchedDirs, loaded>>

\* External: a package, which makes the directory for its file and leaves it behind.
FileChanges(dir, n) ==
  /\ files' = [files EXCEPT ![dir] = IF n \in @ THEN @ \ {n} ELSE @ \cup {n}]
  /\ existing' = existing \cup {dir}
  /\ dirNotices' = dirNotices \cup ({dir} \cap watchedDirs)
  /\ UNCHANGED <<watchedDirs, loaded, fileInfo, indicator, panelRows, leftOut>>

PanelInit ==
  /\ existing \in SUBSET AllDirs
  /\ files \in [AllDirs -> SUBSET IndicatorNames]
  /\ \A dir \in AllDirs \ existing : files[dir] = {}
  /\ dirNotices = {} /\ watchedDirs = {} /\ loaded = FALSE
  /\ fileInfo = NoData.fileInfo /\ indicator = NoData.indicator /\ panelRows = <<>>
  /\ leftOut = {}

PanelNext ==
  \/ Load
  \/ UnloadAll
  \/ \E dir \in AllDirs : IndicatorDirChanged(dir)
  \/ \E dir \in AllDirs, n \in IndicatorNames : FileChanges(dir, n)

PanelSpec == PanelInit /\ [][PanelNext]_panelVars

-----------------------------------------------------------------------------
(***************************************************************************)
(* Once the watcher has told of all changes, the panel shows each loaded   *)
(* indicator once, by descending position, and its file is still there; an *)
(* indicator that has files in directories that were there when the panel  *)
(* was loaded, and are watched, is shown, by the best of them, in whichever*)
(* order directories have changed (IndicatorsManager::loadFile(), "we need *)
(* to make sure we're not overwriting data which is from a lower priority  *)
(* standard path").  Those that went with their file are left out: nothing *)
(* looks for the files that other directories have of them.                *)
(***************************************************************************)
RowsAreLoaded ==
  loaded /\ dirNotices = {} =>
    /\ IsInjective(panelRows)
    /\ ToSet(panelRows) = {n \in IndicatorNames : fileInfo[n] # NoDir}
    /\ \A i, j \in DOMAIN panelRows :
         i < j => PositionOf(PanelNow, panelRows[i]) >= PositionOf(PanelNow, panelRows[j])
    /\ \A n \in ToSet(panelRows) : n \in files[fileInfo[n]]
    /\ \A dir \in watchedDirs : \A n \in files[dir] \ leftOut :
         n \in ToSet(panelRows) /\ Location[fileInfo[n]] <= Location[dir]
=============================================================================
