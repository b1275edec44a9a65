--------------------------- MODULE LimitProxyModel ---------------------------
(***************************************************************************)
(* QLimitProxyModelQML (plugins/Utils): the first rows of another model.   *)
(* It translates the row signals of the source, which are about rows that  *)
(* may be beyond the limit or cross it, to signals about its own rows.     *)
(*                                                                         *)
(* External: a view that keeps a copy of the rows by these signals alone,  *)
(* as ListView and Repeater do; Qt reads the rows when a signal ends.      *)
(* Sources that move rows, and limits below -1, are left out.              *)
(***************************************************************************)
EXTENDS Integers, Sequences, SequencesExt

CONSTANTS
  RowValues,    \* what a row shows
  MaxRows,   \* bound on the source
  MaxLimit   \* bound on the limit

ASSUME LimitAssumption == MaxRows \in Nat /\ MaxLimit \in Int

VARIABLES
  source,  \* the rows of the source model
  limit,   \* m_limit
  limitView     \* the copy of the view

limitVars == <<source, limit, limitView>>

Smaller(a, b) == IF a < b THEN a ELSE b

\* rowCount() and the rows for a source and a limit.
RowCount(rows, lim) == IF lim < 0 THEN Len(rows) ELSE Smaller(lim, Len(rows))
Limited(rows, lim) == SubSeq(rows, 1, RowCount(rows, lim))

\* A range of rows, from 0 as in the code; the other for a signal not sent.
Rows(first, last) == [first |-> first, last |-> last]
NoRows == Rows(0, -1)
RowSignals(insert, remove, change) == [insert |-> insert, remove |-> remove, change |-> change]

-----------------------------------------------------------------------------
\* sourceRowsAboutToBeInserted() for `added` rows at start.
InsertSignals(start, added) ==
  LET count == Len(source)
      fitting == limit - count
  IN  CASE limit < 0 \/ (start < limit /\ count + added <= limit) ->
             RowSignals(Rows(start, start + added - 1), NoRows, NoRows)
        [] limit >= 0 /\ start >= limit ->
             RowSignals(NoRows, NoRows, NoRows)
        [] limit >= 0 /\ start < limit /\ count >= limit ->
             RowSignals(NoRows, NoRows, Rows(start, limit - 1))
        [] OTHER ->
             RowSignals(Rows(start, start + fitting - 1), NoRows, Rows(start + fitting, limit - 1))

\* sourceRowsAboutToBeRemoved() for `gone` rows at start.
RemovesAll(start, gone) ==  \* variant: the rows that were removed, up to the limit
  RowSignals(NoRows, Rows(start, Smaller(start + gone, limit) - 1), NoRows)
RemovesLast(start, gone) ==
  LET removed == limit - (Len(source) - gone)
  IN  RowSignals(NoRows, Rows(limit - removed, limit - 1), Rows(start, limit - removed - 1))

RemoveSignals(start, gone) ==
  LET count == Len(source)
  IN  CASE limit < 0 \/ (start < limit /\ count <= limit) ->
             RowSignals(NoRows, Rows(start, start + gone - 1), NoRows)
        [] limit >= 0 /\ start >= limit ->
             RowSignals(NoRows, NoRows, NoRows)
        [] limit >= 0 /\ start < limit /\ count - gone >= limit ->
             RowSignals(NoRows, NoRows, Rows(start, limit - 1))
        [] OTHER -> RemovesLast(start, gone)

\* setLimit().
LimitSignals(lim) ==
  LET count == Len(source)
      old == RowCount(source, limit)
      removes == RowSignals(NoRows, Rows(lim, old - 1), NoRows)
      inserts(last) == RowSignals(Rows(limit, last), NoRows, NoRows)
  IN  CASE limit < 0 /\ lim < old -> removes
        [] limit >= 0 /\ lim < 0 /\ limit < count -> inserts(count - 1)
        [] limit >= 0 /\ lim > limit /\ count > limit -> inserts(Smaller(lim, count) - 1)
        [] limit >= 0 /\ lim >= 0 /\ lim < limit /\ lim < old -> removes
        [] OTHER -> RowSignals(NoRows, NoRows, NoRows)

(***************************************************************************)
(* The view: rows are taken from `now`, what the proxy has by then.        *)
(***************************************************************************)
Inserted(rows, r, now) ==
  SubSeq(rows, 1, r.first) \o SubSeq(now, r.first + 1, r.last + 1)
    \o SubSeq(rows, r.first + 1, Len(rows))
Removed(rows, r) == SubSeq(rows, 1, r.first) \o SubSeq(rows, r.last + 2, Len(rows))
Changed(rows, r, now) ==
  [i \in DOMAIN rows |-> IF i - 1 \in r.first..r.last /\ i \in DOMAIN now THEN now[i] ELSE rows[i]]

Follows(signals, now) ==
  limitView' = Changed(Removed(Inserted(limitView, signals.insert, now), signals.remove),
                  signals.change, now)

-----------------------------------------------------------------------------
SourceInserts(start, rows) ==
  /\ start \in 0..Len(source) /\ rows # <<>> /\ Len(source) + Len(rows) <= MaxRows
  /\ source' = SubSeq(source, 1, start) \o rows \o SubSeq(source, start + 1, Len(source))
  /\ Follows(InsertSignals(start, Len(rows)), Limited(source', limit))
  /\ UNCHANGED limit

SourceRemoves(start, gone) ==
  /\ gone > 0 /\ start + gone <= Len(source)
  /\ source' = SubSeq(source, 1, start) \o SubSeq(source, start + gone + 1, Len(source))
  /\ Follows(RemoveSignals(start, gone), Limited(source', limit))
  /\ UNCHANGED limit

SetLimit(lim) ==
  /\ lim # limit
  /\ limit' = lim
  /\ Follows(LimitSignals(lim), Limited(source, lim))
  /\ UNCHANGED source

\* Another source: the model is reset.
SetModel(rows) ==
  /\ rows # source
  /\ source' = rows
  /\ limitView' = Limited(rows, limit)
  /\ UNCHANGED limit

LimitInit ==
  /\ source = <<>>
  /\ limit = -1
  /\ limitView = <<>>

LimitNext ==
  \/ \E start \in 0..MaxRows, rows \in SeqOf(RowValues, MaxRows) : SourceInserts(start, rows)
  \/ \E start \in 0..MaxRows, gone \in 1..MaxRows : SourceRemoves(start, gone)
  \/ \E lim \in -1..MaxLimit : SetLimit(lim)
  \/ \E rows \in SeqOf(RowValues, 1) : SetModel(rows)

LimitSpec == LimitInit /\ [][LimitNext]_limitVars

-----------------------------------------------------------------------------
(***************************************************************************)
(* A view that follows the signals alone shows the first rows of the       *)
(* source, at most as many as the limit, after any insertions, removals    *)
(* and limits: those inside, beyond and across the limit                   *)
(* (sourceRowsAboutToBeInserted(), sourceRowsAboutToBeRemoved(),           *)
(* setLimit()).                                                            *)
(***************************************************************************)
ViewFollows == limitView = Limited(source, limit)
=============================================================================
