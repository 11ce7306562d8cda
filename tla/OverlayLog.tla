----------------------------- MODULE OverlayLog -----------------------------
(***************************************************************************)
(* The event log of a workspace (events.py): `newest` is events.jsonl,     *)
(* which moves to the next archive before the row that would not fit.       *)
(* Writers hold one lock; the console's twin reads the files without it.    *)
(* The log's operators here have no holder: FamilyChannel gives them one.   *)
(***************************************************************************)
EXTENDS Naturals, Sequences, SequencesExt

CONSTANTS
  RowsPerFile,   \* what fits the size limit of one file
  PageSize,      \* rows of one page of the console's event list
  Sound, Bad     \* what a reading without the lock found

ASSUME OverlayAssumption == RowsPerFile \in Nat \ {0} /\ PageSize \in Nat \ {0}

VARIABLES
  archives,   \* the sequence of full files
  newest,     \* the rows of the newest file, possibly none
  torn,       \* the newest file ends in half a row
  gap,        \* the mark that a status change has no row
  overlay,    \* the reading without the lock: [pc, listed, rows, verdict]
  pager       \* the reader of pages: [pc, given], given being all that they gave

logVars == <<archives, newest, torn, gap>>
readerVars == <<overlay, pager>>

Log == FlattenSeq(archives) \o newest

(* A half row makes every reader and every writer refuse the log. *)
LogReadable == ~torn

NextSeq == Len(Log) + 1

NoView == [pc |-> "idle", listed |-> 0, rows |-> <<>>, verdict |-> Bad]

LogInit ==
  /\ archives = <<>> /\ newest = <<>> /\ torn = FALSE /\ gap = FALSE
  /\ overlay = NoView
  /\ pager = [pc |-> "idle", given |-> <<>>]

-----------------------------------------------------------------------------
(* The three effects of an append; the log is readable when it begins. *)

Full == Len(newest) = RowsPerFile

Rotate ==
  /\ Full
  /\ archives' = Append(archives, newest) /\ newest' = <<>>
  /\ UNCHANGED <<torn, gap>>

WriteRow(row) ==
  /\ ~Full
  /\ newest' = Append(newest, [row EXCEPT !.seq = NextSeq])
  /\ UNCHANGED <<archives, torn, gap>>

TearRow == ~Full /\ torn' = TRUE /\ UNCHANGED <<archives, newest, gap>>

-----------------------------------------------------------------------------
(* read_overlay_events: the list of archives is taken first, the newest file
   is opened later, and a rotation may come between. *)

Numbered(rows) == \A i \in DOMAIN rows : rows[i].seq = i

Stitched(listed) == FlattenSeq(SubSeq(archives, 1, listed)) \o newest

ListArchives ==
  /\ overlay.pc = "idle" /\ pager.pc = "idle"
  /\ overlay' = [overlay EXCEPT !.pc = "listed", !.listed = Len(archives)]
  /\ UNCHANGED <<logVars, pager>>

(* A row that is just being written is half a row to this reader: writing says
   whether a writer is there. *)
ReadFiles(writing) ==
  /\ overlay.pc = "listed"
  /\ \E caught \in {FALSE, writing} :
       LET rows == Stitched(overlay.listed)
       IN  overlay' =
             IF torn \/ caught \/ ~Numbered(rows)
             THEN [overlay EXCEPT !.pc = "read", !.rows = <<>>, !.verdict = Bad]
             ELSE [overlay EXCEPT !.pc = "read", !.rows = rows, !.verdict = Sound]
  /\ UNCHANGED <<logVars, pager>>

(* The mark is looked for last; the view is drawn and forgotten. *)
LookForGap ==
  /\ overlay.pc = "read"
  /\ overlay' = [overlay EXCEPT !.pc = "drawn", !.listed = 0,
                                !.verdict = IF gap THEN Bad ELSE @]
  /\ UNCHANGED <<logVars, pager>>

ForgetView == overlay.pc = "drawn" /\ overlay' = NoView /\ UNCHANGED <<logVars, pager>>

-----------------------------------------------------------------------------
(* event_page: the row under the cursor is compared in one locked section, the
   rows after it are read in the next. *)

PageCheck ==
  LET n == Len(pager.given)
  IN  /\ pager.pc = "idle" /\ overlay.pc = "idle" /\ LogReadable
      /\ n > 0 => n <= Len(Log) /\ Log[n] = pager.given[n]
      /\ pager' = [pager EXCEPT !.pc = "page"]
      /\ UNCHANGED <<logVars, overlay>>

Page(rows, after) == SubSeq(rows, after + 1, Min({after + PageSize, Len(rows)}))

PageRows(after) == Page(Log, after)

ReadPage ==
  /\ pager.pc = "page"
  /\ pager' = [pager EXCEPT !.pc = "idle",
                  !.given = IF LogReadable THEN @ \o PageRows(Len(@)) ELSE @]
  /\ UNCHANGED <<logVars, overlay>>

=============================================================================
