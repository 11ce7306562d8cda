----------------------------- MODULE ConsolePage -----------------------------
(***************************************************************************)
(* One workspace shown by the Console: the worker captures tasks, lines    *)
(* and Objectives one after the other and without a lock, runs the doctor, *)
(* reads the overlay log and the ledger for the operator twin, projects    *)
(* all of it to what may be displayed, and the listener checks the answer  *)
(* field by field before anybody sees it.  The workspace goes on changing. *)
(***************************************************************************)
EXTENDS Integers, FiniteSets, SequencesExt

CONSTANTS
  Tasks, Lines, Objectives,  \* identifiers
  Odd,           \* the identifiers that look like a credential
  Oversized,     \* those with a row that holds too many names or too large a count
  MaxRows,       \* rows of a list that the listener accepts: 1000 in the code
  MaxChanges,    \* changes of the workspace
  MaxBreaks,     \* how often a part of it becomes unreadable
  Redacted, Empty

ASSUME PageAssumption ==
  /\ {Redacted, Empty} \cap (Tasks \cup Lines \cup Objectives) = {}
  /\ Odd \cup Oversized \subseteq Tasks \cup Lines \cup Objectives
  /\ MaxRows \in Nat

VARIABLES
  board,      \* the status of every task there is
  lines,      \* the development lines
  scopes,     \* per Objective there is, the tasks it may act on
  decayed,    \* the tasks whose certificates have decayed
  overlay,    \* the overlay log: <<kind, subject, whether it has too many facts>> each
  ledger,     \* the last row of the ledger, the same way, or Empty
  broken,     \* the parts that cannot be read now
  changed, breaks,
  request,    \* the request under way and what it has read
  moments        \* what the workspace was since the request came

pageVars == <<board, lines, scopes, decayed, overlay, ledger, broken, changed,
              breaks, request, moments>>

Parts == {"config", "tasks", "lines", "objectives", "doctor", "overlay", "ledger"}
Ops == {"workspace", "families", "proofs"}

NoRequest == [at |-> "idle", op |-> "workspace", tasks |-> Empty, lines |-> Empty,
         objectives |-> Empty, warnings |-> {}, events |-> Empty, row |-> Empty]

PageInit ==
  /\ board = [t \in {} |-> "assigned"] /\ lines = {} /\ scopes = [o \in {} |-> {}]
  /\ decayed = {} /\ overlay = <<>> /\ ledger = Empty
  /\ broken = {} /\ changed = 0 /\ breaks = 0
  /\ request = NoRequest
  /\ moments = {}

World == [tasks |-> board, lines |-> lines, scopes |-> scopes, overlay |-> overlay]
Can(part) == part \notin broken
Workspace == UNCHANGED <<board, lines, scopes, decayed, overlay, ledger, broken,
                         changed, breaks>>
Reads(f) == request' = f /\ UNCHANGED moments /\ Workspace

(***************************************************************************)
(* Names as they may be displayed: one that looks like a credential is     *)
(* replaced (redaction.py); the twin and the family cards leave it out.    *)
(***************************************************************************)
safe_id(x) == IF x \in Odd THEN Redacted ELSE x
safe_token(S) == S \ Odd
Known(id) == id # Redacted

(***************************************************************************)
(* Capturing.                                                              *)
(***************************************************************************)
AskWorkspace(op) ==
  /\ request.at = "idle"
  /\ request' = [NoRequest EXCEPT !.op = op, !.at = IF Can("config") THEN "tasks" ELSE "failed"]
  /\ moments' = {World}
  /\ Workspace

CaptureTasks ==
  /\ request.at = "tasks"
  /\ Reads([request EXCEPT !.at = "lines",
             !.tasks = IF Can("tasks") THEN board ELSE [t \in {} |-> Empty],
             !.warnings = IF Can("tasks") THEN @ ELSE @ \cup {"tasks"}])

CaptureLines ==
  /\ request.at = "lines"
  /\ Reads([request EXCEPT !.at = "objectives",
             !.lines = IF Can("lines") THEN lines ELSE {},
             !.warnings = IF Can("lines") THEN @ ELSE @ \cup {"lines"}])

\* Each Objective is planned from a snapshot of the tasks taken for it.
Planned(o) ==
  LET due == {t \in scopes[o] \cap DOMAIN board : board[t] # "done"}
  IN [selected |-> {<<t, IF t \in decayed THEN "PROOF_DECAYED" ELSE "READY">> : t \in due}]

CaptureObjectives ==
  /\ request.at = "objectives"
  /\ LET readable == Can("objectives") /\ (scopes # [o \in {} |-> {}] => Can("tasks"))
     IN Reads([request EXCEPT
               !.at = IF request.op = "proofs" THEN "answer" ELSE "doctor",
               !.objectives = IF readable THEN [o \in DOMAIN scopes |-> Planned(o)]
                              ELSE [o \in {} |-> Empty],
               !.warnings = IF readable THEN @ ELSE @ \cup {"objectives"}])

Doctor ==
  /\ request.at = "doctor"
  /\ Reads([request EXCEPT !.at = IF request.op = "families" THEN "unread_marks" ELSE "twin",
             !.warnings = IF Can("doctor") THEN @ ELSE @ \cup {"doctor"}])

\* The twin loads the profile again; without it, or with a log that is not
\* whole, it shows no event at all and says so.
ReadOverlay ==
  /\ request.at = "twin"
  /\ Reads([request EXCEPT !.at = "ledger",
             !.events = IF Can("config") /\ Can("overlay") THEN overlay ELSE Empty])

ReadLedger ==
  /\ request.at = "ledger"
  /\ Reads([request EXCEPT !.at = "answer",
             !.row = IF Can("ledger") THEN ledger ELSE Empty])

\* The family cards count what the operator has not acknowledged; an
\* unreadable channel fails the page.
UnreadMarks ==
  /\ request.at = "unread_marks"
  /\ Reads([request EXCEPT !.at = IF Can("overlay") THEN "answer" ELSE "failed"])

(***************************************************************************)
(* What the worker answers.  The inventory keeps what it cannot name; the  *)
(* twin, the family cards and the list of certificates leave it out.       *)
(***************************************************************************)
Undecayed(actions) == {a \in actions : a[2] # "PROOF_DECAYED"}

Inventory ==
  [tasks |-> {<<safe_id(t), request.tasks[t]>> : t \in DOMAIN request.tasks},
   lines |-> {safe_id(l) : l \in request.lines},
   objectives |->
     {[id |-> safe_id(o), selected |-> Undecayed(request.objectives[o].selected)] :
        o \in DOMAIN request.objectives}]

\* MUTANT for PageHonest: the plan keeps every task an Objective selected.
PlanOfAll ==
  {[id |-> i.id, tasks |-> safe_token({a[1] : a \in i.selected})] :
     i \in {j \in Inventory.objectives : Known(j.id)}}

Plan ==
  {[id |-> i.id,
    tasks |-> safe_token({a[1] : a \in i.selected} \cap DOMAIN request.tasks)] :
     i \in {j \in Inventory.objectives : Known(j.id)}}

Phases == {c \in Inventory.tasks : Known(c[1])}

\* The last word of the log on a dispatch, and whether the board told of it.
About(events, t, kind) == {i \in DOMAIN events : events[i][1] = kind /\ events[i][2] = t}
LastIsWordy(events, t) ==
  \E i \in About(events, t, "dispatch") :
    events[i][3] /\ \A j \in About(events, t, "dispatch") : j <= i

EventsRead == IF request.events = Empty THEN <<>> ELSE request.events
Running ==
  {[id |-> c[1], dispatched |-> About(EventsRead, c[1], "dispatch") # {},
    landed |-> About(EventsRead, c[1], "board") # {},
    wordy |-> LastIsWordy(EventsRead, c[1])] : c \in {p \in Phases : p[2] = "in_progress"}}

LatestLedger ==
  IF request.row = Empty THEN [task |-> Empty, wordy |-> FALSE]
  ELSE [task |-> IF request.row[2] \in Odd THEN Empty ELSE request.row[2],
        wordy |-> request.row[3]]

FamilyCards == {[parent |-> l] : l \in safe_token(request.lines)}
ProofRows == safe_token(DOMAIN request.objectives)

(***************************************************************************)
(* What the listener accepts.  A list of the answer has a row for whatever *)
(* was read, displayed or not.                                             *)
(***************************************************************************)
Short(rows) == Cardinality(rows) <= MaxRows
Fits(rows) == Short(rows) /\ rows \cap Oversized = {}

ValidTasks == Fits(DOMAIN request.tasks) /\ \A t \in Inventory.tasks : Known(t[1])
ValidLines == Fits(request.lines) /\ \A l \in Inventory.lines : Known(l)
ValidObjectives ==
  /\ Fits(DOMAIN request.objectives)
  /\ \A o \in Inventory.objectives :
       /\ Known(o.id) /\ Short(o.selected)
       /\ \A a \in o.selected : a[2] # "PROOF_DECAYED"

ValidTwinPlan ==
  \A row \in Plan : /\ row.id \in {o.id : o \in Inventory.objectives}
                     /\ row.tasks \subseteq {t[1] : t \in Inventory.tasks}
ValidTwinRunning == \A r \in Running : <<r.id, "in_progress">> \in Phases /\ ~r.wordy
ValidTwinLedger == LatestLedger.task \notin Odd /\ ~LatestLedger.wordy

ValidFamilies ==
  Short({c.parent : c \in FamilyCards}) /\ \A c \in FamilyCards : Known(c.parent)
ValidProofs == Short(ProofRows) /\ \A o \in ProofRows : Known(o)

ValidAnswer == CASE request.op = "workspace" ->
                 /\ ValidTasks /\ ValidLines /\ ValidObjectives
                 /\ ValidTwinPlan /\ ValidTwinRunning /\ ValidTwinLedger
           [] request.op = "families"  -> ValidFamilies
           [] request.op = "proofs"    -> ValidProofs

AnswerWorkspace ==
  /\ request.at = "answer"
  /\ Reads([request EXCEPT !.at = IF ValidAnswer THEN "shown" ELSE "refused"])

Forget ==
  /\ request.at \in {"shown", "refused", "failed"}
  /\ request' = NoRequest /\ moments' = {}
  /\ Workspace

(***************************************************************************)
(* The workspace meanwhile.                                                *)
(***************************************************************************)
\* A change of the workspace, remembered while a request is reading.
Changes(b, l, s, e) ==
  /\ changed < MaxChanges /\ changed' = changed + 1
  /\ board' = b /\ lines' = l /\ scopes' = s /\ overlay' = e
  /\ moments' = IF request.at = "idle" THEN moments
             ELSE moments \cup {[tasks |-> b, lines |-> l, scopes |-> s, overlay |-> e]}
  /\ UNCHANGED <<broken, breaks, request>>

AddTask(t) ==
  /\ t \notin DOMAIN board
  /\ Changes([u \in DOMAIN board \cup {t} |-> IF u = t THEN "assigned" ELSE board[u]],
             lines, scopes, overlay)
  /\ UNCHANGED <<decayed, ledger>>

SetStatus(t) ==
  /\ t \in DOMAIN board
  /\ \E status \in {"in_progress", "done"} \ {board[t]} :
       /\ Changes([board EXCEPT ![t] = status], lines, scopes, Append(overlay, <<"board", t, FALSE>>))
       /\ ledger' = <<"row", t, FALSE>>
  /\ UNCHANGED decayed

Dispatch(t) ==
  /\ t \in DOMAIN board /\ board[t] = "in_progress"
  /\ Changes(board, lines, scopes, Append(overlay, <<"dispatch", t, FALSE>>))
  /\ ledger' = <<"row", t, FALSE>> /\ UNCHANGED decayed

\* The program never writes too many facts; a hand or a tool may.
WriteByHand(t) ==
  /\ \/ /\ Changes(board, lines, scopes, Append(overlay, <<"dispatch", t, TRUE>>))
        /\ UNCHANGED ledger
     \/ /\ Changes(board, lines, scopes, overlay)
        /\ ledger' = <<"row", t, TRUE>>
  /\ UNCHANGED decayed

AddLine(l) ==
  /\ l \notin lines
  /\ Changes(board, lines \cup {l}, scopes, overlay)
  /\ UNCHANGED <<decayed, ledger>>

AddObjective(o) ==
  /\ o \notin DOMAIN scopes
  /\ Changes(board, lines,
             [p \in DOMAIN scopes \cup {o} |-> IF p = o THEN DOMAIN board ELSE scopes[p]],
             overlay)
  /\ UNCHANGED <<decayed, ledger>>

Decay(t) ==
  /\ t \in DOMAIN board \ decayed
  /\ Changes(board, lines, scopes, overlay)
  /\ decayed' = decayed \cup {t} /\ UNCHANGED ledger

Break(part) ==
  /\ Can(part) /\ breaks < MaxBreaks
  /\ broken' = broken \cup {part} /\ breaks' = breaks + 1
  /\ UNCHANGED <<board, lines, scopes, decayed, overlay, ledger, changed, request, moments>>

Mend(part) ==
  /\ ~Can(part)
  /\ broken' = broken \ {part}
  /\ UNCHANGED <<board, lines, scopes, decayed, overlay, ledger, changed, breaks,
                 request, moments>>

PageNext ==
  \/ \E op \in Ops : AskWorkspace(op)
  \/ CaptureTasks \/ CaptureLines \/ CaptureObjectives \/ Doctor \/ ReadOverlay
  \/ ReadLedger \/ UnreadMarks \/ AnswerWorkspace \/ Forget
  \/ \E t \in Tasks : AddTask(t) \/ SetStatus(t) \/ Dispatch(t) \/ WriteByHand(t) \/ Decay(t)
  \/ \E l \in Lines : AddLine(l)
  \/ \E o \in Objectives : AddObjective(o)
  \/ \E part \in Parts : Break(part) \/ Mend(part)

PageSpec == PageInit /\ [][PageNext]_pageVars

-----------------------------------------------------------------------------
Captured == DOMAIN request.tasks \cup request.lines \cup DOMAIN request.objectives

\* What was read is more than a page may hold.
TooMuch ==
  \/ ~Fits(DOMAIN request.tasks) \/ ~Fits(request.lines) \/ ~Fits(DOMAIN request.objectives)
  \/ \E o \in DOMAIN request.objectives : ~Short(Undecayed(request.objectives[o].selected))
  \/ LatestLedger.wordy \/ \E r \in Running : r.wordy

(***************************************************************************)
(* Whatever changes or breaks while a workspace is read: its page is only  *)
(* withheld because of a name that may not be displayed or because more    *)
(* was read than a page may hold, never because the parts were read at     *)
(* different moments; and each part of a page that is shown is what that   *)
(* part was at some moment of the reading, or is empty and marked as       *)
(* unread (overview.py:781-866, twin.py:187-312, inspection.py:413-508,    *)
(* 816-1107).                                                              *)
(***************************************************************************)
PageHonest ==
  /\ request.at = "refused" => Captured \cap Odd # {} \/ TooMuch
  /\ request.at = "shown" =>
       /\ "tasks" \in request.warnings \/ \E w \in moments : request.tasks = w.tasks
       /\ "lines" \in request.warnings \/ \E w \in moments : request.lines = w.lines
       /\ \/ "objectives" \in request.warnings
          \/ \E w \in moments : DOMAIN request.objectives = DOMAIN w.scopes
       /\ request.events = Empty \/ \E w \in moments : request.events = w.overlay

=============================================================================
