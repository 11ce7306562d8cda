---------------------------- MODULE FamilyChannel ----------------------------
(***************************************************************************)
(* The message channels of line families (families.py), and the task status *)
(* changes (tasks.set_status), over one event log.  Each channel row has a  *)
(* `signal` row in the log, each acknowledgement too; the files are several *)
(* and a process may die, or a disk may fail, between any two of its writes.*)
(*                                                                         *)
(* A message is its place in the channel.  Bodies, kinds other than retract *)
(* and times are left out.                                                  *)
(***************************************************************************)
EXTENDS OverlayLog, FiniteSets

CONSTANTS
  Lines, Parent,        \* Parent[l] is a line or NoLine
  Operator, NoLine,
  Senders, Recipients,  \* the ends that are tried, NoLine being "to all"
  Retractable,          \* the messages that are retracted, 0 being none
  Tasks, Artifacts, Procs,
  MaxRows, MaxChanges, MaxFaults, \* bounds: rows of the families, changes, faults,
  MaxEvents                       \* and rows of the log

ASSUME ChannelAssumption ==
  /\ Parent \in [Lines -> Lines \cup {NoLine}]
  /\ Operator \notin Lines /\ NoLine \notin Lines \cup {Operator}
  /\ Senders \subseteq Lines \cup {Operator}
  /\ Recipients \subseteq Lines \cup {Operator, NoLine}
  /\ MaxRows \in Nat /\ MaxChanges \in Nat /\ MaxFaults \in Nat
  /\ MaxEvents \in Nat /\ Retractable \subseteq Nat

VARIABLES
  channel,    \* [Lines -> Seq([from, to, retracts])]: a line is a family's parent
  half,       \* the families whose channel ends in half a row
  acks,       \* [Lines -> the messages in the family's ack file]
  artifacts,  \* [Lines -> the artifacts in the family's artifact log]
  bytes,      \* [Lines -> the artifacts whose bytes are whole]
  status,     \* [Tasks -> which of its statuses a task has]
  untold,     \* tasks with a change that a dying process did not tell
  proc,       \* what each process is doing
  faults

familyVars == <<channel, half, acks, artifacts, bytes>>
channelVars == <<logVars, readerVars, familyVars, status, untold, proc, faults>>

(* pc: "idle"; "append", which holds the lock; "found", an acknowledgement,
   "tell" and "missed", a status change, which wait for it. *)
Idle == [pc |-> "idle", kind |-> "none", about |-> NoLine, item |-> <<>>, todo |-> <<>>]

ChannelInit ==
  /\ LogInit
  /\ channel = [f \in Lines |-> <<>>] /\ half = {}
  /\ acks = [f \in Lines |-> {}]
  /\ artifacts = [f \in Lines |-> {}] /\ bytes = [f \in Lines |-> {}]
  /\ status = [t \in Tasks |-> 0] /\ untold = {}
  /\ proc = [p \in Procs |-> Idle] /\ faults = 0

Free == \A p \in Procs : proc[p].pc # "append"

Row(kind, about, n) == [seq |-> 0, kind |-> kind, about |-> about, n |-> n]

-----------------------------------------------------------------------------
(* Families. *)

Children(f) == {l \in Lines : Parent[l] = f /\ l # f}
Members(f) == {f, Operator} \cup Children(f)

(* The family of a message whose sender named none; NoLine: refused. *)
InferFamily(from, to) ==
  IF from = Operator
  THEN IF to \notin Lines THEN NoLine
       ELSE IF Parent[to] # NoLine THEN Parent[to] ELSE to
  ELSE IF to \in {Operator, NoLine}
       THEN IF Parent[from] # NoLine THEN Parent[from] ELSE from
  ELSE IF to \in {from} \cup Children(from) THEN from
  ELSE IF Parent[from] # NoLine /\ to \in Members(Parent[from]) THEN Parent[from]
  ELSE NoLine

FamilyOf(from, to, named) == IF named = NoLine THEN InferFamily(from, to) ELSE named

VisibleTo(viewer, f, row) ==
  row.to # NoLine => viewer \in {row.from, row.to, f, Operator}

(* The messages that the log tells of, those of acknowledgements included. *)
SignalIds(f) ==
  {Log[i].n : i \in {j \in DOMAIN Log : Log[j].kind \in {"signal", "ack"} /\ Log[j].about = f}}

(* Those that it does not tell of, in their order. *)
Missing(f) ==
  LET upTo[n \in 0..Len(channel[f])] ==
        IF n = 0 THEN <<>>
        ELSE IF n \in SignalIds(f) THEN upTo[n - 1] ELSE Append(upTo[n - 1], n)
  IN  upTo[Len(channel[f])]

Paired(f) == Missing(f) = <<>>
Legible(f) == LogReadable /\ f \notin half

(* What a reader of family f is shown: all that it may see, or an error. *)
Shown(viewer, f) ==
  IF Legible(f) /\ Paired(f)
  THEN {n \in DOMAIN channel[f] : VisibleTo(viewer, f, channel[f][n])} ELSE {}

Retracted(f) == {channel[f][n].retracts : n \in Shown(Operator, f)} \ {0}

-----------------------------------------------------------------------------
(* Processes.  Holding the lock, a process appends todo to the log, and then
   what is left of its operation follows. *)

Set(p, r) == proc' = [proc EXCEPT ![p] = r]

AppendNext(p) ==
  LET r == proc[p] IN
  /\ r.pc = "append" /\ r.todo # <<>>
  /\ \/ Rotate /\ UNCHANGED proc
     \/ /\ WriteRow(Head(r.todo))
        /\ Set(p, IF Len(r.todo) = 1 /\ r.item = <<>>
                  THEN Idle ELSE [r EXCEPT !.todo = Tail(@)])
  /\ UNCHANGED <<readerVars, familyVars, status, untold, faults>>

Rows == FoldFunction(LAMBDA c, n : n + Len(c), 0, channel)
          + FoldFunction(LAMBDA a, n : n + Cardinality(a), 0, artifacts)

(* post_channel_message: what is unpaired is told first. *)
PostBegin(p, from, to, named, retracts) ==
  LET f == FamilyOf(from, to, named) IN
  /\ proc[p].pc = "idle" /\ Free
  /\ f # NoLine /\ {from, to} \ {NoLine} \subseteq Members(f)
  /\ Legible(f) /\ Len(Log) < MaxEvents
  /\ Rows < MaxRows
  /\ Set(p, [pc |-> "append", kind |-> "post", about |-> f,
             item |-> <<[from |-> from, to |-> to, retracts |-> retracts]>>,
             todo |-> [i \in DOMAIN Missing(f) |-> Row("signal", f, Missing(f)[i])]])
  /\ UNCHANGED <<logVars, readerVars, familyVars, status, untold, faults>>

(* apply_human_channel_post: the console posts as the operator, in the family of
   its page, to a member of it or to all, and never retracts. *)
HumanPost(p, to, f) == PostBegin(p, Operator, to, f, 0)

HasTarget(f, row) == row.retracts \in 0..Len(channel[f])

CommitRow(p) ==
  LET r == proc[p]
      n == Len(channel[r.about]) + 1
  IN  /\ r.pc = "append" /\ r.kind = "post" /\ r.todo = <<>> /\ r.item # <<>>
      /\ IF HasTarget(r.about, r.item[1])
         THEN /\ channel' = [channel EXCEPT ![r.about] = @ \o r.item]
              /\ Set(p, [r EXCEPT !.item = <<>>, !.todo = <<Row("signal", r.about, n)>>])
         ELSE Set(p, Idle) /\ UNCHANGED channel
      /\ UNCHANGED <<logVars, readerVars, half, acks, artifacts, bytes, status, untold, faults>>

(* ack_channel_message looks for the message first, in a locked section of its
   own; with no family named, families whose channel is illegible are skipped. *)
FindMessage(p, named, n) ==
  LET matches == {f \in IF named = NoLine THEN Lines \ half ELSE {named} :
                    n \in DOMAIN channel[f]}
  IN  /\ proc[p].pc = "idle" /\ Free /\ Len(Log) < MaxEvents
      /\ named \notin half /\ Cardinality(matches) = 1
      /\ \E f \in matches :
           Set(p, [Idle EXCEPT !.pc = "found", !.kind = "ack", !.about = f, !.item = <<n>>])
      /\ UNCHANGED <<logVars, readerVars, familyVars, status, untold, faults>>

(* Mutant: an unpaired family is not refused. *)
AckableUnpaired(f) == Legible(f)
Ackable(f) == Legible(f) /\ Paired(f)

AckBegin(p) ==
  LET r == proc[p] IN
  /\ r.pc = "found" /\ Free
  /\ Set(p, IF Ackable(r.about)
            THEN [r EXCEPT !.pc = "append", !.todo = <<Row("ack", r.about, r.item[1])>>]
            ELSE Idle)
  /\ UNCHANGED <<logVars, readerVars, familyVars, status, untold, faults>>

CommitAcks(p) ==
  LET r == proc[p] IN
  /\ r.pc = "append" /\ r.kind = "ack" /\ r.todo = <<>>
  /\ acks' = [acks EXCEPT ![r.about] = @ \cup {r.item[1]}]
  /\ Set(p, Idle)
  /\ UNCHANGED <<logVars, readerVars, channel, half, artifacts, bytes, status, untold, faults>>

-----------------------------------------------------------------------------
(* plant_family_artifact: the bytes, then the row of the artifact log. *)

(* Mutant: an artifact may be planted over. *)
PlantableAgain(f, a) == TRUE
Plantable(f, a) == a \notin artifacts[f]

PlantBegin(p, f, a) ==
  /\ proc[p].pc = "idle" /\ Free /\ Plantable(f, a) /\ Rows < MaxRows
  /\ bytes' = [bytes EXCEPT ![f] = @ \ {a}]   \* the file is emptied, then written
  /\ Set(p, [Idle EXCEPT !.pc = "append", !.kind = "bytes", !.about = f, !.item = <<a>>])
  /\ UNCHANGED <<logVars, readerVars, channel, half, acks, artifacts, status, untold, faults>>

WriteBytes(p) ==
  LET r == proc[p] IN
  /\ r.pc = "append" /\ r.kind = "bytes"
  /\ bytes' = [bytes EXCEPT ![r.about] = @ \cup {r.item[1]}]
  /\ Set(p, [r EXCEPT !.kind = "plant"])
  /\ UNCHANGED <<logVars, readerVars, channel, half, acks, artifacts, status, untold, faults>>

CommitArtifact(p) ==
  LET r == proc[p] IN
  /\ r.pc = "append" /\ r.kind = "plant"
  /\ artifacts' = [artifacts EXCEPT ![r.about] = @ \cup {r.item[1]}]
  /\ Set(p, Idle)
  /\ UNCHANGED <<logVars, readerVars, channel, half, acks, bytes, status, untold, faults>>

-----------------------------------------------------------------------------
(* set_status: the status file, under the task's lock, then the log. *)

Held(t) == \E p \in Procs : proc[p].kind = "status" /\ proc[p].about = t

ChangeStatus(p, t) ==
  /\ proc[p].pc = "idle" /\ ~Held(t)
  /\ status[t] < MaxChanges /\ Len(Log) < MaxEvents
  /\ status' = [status EXCEPT ![t] = @ + 1]
  /\ Set(p, [Idle EXCEPT !.pc = "tell", !.kind = "status", !.about = t])
  /\ UNCHANGED <<logVars, readerVars, familyVars, untold, faults>>

(* The row names the status that this process wrote. *)
TellStatus(p) ==
  LET r == proc[p] IN
  /\ r.pc = "tell" /\ Free
  /\ Set(p, IF LogReadable
            THEN [r EXCEPT !.pc = "append", !.todo = <<Row("status", r.about, status[r.about])>>]
            ELSE [r EXCEPT !.pc = "missed"])
  /\ UNCHANGED <<logVars, readerVars, familyVars, status, untold, faults>>

RecordGap(p) ==
  /\ proc[p].pc = "missed" /\ Free
  /\ gap' = TRUE /\ Set(p, Idle)
  /\ UNCHANGED <<archives, newest, torn, readerVars, familyVars, status, untold, faults>>

-----------------------------------------------------------------------------
(* Faults: a process dies, or a write fails, at any point.  A change whose
   process dies is untold; so is one that waits for the log's lock in vain,
   because that error is not the one set_status catches. *)

Lost(p) == IF proc[p].kind = "status" THEN {proc[p].about} ELSE {}

ProcessDies(p) ==
  /\ proc[p].pc # "idle" /\ faults < MaxFaults /\ faults' = faults + 1
  /\ untold' = untold \cup Lost(p) /\ Set(p, Idle)
  /\ \/ UNCHANGED <<logVars, channel, half>>
     \/ proc[p].pc = "append" /\ proc[p].todo # <<>> /\ TearRow /\ UNCHANGED <<channel, half>>
     \/ /\ proc[p].pc = "append" /\ proc[p].kind = "post" /\ proc[p].todo = <<>>
        /\ half' = half \cup {proc[p].about} /\ UNCHANGED <<logVars, channel>>
  /\ UNCHANGED <<readerVars, acks, artifacts, bytes, status>>

Missed(p) ==
  IF proc[p].kind = "status" THEN [proc[p] EXCEPT !.pc = "missed", !.todo = <<>>] ELSE Idle

FailAppend(p) ==
  /\ proc[p].pc = "append" /\ proc[p].todo # <<>>
  /\ faults < MaxFaults /\ faults' = faults + 1
  /\ TearRow \/ UNCHANGED logVars
  /\ Set(p, Missed(p))
  /\ UNCHANGED <<readerVars, familyVars, status, untold>>

-----------------------------------------------------------------------------
Writing == \E p \in Procs : proc[p].pc = "append" /\ proc[p].todo # <<>>

ChannelNext ==
  \/ \E p \in Procs :
       \/ AppendNext(p) \/ CommitRow(p) \/ CommitAcks(p) \/ AckBegin(p)
       \/ WriteBytes(p) \/ CommitArtifact(p) \/ TellStatus(p) \/ RecordGap(p)
       \/ ProcessDies(p) \/ FailAppend(p)
       \/ \E from \in Senders, to \in Recipients, named \in Lines \cup {NoLine},
             retracts \in Retractable : PostBegin(p, from, to, named, retracts)
       \/ \E to \in Recipients, f \in Lines : HumanPost(p, to, f)
       \/ \E named \in Lines \cup {NoLine}, n \in 1..MaxRows : FindMessage(p, named, n)
       \/ \E f \in Lines, a \in Artifacts : PlantBegin(p, f, a)
       \/ \E t \in Tasks : ChangeStatus(p, t)
  \/ (ListArchives \/ ReadFiles(Writing) \/ LookForGap \/ ForgetView \/ PageCheck \/ ReadPage)
     /\ UNCHANGED <<familyVars, status, untold, proc, faults>>

ChannelSpec == ChannelInit /\ [][ChannelNext]_channelVars

-----------------------------------------------------------------------------
(* What is shown has been told by its own signal and once, whatever died
   between the two files and was replayed: an acknowledgement's row counts as
   a pair and must not stand in for it. *)
OwnSignals(f, n) ==
  {i \in DOMAIN Log : Log[i].kind = "signal" /\ Log[i].about = f /\ Log[i].n = n}

ShownIsToldOnce ==
  \A f \in Lines : \A n \in Shown(Operator, f) : Cardinality(OwnSignals(f, n)) = 1

(* What a file refers to is there: an acknowledged message has the row of its
   acknowledgement, a listed artifact its bytes, a retraction its message. *)
ReferencesHold ==
  \A f \in Lines :
    /\ artifacts[f] \subseteq bytes[f]
    /\ Retracted(f) \cup acks[f] \subseteq DOMAIN channel[f]
    /\ \A n \in acks[f] :
         \E i \in DOMAIN Log : Log[i] = [Row("ack", f, n) EXCEPT !.seq = i]

(* The last row of a task names the status it has, but while the change is being
   told, after a change whose process died, or with the mark set. *)
StatusTold ==
  \A t \in Tasks :
    LET told == {i \in DOMAIN Log : Log[i].kind = "status" /\ Log[i].about = t}
    IN  Held(t) \/ t \in untold \/ gap
        \/ status[t] = IF told = {} THEN 0
                       ELSE Log[CHOOSE i \in told : \A j \in told : j <= i].n

(* Pages, however rows and rotations come between them, give the log from its
   first row on, with none left out or given twice. *)
PagesAreTheLog == IsPrefix(pager.given, Log)

(* A reading without the lock that reports itself whole found the log from its
   first row on, none left out: a rotation may hide the last rows from it, but
   not rows between others. *)
OverlayIsPrefix == overlay.verdict = Sound => IsPrefix(overlay.rows, Log)

\* The log tells every message once and every change of status, or says that it does not.
ChangesTold == ShownIsToldOnce /\ StatusTold

\* What the files refer to and what readers are given is what was written.
ReadingsHold == ReferencesHold /\ PagesAreTheLog /\ OverlayIsPrefix

-----------------------------------------------------------------------------
\* A family to look at: a line that sends is forked from one that does not.
SendersForked ==
  [l \in Lines |-> IF l \in Senders THEN CHOOSE m \in Lines : m \notin Senders ELSE NoLine]

\* Processes are interchangeable.
ProcSymmetry == Permutations(Procs)
=============================================================================
