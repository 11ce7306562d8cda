--------------------------- MODULE EvidenceStore ---------------------------
(***************************************************************************)
(* The evidence of an externally executed task (src/dyro/evidence_store.py, *)
(* provenance.py).  An attempt is published as a generation: a directory    *)
(* that is filled under another name, renamed, and then made current by     *)
(* replacing a pointer.  Publishing and pruning hold the task's state lock; *)
(* readers take no lock.  A command may fail or die between any two steps.  *)
(* What it leaves under a temporary name is no generation, and is left out. *)
(***************************************************************************)
EXTENDS Integers, Sequences, FiniteSets, SequencesExt

CONSTANTS
  Attempts,     \* attempt ids, which name the generations
  Parts,        \* the evidence files of a generation
  Readers,      \* processes that read evidence
  None,         \* no attempt, no generation
  LastStart     \* bound: the clocks of the runners read 0 .. LastStart

\* What an attempt says of itself; its start is read off the runner's clock.
Record == [number : 1 .. Cardinality(Attempts), parent : {None} \cup Attempts,
           started : 0 .. LastStart]

\* The evidence, the record of the attempt, and the manifest that lists them.
Listed == Parts \cup {"attempt"}
AllFiles == Listed \cup {"manifest"}

ASSUME EvidenceAssumption ==
  /\ None \notin Attempts \cup
       [record : Record, listed : SUBSET Listed, files : SUBSET AllFiles]
  /\ {"attempt", "manifest"} \cap Parts = {} /\ LastStart \in Nat

VARIABLES
  generation,   \* [Attempts -> None or a named directory]
  made,         \* the named directories, oldest first (by mtime)
  current,      \* .current-evidence: the generation it names
  work,          \* the command that holds the state lock
  reader        \* the processes that read

evidenceVars == <<generation, made, current, work, reader>>

NoWork == [pc |-> "idle", attempt |-> None, record |-> None, files |-> {}, targets |-> {}]
Rested == [pc |-> "idle", from |-> None, moved |-> FALSE, want |-> {}]

EvidenceInit ==
  /\ generation = [a \in Attempts |-> None] /\ made = <<>>
  /\ current = None /\ work = NoWork
  /\ reader = [r \in Readers |-> Rested]

Named == {a \in Attempts : generation[a] # None}
Whole(a) == generation[a].files = generation[a].listed \cup {"manifest"}
Kept == UNCHANGED <<generation, made, current>>

\* list_execution_attempts: of every generation the manifest and the record it lists;
\* another file may be missing.
Listable == \A a \in Named : {"attempt", "manifest"} \subseteq generation[a].files

\* list_evidence_generations reads every file.
Readable == \A a \in Named : Whole(a)

\* The attempt that started last, the higher number where two started together.
Latest ==
  CHOOSE a \in Named : \A b \in Named \ {a} :
    LET A == generation[a].record  B == generation[b].record
    IN \/ A.started > B.started
       \/ A.started = B.started /\ A.number >= B.number

-----------------------------------------------------------------------------
(* import_execution: what the record must be, then the publication          *)

\* The place of the next attempt.
Lineage ==
  IF Named = {} THEN [number |-> 1, parent |-> None]
  ELSE [number |-> generation[Latest].record.number + 1, parent |-> Latest]

\* A known attempt must be told as before; a new one continues the latest.
Continuing(a, record) ==
  IF a \in Named THEN generation[a].record = record
  ELSE [number |-> record.number, parent |-> record.parent] = Lineage

\* MUTANT for NeverBack: what the run state tells is not compared.
FreshAlways(a, record) == TRUE

\* The run state of the current generation is not to go back.
Fresh(a, record) ==
  current # None =>
    /\ current \in Named
    /\ LET last == generation[current].record.number
       IN record.number > last \/ (record.number = last /\ a = current)

Import(a, record) ==
  /\ work.pc = "idle" /\ Listable
  /\ Continuing(a, record) /\ Fresh(a, record)
  /\ work' = [NoWork EXCEPT !.pc = "publish", !.attempt = a, !.record = record]
  /\ Kept /\ UNCHANGED reader

\* What the manifest is to list: the record of a known attempt is not written again.
ToPublish == IF work.attempt \in Named THEN Parts ELSE Listed

\* MUTANT for CurrentIsWhole: a directory of that name is pointed at without a look.
PublishUnseen ==
  /\ work.pc = "publish"
  /\ work' = [work EXCEPT !.pc = IF work.attempt \in Named THEN "point" ELSE "write"]
  /\ Kept /\ UNCHANGED reader

\* A directory of that name is taken if its manifest lists the same and every file is there.
Publish ==
  /\ work.pc = "publish"
  /\ work' = IF work.attempt \notin Named THEN [work EXCEPT !.pc = "write"]
             ELSE IF generation[work.attempt].listed = ToPublish /\ Whole(work.attempt)
               THEN [work EXCEPT !.pc = "point"]
             ELSE NoWork
  /\ Kept /\ UNCHANGED reader

\* The files, and the manifest last.
WriteFile ==
  /\ work.pc = "write" /\ work.files # AllFiles
  /\ \E f \in AllFiles \ work.files :
       /\ f = "manifest" => Listed \subseteq work.files
       /\ work' = [work EXCEPT !.files = @ \cup {f}]
  /\ Kept /\ UNCHANGED reader

Rename ==
  /\ work.pc = "write" /\ work.files = AllFiles
  /\ generation' = [generation EXCEPT ![work.attempt] = [record |-> work.record,
                                           listed |-> ToPublish, files |-> work.files]]
  /\ made' = Append(made, work.attempt)
  /\ work' = [work EXCEPT !.pc = "point"]
  /\ UNCHANGED <<current, reader>>

Point ==
  /\ work.pc = "point" /\ work' = NoWork
  /\ current' = work.attempt
  /\ reader' = [r \in Readers |->
                 [reader[r] EXCEPT !.moved = @ \/ current # work.attempt]]
  /\ UNCHANGED <<generation, made>>

\* An exception removes the temporary directory.
Fail ==
  /\ work.pc \in {"publish", "write", "point"} /\ work' = NoWork
  /\ Kept /\ UNCHANGED reader

Die ==
  /\ work.pc # "idle" /\ work' = NoWork
  /\ Kept /\ UNCHANGED reader

-----------------------------------------------------------------------------
(* maintain_evidence_generations with prune                                 *)

\* The generations that are not current, by their places in `made`.
History == {n \in DOMAIN made : made[n] # current}

\* Of the history all but the newest `keep` go, if they are old enough.
Targets(keep, old) ==
  {made[n] : n \in {m \in History : Cardinality({h \in History : h > m}) >= keep}} \cap old

Prune(keep, old) ==
  /\ work.pc = "idle" /\ Readable
  /\ work' = [NoWork EXCEPT !.pc = "remove", !.targets = Targets(keep, old)]
  /\ Kept /\ UNCHANGED reader

\* rmtree, one generation after the other, file by file in any order.
RemoveFile ==
  /\ work.pc = "remove"
  /\ \E a \in work.targets, f \in AllFiles :
       /\ \A b \in work.targets \ {a} : Whole(b)
       /\ f \in generation[a].files
       /\ generation' = [generation EXCEPT ![a].files = @ \ {f}]
  /\ UNCHANGED <<made, current, work, reader>>

RemoveDirectory ==
  /\ work.pc = "remove"
  /\ \E a \in work.targets :
       /\ generation[a].files = {}
       /\ generation' = [generation EXCEPT ![a] = None]
       /\ made' = SelectSeq(made, LAMBDA b : b # a)
       /\ work' = [work EXCEPT !.targets = @ \ {a}]
  /\ UNCHANGED <<current, reader>>

Pruned ==
  /\ work.pc = "remove" /\ work.targets = {} /\ work' = NoWork
  /\ Kept /\ UNCHANGED reader

-----------------------------------------------------------------------------
(* Readers, each part through the pointer                                   *)

Ask(r) ==
  /\ reader[r].pc = "idle"
  /\ reader' = [reader EXCEPT ![r] = [Rested EXCEPT !.pc = "pointer", !.want = Parts]]
  /\ Kept /\ UNCHANGED work

\* current_evidence_directory: the pointer; without one the files of old times are read.
ReadPointer(r) ==
  /\ reader[r].pc = "pointer"
  /\ reader' = [reader EXCEPT ![r].from = current, ![r].moved = FALSE,
                              ![r].pc = IF current = None THEN "idle" ELSE "part"]
  /\ Kept /\ UNCHANGED work

\* _verified_generation_path: the manifest, and the part against it.
ReadPart(r) ==
  LET from == reader[r].from
  IN /\ reader[r].pc = "part"
     /\ \E p \in reader[r].want :
          reader' = [reader EXCEPT ![r].pc =
                       IF from \notin Named \/ ~({"manifest", p} \subseteq generation[from].files)
                         THEN "failed"
                       ELSE IF reader[r].want = {p} THEN "idle" ELSE "pointer",
                     ![r].want = @ \ {p}]
     /\ Kept /\ UNCHANGED work

ReadAgain(r) ==
  /\ reader[r].pc = "failed"
  /\ reader' = [reader EXCEPT ![r] = Rested]
  /\ Kept /\ UNCHANGED work

EvidenceNext ==
  \/ \E a \in Attempts, record \in Record : Import(a, record)
  \/ Publish \/ WriteFile \/ Rename \/ Point \/ Fail \/ Die
  \/ \E keep \in {0, 1}, old \in SUBSET Attempts : Prune(keep, old)
  \/ RemoveFile \/ RemoveDirectory \/ Pruned
  \/ \E r \in Readers : Ask(r) \/ ReadPointer(r) \/ ReadPart(r) \/ ReadAgain(r)

EvidenceSpec == EvidenceInit /\ [][EvidenceNext]_evidenceVars
-----------------------------------------------------------------------------
(***************************************************************************)
(* Whatever fails, dies or is pruned, and however many torn generations lie *)
(* beside it, the current generation is there with every file its manifest  *)
(* lists (evidence_store.py:253-304, 364-435).                              *)
(***************************************************************************)
CurrentIsWhole == current # None => current \in Named /\ Whole(current)

(***************************************************************************)
(* A reader, who takes no lock, finds the evidence it asks for unless      *)
(* another generation became current after it read the pointer             *)
(* (evidence_store.py:81-145, 312-362).                                    *)
(***************************************************************************)
Served == \A r \in Readers : reader[r].pc = "failed" => reader[r].moved

(***************************************************************************)
(* Evidence of an earlier attempt never becomes current again: neither by  *)
(* importing it once more, nor by an attempt that continues another one,   *)
(* which the clock of its runner puts last (provenance.py:442-470).        *)
(***************************************************************************)
NeverBack ==
  [][current # None /\ current' # current
       => generation[current'].record.number > generation[current].record.number]_evidenceVars

\* The current evidence is whole, and readers without a lock find it.
EvidenceServed == CurrentIsWhole /\ Served

=============================================================================
