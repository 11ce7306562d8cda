----------------------------- MODULE LineWizard -----------------------------
(***************************************************************************)
(* The questions that lead to a new line or hotfix at the terminal         *)
(* (src/dyro/home.py): repositories, a base that every one of them can     *)
(* resolve, exceptions and overrides per repository, a preview, and the    *)
(* creation.  One can go back at every question.  No lock is held: refs    *)
(* and lines may change under the answers.                                 *)
(*                                                                         *)
(* A ref is a name and where it was found: a local branch, one of origin,  *)
(* a tag.                                                                  *)
(***************************************************************************)
EXTENDS Repositories, Integers, SequencesExt

CONSTANTS
    Refs,          \* the refs there may be: pairs <<name, place>>
    Releases,      \* names that count as release branches
    MaxFetches     \* bound: how often a ref comes or goes

ASSUME WizardAssumption ==
    /\ \A ref \in Refs : ref = <<ref[1], ref[2]>> /\ ref[2] \in {"local", "origin", "tag"}
    /\ None \notin Refs

VARIABLES
    refs,          \* [Repos -> SUBSET Refs]
    taken,         \* a line of the id is registered
    wizard,        \* where the questions are, and the answers
    shown,         \* the preview that was shown last, or None
    created,       \* the line this wizard created, or None
    fetches        \* how often a ref came or went

wizardVars == <<refs, taken, wizard, shown, created, fetches>>

Unresolved == [r \in Repos |-> None]
AtHome == [at |-> "home", kind |-> "line", chosen |-> <<>>, bases |-> Unresolved,
           base |-> None, overrides |-> {}]

WizardInit ==
    /\ refs \in [Repos -> SUBSET Refs] /\ taken = FALSE
    /\ wizard = AtHome /\ shown = None /\ created = None /\ fetches = 0

Chosen == {wizard.chosen[n] : n \in DOMAIN wizard.chosen}
At(step) == wizard.at = step
GoTo(step) == wizard' = [wizard EXCEPT !.at = step]
\* Back at a question, the answers to it and to the later ones are gone.
AskAgain(step) ==
    wizard' = [AtHome EXCEPT !.at = step, !.kind = wizard.kind,
                             !.chosen = IF step = "base" THEN wizard.chosen ELSE <<>>]
Unchanged4 == UNCHANGED <<refs, taken, created, fetches>>
Asking == Unchanged4 /\ UNCHANGED shown

-----------------------------------------------------------------------------
(* Bases.                                                                   *)

\* _resolve_repository_base: as it is spelt, else the branch at the other place.
Resolved(r, ref) ==
    LET other == CASE ref[2] = "origin" -> <<ref[1], "local">>
                   [] OTHER             -> <<ref[1], "origin">>
    IN IF ref \in refs[r] THEN ref ELSE IF other \in refs[r] THEN other ELSE None

\* MUTANT for CreatedAsShown: compared with the first repository, not with the base kept.
OverridesOfFirst(bases, base) ==
    {<<r, bases[r]>> : r \in {q \in Chosen : bases[q] # bases[wizard.chosen[1]]}}

\* A selection is one base, and what differs from it.
Overrides(bases, base) ==
    {<<r, bases[r]>> : r \in {q \in Chosen : bases[q] # base}}

BaseFor(r) ==
    IF \E ref \in Refs : <<r, ref>> \in wizard.overrides
    THEN CHOOSE ref \in Refs : <<r, ref>> \in wizard.overrides
    ELSE wizard.base

\* _shared_tag_candidates
SharedTags ==
    {[r \in Repos |-> IF r \in Chosen THEN tag ELSE None] :
        tag \in {ref \in Refs : ref[2] = "tag" /\ \A r \in Chosen : ref \in refs[r]}}

\* _shared_release_branch_candidates: a name that every repository has, with the
\* spelling of origin before the local one.
SharedReleases ==
    LET places(r, name) == {ref \in refs[r] : ref[1] = name /\ ref[2] # "tag"}
        best(r, name) == IF <<name, "origin">> \in refs[r] THEN <<name, "origin">>
                         ELSE <<name, "local">>
    IN {[r \in Repos |-> IF r \in Chosen THEN best(r, name) ELSE None] :
          name \in {n \in Releases : \A r \in Chosen : places(r, n) # {}}}

Candidates == SharedTags \cup SharedReleases

Selected(bases, step) ==
    LET base == bases[wizard.chosen[1]]
    IN wizard' = [wizard EXCEPT !.at = step, !.bases = bases, !.base = base,
                                !.overrides = Overrides(bases, base)]

\* _repository_base_suggestions: what can be resolved there; so must what is typed.
Suggested(r) == refs[r]

-----------------------------------------------------------------------------
(* The questions.                                                           *)

Begin(kind) ==
    /\ At("home") /\ wizard' = [AtHome EXCEPT !.at = "id", !.kind = kind]
    /\ created' = None /\ shown' = None
    /\ UNCHANGED <<refs, taken, fetches>>

EnterId == At("id") /\ GoTo("repositories") /\ Asking

\* The one repository there is, all of them, or some in the order they are named in.
ChooseRepositories ==
    /\ At("repositories")
    /\ \E S \in SUBSET Repos \ {{}} : \E chosen \in SetToSeqs(S) :
         /\ S = Repos => chosen = Order \/ Len(Order) > 1
         /\ wizard' = [wizard EXCEPT !.at = "base", !.chosen = chosen]
    /\ Asking

\* _normalize_repository_bases, for a base that was picked or typed.
AskBase(ref) ==
    /\ At("base")
    /\ wizard' = [wizard EXCEPT !.at = "exceptions",
         !.bases = [r \in Repos |-> IF r \in Chosen THEN Resolved(r, ref) ELSE None]]
    /\ Asking

\* Where it cannot be resolved, a base is asked for, repository by repository.
AskException ==
    /\ At("exceptions")
    /\ LET open == {n \in DOMAIN wizard.chosen : wizard.bases[wizard.chosen[n]] = None}
       IN IF open = {} THEN Selected(wizard.bases, "overrides")
          ELSE \E n \in open :
                 /\ \A m \in open : n <= m
                 /\ \E ref \in Suggested(wizard.chosen[n]) :
                      wizard' = [wizard EXCEPT !.bases[wizard.chosen[n]] = ref]
    /\ Asking

\* A hotfix may take what all repositories have in common.
AskCandidate ==
    /\ At("base") /\ wizard.kind = "hotfix"
    /\ \E bases \in Candidates : Selected(bases, "overrides")
    /\ Asking

KeepBases == At("overrides") /\ GoTo("check") /\ Asking

AdjustBase ==
    /\ wizard.at \in {"overrides", "adjusting"} /\ Len(wizard.chosen) > 1
    /\ \E r \in Chosen : \E ref \in Suggested(r) :
         wizard' = [wizard EXCEPT !.at = "adjusting", !.bases[r] = ref]
    /\ Asking

\* The base stays that of the first mapping.
Adjusted ==
    /\ At("adjusting")
    /\ wizard' = [wizard EXCEPT !.at = "check",
                                !.overrides = Overrides(wizard.bases, wizard.base)]
    /\ Asking

CheckBases ==
    /\ At("check")
    /\ IF \A r \in Chosen : BaseFor(r) \in refs[r] THEN GoTo("preflight")
       ELSE AskAgain("base")
    /\ Asking

Planned == [repositories |-> Chosen, bases |-> [r \in Chosen |-> BaseFor(r)]]
CanBeCreated == ~taken /\ \A r \in Chosen : BaseFor(r) \in refs[r]

\* preflight_line; it may find other reasons to refuse.
Preflight ==
    /\ At("preflight")
    /\ \/ CanBeCreated /\ GoTo("confirm") /\ shown' = Planned
       \/ AskAgain("refused") /\ UNCHANGED shown
    /\ Unchanged4

StartOver == At("refused") /\ GoTo("id") /\ Asking

\* create_line plans once more.
Confirm ==
    /\ At("confirm")
    /\ \/ CanBeCreated /\ created' = Planned /\ taken' = TRUE
          /\ GoTo("home") /\ UNCHANGED shown
       \/ wizard' = AtHome /\ shown' = None /\ UNCHANGED <<created, taken>>
    /\ UNCHANGED <<refs, fetches>>

\* The choice of the repositories, if there is one.
PreviousStep == IF Len(Order) > 1 THEN "repositories" ELSE "id"

\* The questions about single repositories are part of that of a hotfix's base.
Back ==
    /\ \/ At("repositories") /\ Len(Order) > 1 /\ AskAgain("id")
       \/ At("base") /\ AskAgain(PreviousStep)
       \/ /\ wizard.at \in {"exceptions", "overrides", "adjusting"}
          /\ At("overrides") => Len(wizard.chosen) > 1
          /\ AskAgain(IF wizard.kind = "line" THEN "base" ELSE PreviousStep)
       \/ At("confirm") /\ AskAgain("base")
    /\ shown' = None
    /\ Unchanged4

Quit ==
    /\ wizard.at \notin {"home", "check", "preflight"}
    /\ wizard' = AtHome /\ shown' = None
    /\ Unchanged4

-----------------------------------------------------------------------------
(* Meanwhile.                                                               *)

FetchRefs ==
    /\ fetches < MaxFetches /\ fetches' = fetches + 1
    /\ \E r \in Repos, ref \in Refs :
         refs' = [refs EXCEPT ![r] = IF ref \in @ THEN @ \ {ref} ELSE @ \cup {ref}]
    /\ UNCHANGED <<taken, wizard, shown, created>>

TakeId ==
    /\ ~taken /\ taken' = TRUE
    /\ UNCHANGED <<refs, wizard, shown, created, fetches>>

WizardNext ==
    \/ \E kind \in {"line", "hotfix"} : Begin(kind)
    \/ EnterId \/ ChooseRepositories \/ AskException \/ AskCandidate
    \/ \E ref \in Refs : AskBase(ref)
    \/ KeepBases \/ AdjustBase \/ Adjusted \/ CheckBases \/ Preflight \/ StartOver
    \/ Confirm \/ Back \/ Quit \/ FetchRefs \/ TakeId

WizardSpec == WizardInit /\ [][WizardNext]_wizardVars
-----------------------------------------------------------------------------
(***************************************************************************)
(* However often one goes back, adjusts or starts over, and whatever comes *)
(* and goes meanwhile: the line that is created has the repositories and,  *)
(* in each, the base that the last preview showed and that was answered    *)
(* for it (home.py:1523-1706, 1903-1957).                                  *)
(***************************************************************************)
CreatedAsShown ==
    created # None => /\ created = shown
                      /\ created.repositories = Chosen
                      /\ \A r \in Chosen : created.bases[r] = wizard.bases[r]
=============================================================================
