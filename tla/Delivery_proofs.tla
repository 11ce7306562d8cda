--------------------------- MODULE Delivery_proofs ---------------------------
(* Proofs about the way work takes to a line and into it: the clones of the  *)
(* anchors (Bootstrap), the questions that lead to a line (LineWizard), its  *)
(* creation (LineSetup), the worktrees of a task (TaskWorktrees) and the     *)
(* merges into lines (LineMerge).  Each part has its own invariant; they     *)
(* share the repositories and their order.                                   *)
EXTENDS Bootstrap, LineWizard, LineSetup, TaskWorktrees, LineMerge, TLAPS

-----------------------------------------------------------------------------
(* The clones of the anchors (Bootstrap) *)

CallerPcs == {"idle", "look", "clone", "mkdir", "copy", "clear"}
Owner(c) == caller[c].pc \in {"copy", "clear"}

BootstrapTyped ==
    /\ anchor \in [Repos -> (SUBSET Contents) \cup {None}]
    /\ caller \in [Callers -> [pc : CallerPcs, k : DOMAIN Order]]
    /\ whole \subseteq Repos /\ uncleared \subseteq Repos /\ killed \in Nat

(* Who copies or clears an anchor made its directory, and nobody else does so. *)
Owned ==
    \A c \in Callers : Owner(c) =>
        /\ anchor[Anchor(c)] # None /\ Anchor(c) \notin whole
        /\ \A d \in Callers \ {c} : Owner(d) => Anchor(d) # Anchor(c)

(* What is neither whole nor empty is being copied or cleared, or was left by a kill or
   by a cleanup that failed. *)
Halves ==
    killed = 0 => \A r \in Repos \ uncleared :
        anchor[r] \in {None, {}, Contents} \/ \E c \in Callers : Owner(c) /\ Anchor(c) = r

(* What could not be cleared stands in the way of another copy. *)
Uncleared ==
    \A r \in uncleared :
        /\ anchor[r] # None /\ r \notin whole
        /\ \A c \in Callers : Owner(c) => Anchor(c) # r

AnchorsInv ==
    /\ BootstrapTyped /\ Owned /\ Halves /\ Uncleared
    /\ \A r \in whole : anchor[r] = Contents

(* Every process starts at a repository there is. *)
LEMMA First == 1 \in DOMAIN Order
  BY OrderAssumption

(* A place in the order names a repository; unless it is the last, one follows. *)
LEMMA Following ==
  ASSUME NEW k \in DOMAIN Order
  PROVE  /\ Order[k] \in Repos
         /\ k # Len(Order) => k + 1 \in DOMAIN Order
  BY OrderAssumption

(* The anchor a caller is at belongs to a repository. *)
LEMMA AnchorIs ==
  ASSUME BootstrapTyped, NEW c \in Callers
  PROVE  Anchor(c) \in Repos
  BY Following DEF BootstrapTyped, Anchor

(* A step of one caller that leaves the anchors alone. *)
LEMMA WalksOn ==
  ASSUME AnchorsInv, NEW c \in Callers, ~Owner(c), UNCHANGED <<anchor, whole, uncleared>>,
         killed' \in {killed, killed + 1},
         caller' \in [Callers -> [pc : CallerPcs, k : DOMAIN Order]],
         ~Owner(c)', \A d \in Callers \ {c} : caller'[d] = caller[d]
  PROVE  AnchorsInv'
<1>1. \A d \in Callers : (Owner(d)' <=> Owner(d)) /\ (d # c => Anchor(d)' = Anchor(d))
  BY DEF Owner, Anchor
<1>2. Owned'
  BY <1>1 DEF AnchorsInv, Owned
<1>3. killed' \in Nat /\ (killed' = 0 => killed = 0)
  BY DEF AnchorsInv, BootstrapTyped
<1>4. Halves'
  BY <1>1, <1>3 DEF AnchorsInv, Halves
<1>5. Uncleared'
  BY <1>1 DEF AnchorsInv, Uncleared
<1> QED
  BY <1>2, <1>3, <1>4, <1>5 DEF AnchorsInv, BootstrapTyped

(* No step of a caller, or kill, breaks the invariant. *)
LEMMA AnchorsKeep == ASSUME AnchorsInv, [BootstrapNext]_bootstrapVars PROVE AnchorsInv'
<1> USE DEF AnchorsInv, BootstrapTyped
<1>a. CASE UNCHANGED bootstrapVars
  BY <1>a DEF bootstrapVars, Owned, Halves, Uncleared, Owner, Anchor
<1>b. ASSUME NEW c \in Callers, \/ Call(c) \/ LookAt(c) \/ Clone(c) \/ Make(c) \/ Copy(c)
             \/ Copied(c) \/ CopyFails(c) \/ Clear(c) \/ Cleared(c) \/ ClearFails(c) \/ Kill(c)
      PROVE AnchorsInv'
  <2> DEFINE r == Anchor(c)
  <2>r. r \in Repos /\ r' = Order[caller'[c].k]
    BY AnchorIs DEF Anchor
  <2>c. caller[c] \in [pc : CallerPcs, k : DOMAIN Order] /\ Uncalled \in [pc : {"idle"}, k : DOMAIN Order]
    BY First DEF Uncalled
  <2>n. [pc |-> "look", k |-> caller[c].k + 1].k \in DOMAIN Order \/ caller[c].k = Len(Order)
    BY <2>c, Following
  <2>1. CASE Call(c) \/ LookAt(c) \/ Clone(c)
    <3>1. /\ ~Owner(c) /\ Anchored
          /\ \/ Goes(c, "look") \/ Goes(c, "clone") \/ Goes(c, "mkdir") \/ Ended(c)
             \/ NextAnchor(c)
      BY <2>1 DEF Call, LookAt, Clone, Owner
    <3>2. /\ caller' \in [Callers -> [pc : CallerPcs, k : DOMAIN Order]]
          /\ ~Owner(c)' /\ \A d \in Callers \ {c} : caller'[d] = caller[d]
      <4>1. CASE \E place \in {"look", "clone", "mkdir"} : Goes(c, place)
        BY <4>1, <2>c DEF Goes, CallerPcs, Owner
      <4>2. CASE Ended(c)
        BY <4>2, <2>c DEF Ended, CallerPcs, Owner
      <4>3. CASE NextAnchor(c)
        BY <4>3, <2>c, <2>n DEF NextAnchor, CallerPcs, Owner
      <4> QED
        BY <3>1, <4>1, <4>2, <4>3
    <3> QED
      BY <3>1, <3>2, WalksOn DEF Anchored
  <2>2. CASE Make(c) /\ anchor[r] = None
    <3>1. /\ anchor' = [anchor EXCEPT ![r] = {}] /\ UNCHANGED <<whole, uncleared, killed>>
          /\ ~Owner(c) /\ \/ caller' = [caller EXCEPT ![c].pc = "copy"]
                           \/ caller' = [caller EXCEPT ![c] = Uncalled]
      BY <2>2 DEF Make, Goes, Ended, Owner
    <3>2. BootstrapTyped'
      BY <3>1, <2>r, <2>c DEF CallerPcs
    <3>3. \A d \in Callers \ {c} : caller'[d] = caller[d]
      BY <3>1
    <3>4. Owner(c)' => Anchor(c)' = r
      BY <3>1, <2>c DEF Anchor, Owner, Uncalled
    <3>5. \A d \in Callers \ {c} : Anchor(d)' = Anchor(d) /\ (Owner(d)' <=> Owner(d))
      BY <3>3 DEF Anchor, Owner
    <3>6. \A d \in Callers : Owner(d) => Anchor(d) # r
      BY <2>2 DEF Owned
    <3>7. r \notin whole /\ r \notin uncleared
      BY <2>2, BootstrapAssumption DEF Uncleared
    <3>8. {} # None
      BY BootstrapAssumption
    <3>9. Owned'
      BY <3>1, <3>4, <3>5, <3>6, <3>7, <3>8, <2>r DEF Owned
    <3>10. Halves'
      BY <3>1, <3>5, <2>r DEF Halves
    <3>11. Uncleared'
      BY <3>1, <3>4, <3>5, <3>7, <3>8, <2>r DEF Uncleared
    <3> QED
      BY <3>1, <3>2, <3>7, <3>9, <3>10, <3>11
  <2>3. CASE Make(c) /\ anchor[r] # None
    <3>1. ~Owner(c) /\ UNCHANGED <<anchor, whole, uncleared, killed>> /\ Ended(c)
      BY <2>3 DEF Make, Owner
    <3> QED
      BY <3>1, <2>c, WalksOn DEF Ended, CallerPcs, Owner
  <2>4. CASE Copy(c) \/ Clear(c)
    <3>1. PICK held \in SUBSET Contents : anchor' = [anchor EXCEPT ![r] = held]
      <4>1. anchor[r] \in SUBSET Contents
        BY <2>4, <2>r DEF Copy, Clear
      <4>2. CASE Copy(c)
        BY <4>1, <4>2 DEF Copy
      <4>3. CASE Clear(c)
        BY <4>1, <4>3 DEF Clear
      <4> QED
        BY <2>4, <4>2, <4>3
    <3>2. UNCHANGED <<caller, whole, uncleared, killed>> /\ Owner(c) /\ held # None
      BY <2>4, BootstrapAssumption DEF Copy, Clear, Owner
    <3>3. \A d \in Callers : Anchor(d)' = Anchor(d) /\ (Owner(d)' <=> Owner(d))
      BY <3>2 DEF Anchor, Owner
    <3>4. Owned'
      BY <3>1, <3>2, <3>3, <2>r, AnchorIs DEF Owned
    <3>5. Halves'
      BY <3>1, <3>2, <3>3, <2>r DEF Halves
    <3>6. \A s \in whole : anchor'[s] = Contents
      BY <3>1, <3>2 DEF Owned
    <3>7. Uncleared'
      BY <3>1, <3>2, <3>3, <2>r DEF Uncleared
    <3> QED
      BY <3>1, <3>2, <3>4, <3>5, <3>6, <3>7
  <2>5. CASE CopyFails(c)
    <3>1. /\ UNCHANGED <<anchor, whole, uncleared, killed>> /\ Owner(c)
          /\ caller' = [caller EXCEPT ![c].pc = "clear"]
      BY <2>5 DEF CopyFails, Goes, Anchored, Owner
    <3>2. \A d \in Callers : Anchor(d)' = Anchor(d) /\ (Owner(d)' <=> Owner(d))
      BY <3>1 DEF Anchor, Owner
    <3> QED
      BY <3>1, <3>2 DEF Owned, Halves, Uncleared, CallerPcs
  <2>6. CASE Copied(c) \/ Cleared(c) \/ ClearFails(c)
    <3>1. \/ UNCHANGED <<anchor, uncleared>> /\ whole' = whole \cup {r} /\ anchor[r] = Contents
          \/ anchor' = [anchor EXCEPT ![r] = None] /\ UNCHANGED <<whole, uncleared>>
          \/ UNCHANGED <<anchor, whole>> /\ uncleared' = uncleared \cup {r}
      BY <2>6 DEF Copied, Cleared, ClearFails
    <3>2. Owner(c) /\ killed' = killed /\ (NextAnchor(c) \/ Ended(c))
      BY <2>6 DEF Copied, Cleared, ClearFails, Owner
    <3>3. /\ caller' \in [Callers -> [pc : CallerPcs, k : DOMAIN Order]]
          /\ ~Owner(c)' /\ \A d \in Callers \ {c} : caller'[d] = caller[d]
      BY <3>2, <2>c, <2>n DEF NextAnchor, Ended, CallerPcs, Owner
    <3>4. \A d \in Callers \ {c} : Anchor(d)' = Anchor(d) /\ (Owner(d)' <=> Owner(d))
      BY <3>3 DEF Anchor, Owner
    <3>5. /\ \A d \in Callers \ {c} : Owner(d) => Anchor(d) # r
          /\ anchor[r] # None /\ r \notin whole /\ r \notin uncleared
      BY <3>2 DEF Owned, Uncleared
    <3>6. Owned'
      BY <3>1, <3>3, <3>4, <3>5, AnchorIs DEF Owned
    <3>7. Halves'
      <4> SUFFICES ASSUME killed = 0, NEW s \in Repos \ uncleared',
                          anchor'[s] \notin {None, {}, Contents}
                   PROVE  \E d \in Callers : Owner(d)' /\ Anchor(d)' = s
        BY <3>2 DEF Halves
      <4>1. s # r /\ anchor'[s] = anchor[s] /\ s \notin uncleared
        BY <3>1, <2>r
      <4>2. PICK d \in Callers : Owner(d) /\ Anchor(d) = s
        BY <4>1 DEF Halves
      <4> QED
        BY <3>4, <4>1, <4>2
    <3>8. \A s \in whole' : anchor'[s] = Contents
      BY <3>1, <3>5
    <3>9. BootstrapTyped'
      BY <3>1, <3>2, <3>3, <2>r
    <3>10. Uncleared'
      <4> SUFFICES ASSUME NEW s \in uncleared'
                   PROVE  /\ anchor'[s] # None /\ s \notin whole'
                          /\ \A d \in Callers : Owner(d)' => Anchor(d)' # s
        BY DEF Uncleared
      <4>1. CASE s = r
        BY <4>1, <3>1, <3>3, <3>4, <3>5, <2>r
      <4>2. CASE s # r
        <5>1. s \in uncleared /\ anchor'[s] = anchor[s] /\ (s \in whole' => s \in whole)
          BY <4>2, <3>1, <2>r
        <5> QED
          BY <5>1, <3>3, <3>4 DEF Uncleared
      <4> QED
        BY <4>1, <4>2
    <3> QED
      BY <3>6, <3>7, <3>8, <3>9, <3>10
  <2>7. CASE Kill(c)
    <3>1. UNCHANGED <<anchor, whole, uncleared>> /\ Ended(c)
      BY <2>7 DEF Kill
    <3>2. /\ caller' \in [Callers -> [pc : CallerPcs, k : DOMAIN Order]]
          /\ ~Owner(c)' /\ \A d \in Callers \ {c} : caller'[d] = caller[d]
      BY <3>1, <2>c DEF Ended, CallerPcs, Owner, Uncalled
    <3>3. \A d \in Callers \ {c} : Anchor(d)' = Anchor(d) /\ (Owner(d)' <=> Owner(d))
      BY <3>2 DEF Anchor, Owner
    <3>4. Owned'
      BY <3>1, <3>2, <3>3 DEF Owned
    <3>5. killed' # 0 /\ killed' \in Nat
      BY <2>7 DEF Kill
    <3>6. Uncleared'
      BY <3>1, <3>2, <3>3 DEF Uncleared
    <3> QED
      BY <3>1, <3>2, <3>4, <3>5, <3>6 DEF Halves
  <2> QED
    BY <1>b, <2>1, <2>2, <2>3, <2>4, <2>5, <2>6, <2>7
<1> QED
  BY <1>a, <1>b DEF BootstrapNext

(* An anchor that was cloned stays as it was cloned, and while no caller was killed
   part of one is left only where the cleanup failed (AnchorsWhole): for any
   repositories and callers. *)
THEOREM AnchorsStayWhole == BootstrapSpec => []AnchorsWhole
<1>1. BootstrapInit => AnchorsInv
  <2> SUFFICES ASSUME BootstrapInit PROVE AnchorsInv
    OBVIOUS
  <2>1. BootstrapTyped /\ \A c \in Callers : ~Owner(c)
    BY First DEF BootstrapInit, BootstrapTyped, Uncalled, CallerPcs, Owner
  <2> QED
    BY <2>1 DEF BootstrapInit, AnchorsInv, Owned, Halves, Uncleared
<1>2. AnchorsInv => AnchorsWhole
  BY DEF AnchorsInv, Halves, Uncleared, Owner, AnchorsWhole
<1> QED
  BY <1>1, <1>2, AnchorsKeep, PTL DEF BootstrapSpec

-----------------------------------------------------------------------------
(* The questions that lead to a line (LineWizard) *)

WizardTyped ==
    /\ refs \in [Repos -> SUBSET Refs]
    /\ DOMAIN wizard = DOMAIN AtHome
    /\ Chosen \subseteq Repos
    /\ wizard.bases \in [Repos -> Refs \cup {None}]

(* From the overrides on, every chosen repository has a base; where they were not
   adjusted since, the overrides say which. *)
Answered ==
    /\ wizard.at \in {"overrides", "adjusting", "check", "preflight", "confirm"}
         => \A r \in Chosen : wizard.bases[r] \in Refs
    /\ wizard.at \in {"overrides", "check", "preflight", "confirm"}
         => wizard.overrides = Overrides(wizard.bases, wizard.base)
    /\ At("confirm") => shown = Planned
    /\ created # None => At("home")

WizardInv == WizardTyped /\ Answered /\ CreatedAsShown

(* What the overrides and the base stand for is what was answered. *)
LEMMA BaseAnswered ==
  ASSUME wizard.overrides = Overrides(wizard.bases, wizard.base),
         NEW r \in Chosen, wizard.bases[r] \in Refs
  PROVE  BaseFor(r) = wizard.bases[r]
<1>1. CASE wizard.bases[r] = wizard.base
  <2>1. ~ \E ref \in Refs : <<r, ref>> \in wizard.overrides
    BY <1>1 DEF Overrides
  <2> QED
    BY <1>1, <2>1 DEF BaseFor
<1>2. CASE wizard.bases[r] # wizard.base
  <2>1. <<r, wizard.bases[r]>> \in wizard.overrides
    BY <1>2 DEF Overrides
  <2>2. \A ref \in Refs : <<r, ref>> \in wizard.overrides => ref = wizard.bases[r]
    BY DEF Overrides
  <2> QED
    BY <2>1, <2>2 DEF BaseFor
<1> QED
  BY <1>1, <1>2

(* A base is resolved to a ref the repository has, or not at all. *)
LEMMA ResolvedIs ==
  ASSUME refs \in [Repos -> SUBSET Refs], NEW r \in Repos, NEW ref
  PROVE  Resolved(r, ref) \in Refs \cup {None}
  BY DEF Resolved

(* What all the chosen repositories share gives each of them a base. *)
LEMMA CandidateIs ==
  ASSUME refs \in [Repos -> SUBSET Refs], Chosen \subseteq Repos, NEW bases \in Candidates
  PROVE  /\ bases \in [Repos -> Refs \cup {None}]
         /\ \A r \in Chosen : bases[r] \in Refs
<1>1. CASE bases \in SharedTags
  BY <1>1 DEF SharedTags
<1>2. CASE bases \in SharedReleases
  <2> DEFINE Places(r, name) == {ref \in refs[r] : ref[1] = name /\ ref[2] # "tag"}
             Best(r, name) == IF <<name, "origin">> \in refs[r] THEN <<name, "origin">>
                              ELSE <<name, "local">>
  <2>1. PICK name \in Releases :
           /\ \A r \in Chosen : Places(r, name) # {}
           /\ bases = [r \in Repos |-> IF r \in Chosen THEN Best(r, name) ELSE None]
    BY <1>2 DEF SharedReleases
  <2>2. ASSUME NEW r \in Chosen
        PROVE  Best(r, name) \in Refs
    <3>1. PICK ref \in refs[r] : ref[1] = name /\ ref[2] # "tag"
      BY <2>1
    <3>2. ref \in Refs
      BY <3>1
    <3>3. ref = <<ref[1], ref[2]>> /\ ref[2] \in {"local", "origin"}
      BY <3>1, <3>2, WizardAssumption
    <3>4. CASE ref[2] = "origin"
      BY <3>1, <3>2, <3>3, <3>4
    <3>5. CASE ref[2] = "local"
      <4>1. <<name, "local">> \in Refs
        BY <3>1, <3>2, <3>3, <3>5
      <4> QED
        BY <4>1
    <3> QED
      BY <3>3, <3>4, <3>5
  <2> QED
    BY <2>1, <2>2
<1> QED
  BY <1>1, <1>2 DEF Candidates

(* Every answer, and every way back, keeps what the later questions rely on. *)
LEMMA WizardStep == WizardInv /\ [WizardNext]_wizardVars => WizardInv'
<1> SUFFICES ASSUME WizardInv, [WizardNext]_wizardVars PROVE WizardInv'
  OBVIOUS
<1> USE DEF WizardInv
<1>t. WizardTyped
  OBVIOUS
<1>d. DOMAIN wizard = {"at", "kind", "chosen", "bases", "base", "overrides"}
  BY DEF WizardTyped, AtHome
\* At home, or before there is a base.
<1>h. ASSUME DOMAIN wizard' = DOMAIN AtHome, refs' \in [Repos -> SUBSET Refs],
             Chosen' \subseteq Repos, wizard'.bases = Unresolved \/ wizard'.bases = wizard.bases,
             wizard'.at \in {"home", "id", "repositories", "base", "refused"},
             created' = None
      PROVE  WizardInv'
  BY <1>h DEF WizardTyped, Answered, CreatedAsShown, At, Unresolved
<1>a. ASSUME NEW step, AskAgain(step) PROVE
         /\ DOMAIN wizard' = DOMAIN AtHome /\ Chosen' \subseteq Repos
         /\ wizard'.bases = Unresolved /\ wizard'.at = step
  BY <1>a, <1>t DEF AskAgain, AtHome, Chosen, WizardTyped
<1>c. ASSUME ~At("home") PROVE created = None
  BY <1>c DEF Answered
<1>1. ASSUME NEW kind \in {"line", "hotfix"}, Begin(kind) PROVE WizardInv'
  <2>1. /\ DOMAIN wizard' = DOMAIN AtHome /\ Chosen' = {} /\ wizard'.at = "id"
        /\ wizard'.bases = Unresolved
    BY <1>1 DEF Begin, AtHome, Chosen
  <2> QED
    BY <1>1, <1>h, <1>t, <2>1 DEF Begin, WizardTyped
<1>2. CASE EnterId \/ StartOver
  <2>1. /\ DOMAIN wizard' = DOMAIN AtHome /\ Chosen' = Chosen
        /\ wizard'.at \in {"id", "repositories"} /\ wizard'.bases = wizard.bases
    BY <1>2, <1>t, <1>d DEF EnterId, StartOver, GoTo, WizardTyped, Chosen
  <2>2. created' = None /\ refs' = refs
    BY <1>2, <1>c DEF EnterId, StartOver, At, Asking, Unchanged4
  <2> QED
    BY <1>h, <1>t, <2>1, <2>2 DEF WizardTyped
<1>3. CASE ChooseRepositories
  <2>1. PICK S \in SUBSET Repos \ {{}} : \E chosen \in SetToSeqs(S) :
          wizard' = [wizard EXCEPT !.at = "base", !.chosen = chosen]
    BY <1>3 DEF ChooseRepositories
  <2>2. PICK chosen \in SetToSeqs(S) :
          wizard' = [wizard EXCEPT !.at = "base", !.chosen = chosen]
    BY <2>1
  <2>3. \A n \in DOMAIN chosen : chosen[n] \in Repos
    BY <2>2 DEF SetToSeqs
  <2>4. /\ DOMAIN wizard' = DOMAIN AtHome /\ wizard'.chosen = chosen
        /\ wizard'.at = "base" /\ wizard'.bases = wizard.bases
    BY <2>2, <1>t, <1>d DEF WizardTyped
  <2>5. created' = None /\ refs' = refs
    BY <1>3, <1>c DEF ChooseRepositories, At, Asking, Unchanged4
  <2> QED
    BY <1>h, <1>t, <2>3, <2>4, <2>5 DEF WizardTyped, Chosen
<1>4. ASSUME NEW ref \in Refs, AskBase(ref) PROVE WizardInv'
  <2>1. wizard' = [wizard EXCEPT !.at = "exceptions",
          !.bases = [r \in Repos |-> IF r \in Chosen THEN Resolved(r, ref) ELSE None]]
    BY <1>4 DEF AskBase
  <2>2. created' = None /\ refs' = refs
    BY <1>4, <1>c DEF AskBase, At, Asking, Unchanged4
  <2>3. \A r \in Repos : Resolved(r, ref) \in Refs \cup {None}
    BY <1>t, ResolvedIs DEF WizardTyped
  <2>4. /\ DOMAIN wizard' = DOMAIN AtHome /\ wizard'.chosen = wizard.chosen
        /\ wizard'.at = "exceptions"
        /\ wizard'.bases = [r \in Repos |-> IF r \in Chosen THEN Resolved(r, ref) ELSE None]
    BY <2>1, <1>t, <1>d DEF WizardTyped
  <2> QED
    BY <1>t, <2>2, <2>3, <2>4 DEF WizardTyped, Chosen, Answered, At, CreatedAsShown
\* The bases are chosen and what differs from the base is kept.
<1>s. ASSUME NEW bases \in [Repos -> Refs \cup {None}], \A r \in Chosen : bases[r] \in Refs,
             Selected(bases, "overrides"), Asking, ~At("home")
      PROVE  WizardInv'
  <2>1. PICK common : wizard' = [wizard EXCEPT !.at = "overrides", !.bases = bases, !.base = common,
                                             !.overrides = Overrides(bases, common)]
    BY <1>s DEF Selected
  <2>2. /\ DOMAIN wizard' = DOMAIN AtHome /\ wizard'.chosen = wizard.chosen
        /\ wizard'.at = "overrides" /\ wizard'.bases = bases /\ wizard'.base = common
        /\ wizard'.overrides = Overrides(bases, common)
    BY <2>1, <1>t, <1>d DEF WizardTyped
  <2>3. created' = None /\ refs' = refs
    BY <1>s, <1>c DEF Asking, Unchanged4
  <2>4. Chosen' = Chosen
    BY <2>2 DEF Chosen
  <2>5. Overrides(wizard.bases, wizard.base)' = Overrides(bases, common)
    BY <2>2, <2>4 DEF Overrides
  <2> QED
    BY <1>s, <1>t, <2>2, <2>3, <2>4, <2>5 DEF WizardTyped, Answered, At, CreatedAsShown
<1>5. CASE AskException
  <2> DEFINE open == {n \in DOMAIN wizard.chosen : wizard.bases[wizard.chosen[n]] = None}
  <2>1. At("exceptions") /\ Asking
    BY <1>5 DEF AskException
  <2>2. CASE open = {}
    <3>1. \A r \in Chosen : wizard.bases[r] \in Refs
      BY <1>t, <2>2 DEF Chosen, WizardTyped
    <3> QED
      BY <1>5, <1>s, <1>t, <2>1, <2>2, <3>1 DEF AskException, WizardTyped, At
  <2>3. CASE open # {}
    <3>1. PICK n \in open : \E ref \in Suggested(wizard.chosen[n]) :
            wizard' = [wizard EXCEPT !.bases[wizard.chosen[n]] = ref]
      BY <1>5, <2>3 DEF AskException
    <3>2. PICK ref \in refs[wizard.chosen[n]] :
            wizard' = [wizard EXCEPT !.bases[wizard.chosen[n]] = ref]
      BY <3>1 DEF Suggested
    <3>3. wizard.chosen[n] \in Repos /\ ref \in Refs
      BY <3>2, <1>t DEF WizardTyped, Chosen
    <3>4. /\ DOMAIN wizard' = DOMAIN AtHome /\ wizard'.chosen = wizard.chosen
          /\ wizard'.at = wizard.at
          /\ wizard'.bases = [wizard.bases EXCEPT ![wizard.chosen[n]] = ref]
      BY <3>2, <1>t, <1>d DEF WizardTyped
    <3>5. created' = None /\ refs' = refs
      BY <2>1, <1>c DEF Asking, Unchanged4, At
    <3> QED
      BY <1>t, <2>1, <3>3, <3>4, <3>5 DEF WizardTyped, Chosen, Answered, At, CreatedAsShown
  <2> QED
    BY <2>2, <2>3
<1>6. CASE AskCandidate
  <2>1. PICK bases \in Candidates : Selected(bases, "overrides")
    BY <1>6 DEF AskCandidate
  <2>2. /\ bases \in [Repos -> Refs \cup {None}]
        /\ \A r \in Chosen : bases[r] \in Refs
    BY <1>t, CandidateIs DEF WizardTyped
  <2> QED
    BY <1>6, <1>s, <2>1, <2>2 DEF AskCandidate, At
\* On to the next question with the answers as they are.
<1>g. ASSUME NEW step, GoTo(step) PROVE
        /\ DOMAIN wizard' = DOMAIN AtHome /\ wizard'.chosen = wizard.chosen
        /\ wizard'.at = step /\ wizard'.bases = wizard.bases
        /\ wizard'.base = wizard.base /\ wizard'.overrides = wizard.overrides
        /\ Chosen' = Chosen /\ Planned' = Planned
        /\ Overrides(wizard.bases, wizard.base)' = Overrides(wizard.bases, wizard.base)
  <2>1. /\ DOMAIN wizard' = DOMAIN AtHome /\ wizard'.chosen = wizard.chosen
        /\ wizard'.at = step /\ wizard'.bases = wizard.bases
        /\ wizard'.base = wizard.base /\ wizard'.overrides = wizard.overrides
    BY <1>g, <1>t, <1>d DEF GoTo, WizardTyped
  <2>2. Chosen' = Chosen
    BY <2>1 DEF Chosen
  <2>3. \A r : BaseFor(r)' = BaseFor(r)
    BY <2>1 DEF BaseFor
  <2> QED
    BY <2>1, <2>2, <2>3 DEF Planned, Overrides
<1>7. CASE KeepBases
  BY <1>7, <1>g, <1>t, <1>c
     DEF KeepBases, At, Asking, Unchanged4, WizardTyped, Answered, CreatedAsShown
<1>8. CASE AdjustBase
  <2>1. PICK r \in Chosen : \E ref \in Suggested(r) :
          wizard' = [wizard EXCEPT !.at = "adjusting", !.bases[r] = ref]
    BY <1>8 DEF AdjustBase
  <2>2. PICK ref \in refs[r] :
          wizard' = [wizard EXCEPT !.at = "adjusting", !.bases[r] = ref]
    BY <2>1 DEF Suggested
  <2>3. r \in Repos /\ ref \in Refs
    BY <2>2, <1>t DEF WizardTyped
  <2>4. /\ DOMAIN wizard' = DOMAIN AtHome /\ wizard'.chosen = wizard.chosen
        /\ wizard'.at = "adjusting"
        /\ wizard'.bases = [wizard.bases EXCEPT ![r] = ref]
    BY <2>2, <1>t, <1>d DEF WizardTyped
  <2>5. created' = None /\ refs' = refs /\ Chosen' = Chosen
    BY <1>8, <2>4, <1>c DEF AdjustBase, Asking, Unchanged4, At, Chosen
  <2>6. \A q \in Chosen : wizard.bases[q] \in Refs
    BY <1>8 DEF AdjustBase, Answered
  <2> QED
    BY <1>t, <2>3, <2>4, <2>5, <2>6 DEF WizardTyped, Answered, At, CreatedAsShown
<1>9. CASE Adjusted
  <2>1. wizard' = [wizard EXCEPT !.at = "check",
                                 !.overrides = Overrides(wizard.bases, wizard.base)]
    BY <1>9 DEF Adjusted
  <2>2. /\ DOMAIN wizard' = DOMAIN AtHome /\ wizard'.chosen = wizard.chosen
        /\ wizard'.at = "check" /\ wizard'.bases = wizard.bases /\ wizard'.base = wizard.base
        /\ wizard'.overrides = Overrides(wizard.bases, wizard.base)
    BY <2>1, <1>t, <1>d DEF WizardTyped
  <2>3. created' = None /\ refs' = refs /\ Chosen' = Chosen
    BY <1>9, <2>2, <1>c DEF Adjusted, Asking, Unchanged4, At, Chosen
  <2>4. Overrides(wizard.bases, wizard.base)' = Overrides(wizard.bases, wizard.base)
    BY <2>2, <2>3 DEF Overrides
  <2>5. \A q \in Chosen : wizard.bases[q] \in Refs
    BY <1>9 DEF Adjusted, At, Answered
  <2> QED
    BY <1>t, <2>2, <2>3, <2>4, <2>5 DEF WizardTyped, Answered, At, CreatedAsShown
<1>10. CASE CheckBases
  <2>1. created' = None /\ refs' = refs /\ At("check")
    BY <1>10, <1>c DEF CheckBases, At, Asking, Unchanged4
  <2>2. CASE GoTo("preflight")
    BY <2>1, <2>2, <1>g, <1>t DEF At, WizardTyped, Answered, CreatedAsShown
  <2>3. CASE AskAgain("base")
    BY <2>1, <2>3, <1>a, <1>h, <1>t DEF WizardTyped
  <2> QED
    BY <1>10, <2>2, <2>3 DEF CheckBases
<1>11. CASE Preflight
  <2>1. created' = None /\ refs' = refs /\ At("preflight")
    BY <1>11, <1>c DEF Preflight, At, Unchanged4
  <2>2. CASE GoTo("confirm") /\ shown' = Planned
    BY <2>1, <2>2, <1>g, <1>t DEF At, WizardTyped, Answered, CreatedAsShown
  <2>3. CASE AskAgain("refused")
    BY <2>1, <2>3, <1>a, <1>h, <1>t DEF WizardTyped
  <2> QED
    BY <1>11, <2>2, <2>3 DEF Preflight
<1>12. CASE Confirm
  <2>1. refs' = refs /\ At("confirm") /\ created = None
    BY <1>12, <1>c DEF Confirm, At
  <2>2. CASE created' = Planned /\ GoTo("home") /\ UNCHANGED shown
    <3>1. \A r \in Chosen : BaseFor(r) = wizard.bases[r]
      BY <2>1, BaseAnswered DEF At, Answered
    <3>2. Planned.repositories = Chosen /\ \A r \in Chosen : Planned.bases[r] = wizard.bases[r]
      BY <3>1 DEF Planned
    <3>3. shown = Planned
      BY <2>1 DEF Answered
    <3> QED
      BY <2>1, <2>2, <3>2, <3>3, <1>g, <1>t DEF At, WizardTyped, Answered, CreatedAsShown
  <2>3. CASE wizard' = AtHome /\ UNCHANGED created
    <3>1. /\ DOMAIN wizard' = DOMAIN AtHome /\ Chosen' = {} /\ wizard'.at = "home"
          /\ wizard'.bases = Unresolved
      BY <2>3 DEF AtHome, Chosen
    <3> QED
      BY <2>1, <2>3, <3>1, <1>h, <1>t DEF WizardTyped
  <2> QED
    BY <1>12, <2>2, <2>3 DEF Confirm
<1>13. CASE Back
  <2>1. refs' = refs /\ created' = created /\ ~At("home")
    BY <1>13 DEF Back, At, Unchanged4
  <2>2. \E step \in {"id", "repositories", "base"} : AskAgain(step)
    BY <1>13 DEF Back, PreviousStep
  <2> QED
    BY <2>1, <2>2, <1>a, <1>c, <1>h, <1>t DEF WizardTyped
<1>14. CASE Quit
  <2>1. /\ DOMAIN wizard' = DOMAIN AtHome /\ Chosen' = {} /\ wizard'.at = "home"
        /\ wizard'.bases = Unresolved
    BY <1>14 DEF Quit, AtHome, Chosen
  <2>2. refs' = refs /\ created' = None
    BY <1>14, <1>c DEF Quit, Unchanged4, At
  <2> QED
    BY <2>1, <2>2, <1>h, <1>t DEF WizardTyped
<1>15. CASE FetchRefs \/ TakeId \/ UNCHANGED wizardVars
  <2>1. UNCHANGED <<wizard, shown, created>> /\ refs' \in [Repos -> SUBSET Refs]
    BY <1>15, <1>t DEF FetchRefs, TakeId, wizardVars, WizardTyped
  <2>2. Chosen' = Chosen /\ Planned' = Planned
        /\ Overrides(wizard.bases, wizard.base)' = Overrides(wizard.bases, wizard.base)
    BY <2>1 DEF Chosen, Planned, BaseFor, Overrides
  <2> QED
    BY <2>1, <2>2 DEF WizardTyped, Answered, At, CreatedAsShown
<1> QED
  BY <1>1, <1>2, <1>3, <1>4, <1>5, <1>6, <1>7, <1>8, <1>9, <1>10, <1>11, <1>12, <1>13,
     <1>14, <1>15 DEF WizardNext

(* What the wizard creates is what it showed when it asked for the confirmation
   (CreatedAsShown): for any repositories and refs. *)
THEOREM TheLineShownIsCreated == WizardSpec => []CreatedAsShown
<1>1. WizardInit => WizardInv
  BY DEF WizardInit, WizardInv, WizardTyped, Answered, CreatedAsShown, At, AtHome, Chosen,
         Unresolved
<1> QED
  BY <1>1, WizardStep, PTL DEF WizardSpec, WizardInv

-----------------------------------------------------------------------------
(* Lines that are created (LineSetup) *)

CreatorPcs == {"idle", "add", "register", "undo"}
CreatorStates ==
    [pc : CreatorPcs, want : Seq(Repos), fresh : SUBSET Repos, k : Nat, made : SUBSET Repos]

SetupTyped ==
    /\ base \in [Repos -> 0..MaxBase]
    /\ feat \in [Repos -> (0..MaxBase) \cup {None}]
    /\ dir \in [Repos -> BOOLEAN]
    /\ manifest \in (SUBSET Repos) \cup {None}
    /\ creator \in [Creators -> CreatorStates]
    /\ left \subseteq Repos /\ writes \in Nat /\ kills \in Nat

Registered == IF manifest = None THEN {} ELSE manifest

(* What a call made is there, is its own, and is not registered before it is complete. *)
Makes(c) ==
    /\ creator[c].pc = "idle" => creator[c].made = {}
    /\ creator[c].made \subseteq Asked(creator[c].want)
    /\ \A r \in creator[c].made : dir[r] /\ feat[r] # None /\ r \notin Registered
    /\ \A d \in Creators \ {c} : creator[c].made \cap creator[d].made = {}
    /\ creator[c].pc = "add" =>
         /\ creator[c].k \in DOMAIN creator[c].want
         /\ \A i \in 1..(creator[c].k - 1) : creator[c].want[i] \in creator[c].made
    /\ creator[c].pc = "register" => Asked(creator[c].want) = creator[c].made

Making == \A c \in Creators : Makes(c)

(* What a failed call left is there, and of no other call. *)
Stuck ==
    \A r \in left : /\ dir[r] /\ r \notin Registered
                    /\ \A c \in Creators : r \notin creator[c].made

(* No worktree belongs to nobody. *)
Accounted ==
    /\ writes = 0 => manifest = None
    /\ kills = 0 /\ writes <= 1 =>
         \A r \in Repos : dir[r] => \/ r \in Registered \cup left
                                    \/ \E c \in Creators : r \in creator[c].made

SetupInv ==
    /\ SetupTyped /\ Making /\ Stuck /\ Accounted
    /\ \A r \in Registered : dir[r] /\ feat[r] # None

(* No step of a call that creates a line, kill or move of a base breaks the invariant. *)
LEMMA SetupStep == SetupInv /\ [SetupNext]_setupVars => SetupInv'
<1> SUFFICES ASSUME SetupInv, [SetupNext]_setupVars PROVE SetupInv'
  OBVIOUS
<1> USE DEF SetupInv
<1>t. SetupTyped
  OBVIOUS
<1>r. Registered \subseteq Repos
  BY DEF SetupTyped, Registered
\* A call is over that has made nothing that is still to be undone or registered.
<1>e. ASSUME NEW c \in Creators, creator' = [creator EXCEPT ![c] = AtRest],
             UNCHANGED <<base, feat, dir>>
      PROVE  /\ creator' \in [Creators -> CreatorStates]
             /\ creator'[c].pc = "idle" /\ creator'[c].made = {}
             /\ \A d \in Creators \ {c} : creator'[d] = creator[d]
  BY <1>e, <1>t DEF SetupTyped, AtRest, CreatorStates, CreatorPcs
<1>1. ASSUME NEW c \in Creators, NEW want \in Requests, PlanLine(c, want) PROVE SetupInv'
  <2>1. /\ creator[c].pc = "idle"
        /\ UNCHANGED <<base, feat, dir, manifest, left, writes, kills>>
        /\ creator' = [creator EXCEPT ![c] =
             [pc |-> "add", want |-> want, k |-> 1, made |-> {},
              fresh |-> {r \in Asked(want) : FreshBranch(r)}]]
    BY <1>1 DEF PlanLine
  <2>2. want \in Seq(Repos) /\ 1 \in DOMAIN want
    BY SetupAssumption
  <2>3. Asked(want) \subseteq Repos
    BY <2>2 DEF Asked
  <2>4. /\ creator'[c].pc = "add" /\ creator'[c].want = want /\ creator'[c].k = 1
        /\ creator'[c].made = {} /\ \A d \in Creators \ {c} : creator'[d] = creator[d]
        /\ SetupTyped'
    BY <2>1, <2>2, <2>3, <1>t DEF SetupTyped, CreatorStates, CreatorPcs
  <2>5. Registered' = Registered /\ creator[c].made = {}
    BY <2>1 DEF Registered, Making, Makes
  <2>6. Making'
    BY <2>1, <2>2, <2>4, <2>5 DEF Making, Makes
  <2>7. Accounted'
    BY <2>1, <2>4, <2>5 DEF Accounted
  <2>8. Stuck'
    BY <2>1, <2>4, <2>5 DEF Stuck
  <2> QED
    BY <2>1, <2>4, <2>5, <2>6, <2>7, <2>8
<1>2. ASSUME NEW c \in Creators, AddTree(c) PROVE SetupInv'
  <2> DEFINE me == creator[c]  r == me.want[me.k]
  <2>1. /\ me.pc = "add" /\ CanAdd(c, r) /\ UNCHANGED <<base, manifest, left, writes, kills>>
        /\ dir' = [dir EXCEPT ![r] = TRUE]
        /\ feat' = [feat EXCEPT ![r] = IF @ = None THEN base[r] ELSE @]
        /\ creator' = [creator EXCEPT ![c].made = @ \cup {r}, ![c].k = @ + 1,
                 ![c].pc = IF me.k = Len(me.want) THEN "register" ELSE "add"]
    BY <1>2 DEF AddTree
  <2>2. /\ me.want \in Seq(Repos) /\ me.k \in DOMAIN me.want /\ me.made \subseteq Asked(me.want)
        /\ \A i \in 1..(me.k - 1) : me.want[i] \in me.made
    BY <2>1 DEF Making, Makes, SetupTyped, CreatorStates
  <2>3. r \in Repos /\ r \in Asked(me.want)
    BY <2>2 DEF Asked
  <2>4. /\ creator'[c].want = me.want /\ creator'[c].k = me.k + 1
        /\ creator'[c].made = me.made \cup {r}
        /\ creator'[c].pc = IF me.k = Len(me.want) THEN "register" ELSE "add"
        /\ \A d \in Creators \ {c} : creator'[d] = creator[d]
    BY <2>1, <1>t DEF SetupTyped, CreatorStates
  <2>5. SetupTyped'
    <3>1. base[r] \in 0..MaxBase
      BY <2>3, <1>t DEF SetupTyped, CreatorStates
    <3>2. feat' \in [Repos -> (0..MaxBase) \cup {None}]
      BY <2>1, <2>3, <3>1, <1>t DEF SetupTyped, CreatorStates
    <3>3. me.k + 1 \in Nat /\ me.made \cup {r} \subseteq Repos
      BY <2>2, <2>3, <1>t DEF SetupTyped, CreatorStates
    <3>4. me \in CreatorStates
      BY <1>t DEF SetupTyped
    <3>5. [me EXCEPT !.made = @ \cup {r}, !.k = @ + 1,
                     !.pc = IF me.k = Len(me.want) THEN "register" ELSE "add"] \in CreatorStates
      BY <3>3, <3>4 DEF CreatorStates, CreatorPcs
    <3>6. creator' \in [Creators -> CreatorStates]
      BY <2>1, <3>5, <1>t DEF SetupTyped
    <3> QED
      BY <2>1, <2>3, <3>2, <3>6, <1>t DEF SetupTyped
  <2>6. Registered' = Registered /\ ~dir[r]
    BY <2>1 DEF Registered, CanAdd
  <2>7. /\ dir'[r] /\ feat'[r] # None
        /\ \A q \in Repos \ {r} : dir'[q] = dir[q] /\ feat'[q] = feat[q]
    <3>1. base[r] # None
      BY <2>3, <1>t, SetupAssumption DEF SetupTyped
    <3>2. feat' = [feat EXCEPT ![r] = IF feat[r] = None THEN base[r] ELSE feat[r]]
      BY <2>1
    <3>3. DOMAIN feat = Repos /\ DOMAIN dir = Repos
      BY <1>t DEF SetupTyped, CreatorStates
    <3> QED
      BY <2>1, <2>3, <3>1, <3>2, <3>3
  <2>8. r \notin Registered /\ \A d \in Creators : r \notin creator[d].made
    BY <2>6, <2>3 DEF Making, Makes
  <2>9. me.k = Len(me.want) => Asked(me.want) = me.made \cup {r}
    BY <2>2, <2>3 DEF Asked
  <2>10. me.k # Len(me.want) =>
           /\ me.k + 1 \in DOMAIN me.want
           /\ \A i \in 1..me.k : me.want[i] \in me.made \cup {r}
    BY <2>2
  <2>11. Making'
    <3>1. ASSUME NEW d \in Creators \ {c} PROVE
            /\ creator'[d].made = creator[d].made
            /\ \A q \in creator[d].made : dir'[q] /\ feat'[q] # None
            /\ creator[d].made \cap (me.made \cup {r}) = {}
      <4>1. creator'[d].made = creator[d].made /\ creator[d].made \subseteq Repos \ {r}
        BY <2>4, <2>8, <1>t DEF SetupTyped, CreatorStates
      <4>2. creator[d].made \cap me.made = {}
        BY DEF Making, Makes
      <4>3. \A q \in creator[d].made : dir[q] /\ feat[q] # None
        BY DEF Making, Makes
      <4> QED
        BY <4>1, <4>2, <4>3, <2>7
    <3>2. \A q \in me.made \cup {r} : dir'[q] /\ feat'[q] # None /\ q \notin Registered'
      BY <2>6, <2>7, <2>8, <1>t DEF Making, Makes, SetupTyped, CreatorStates
    <3>3. me.k \in Nat /\ (me.k + 1) - 1 = me.k
      BY <2>2
    <3>4. /\ creator'[c].pc # "idle" /\ creator'[c].made \subseteq Asked(creator'[c].want)
          /\ creator'[c].pc = "add" =>
               /\ creator'[c].k \in DOMAIN creator'[c].want
               /\ \A i \in 1..(creator'[c].k - 1) : creator'[c].want[i] \in creator'[c].made
          /\ creator'[c].pc = "register" => Asked(creator'[c].want) = creator'[c].made
      BY <2>2, <2>3, <2>4, <2>9, <2>10, <3>3
    <3>5. \A d \in Creators \ {c} : \A q \in creator'[d].made : q \notin Registered'
      BY <2>4, <2>6 DEF Making, Makes
    <3>6. ASSUME NEW d \in Creators \ {c}, NEW e \in Creators \ {d}
          PROVE  creator'[d].made \cap creator'[e].made = {}
      <4>1. CASE e = c
        BY <4>1, <2>4, <3>1
      <4>2. CASE e # c
        BY <4>2, <2>4 DEF Making, Makes
      <4> QED
        BY <4>1, <4>2
    <3>7. \A e \in Creators \ {c} : creator'[c].made \cap creator'[e].made = {}
      BY <2>4, <3>1
    <3>8. \A d \in Creators : \A q \in creator'[d].made :
            dir'[q] /\ feat'[q] # None /\ q \notin Registered'
      BY <2>4, <3>1, <3>2, <3>5
    <3>9. Makes(c)'
      BY <2>4, <3>4, <3>7, <3>8 DEF Makes
    <3>10. ASSUME NEW d \in Creators \ {c} PROVE Makes(d)'
      <4>1. Makes(d) /\ creator'[d] = creator[d]
        BY <2>4 DEF Making
      <4> QED
        BY <4>1, <3>6, <3>8 DEF Makes
    <3> QED
      BY <3>9, <3>10 DEF Making
  <2>12. Accounted'
    <3>1. \A q \in Repos : dir'[q] => dir[q] \/ q \in creator'[c].made
      BY <2>4, <2>7, <1>t DEF SetupTyped, CreatorStates
    <3>2. \A d \in Creators : creator[d].made \subseteq creator'[d].made
      BY <2>4
    <3> QED
      BY <2>1, <2>6, <3>1, <3>2 DEF Accounted
  <2>13. Stuck'
    <3>1. \A q \in left : q \in Repos \ {r}
      BY <2>6, <1>t DEF Stuck, SetupTyped
    <3> QED
      BY <2>1, <2>4, <2>6, <2>7, <3>1 DEF Stuck
  <2> QED
    BY <2>5, <2>6, <2>7, <2>11, <2>12, <2>13, <1>r
<1>3. ASSUME NEW c \in Creators, AddFails(c) PROVE SetupInv'
  <2> DEFINE me == creator[c]  r == me.want[me.k]
  <2>1. /\ me.pc = "add" /\ UNCHANGED <<base, manifest, writes, kills>>
        /\ creator' = [creator EXCEPT ![c].pc = "undo"]
        /\ \/ UNCHANGED <<feat, dir, left>>
           \/ /\ ~dir[r] /\ feat' = [feat EXCEPT ![r] = IF @ = None THEN base[r] ELSE @]
              /\ \/ UNCHANGED <<dir, left>>
                 \/ dir' = [dir EXCEPT ![r] = TRUE] /\ left' = left \cup {r}
    BY <1>3 DEF AddFails, CanAdd
  <2>2. r \in Repos
    BY <2>1 DEF Making, Makes, SetupTyped, CreatorStates
  <2>3. SetupTyped'
    <3>1. base[r] \in 0..MaxBase
      BY <2>2, <1>t DEF SetupTyped, CreatorStates
    <3>2. feat' \in [Repos -> (0..MaxBase) \cup {None}]
      BY <2>1, <2>2, <3>1, <1>t DEF SetupTyped, CreatorStates
    <3>3. [me EXCEPT !.pc = "undo"] \in CreatorStates
      BY <1>t DEF SetupTyped, CreatorStates, CreatorPcs
    <3>4. creator' \in [Creators -> CreatorStates]
      BY <2>1, <3>3, <1>t DEF SetupTyped
    <3>5. dir' \in [Repos -> BOOLEAN] /\ left' \subseteq Repos
      BY <2>1, <2>2, <1>t DEF SetupTyped
    <3> QED
      BY <2>1, <3>2, <3>4, <3>5, <1>t DEF SetupTyped
  <2>4. /\ creator'[c].pc = "undo"
        /\ \A d \in Creators : creator'[d].made = creator[d].made
                               /\ creator'[d].want = creator[d].want
        /\ \A d \in Creators \ {c} : creator'[d] = creator[d]
    BY <2>1, <1>t DEF SetupTyped, CreatorStates
  <2>5. \A q \in Repos : feat[q] # None => feat'[q] # None
    BY <2>1, <2>2, <1>t DEF SetupTyped, CreatorStates
  <2>6. Registered' = Registered
    BY <2>1 DEF Registered
  <2>7. /\ \A q \in Repos : dir[q] => dir'[q]
        /\ \A q \in Repos : dir'[q] => dir[q] \/ q \in left'
        /\ left \subseteq left'
        /\ \A q \in left' : q \in left \/ (~dir[q] /\ dir'[q])
    BY <2>1, <2>2, <1>t DEF SetupTyped
  <2>8. Making'
    <3>1. \A d \in Creators : \A q \in creator'[d].made :
            dir'[q] /\ feat'[q] # None /\ q \notin Registered'
      <4>1. \A d \in Creators : creator[d].made \subseteq Repos
        BY <1>t DEF SetupTyped, CreatorStates
      <4> QED
        BY <4>1, <2>4, <2>5, <2>6, <2>7 DEF Making, Makes
    <3>2. ASSUME NEW d \in Creators PROVE Makes(d)'
      <4>1. Makes(d) /\ creator'[d].made = creator[d].made /\ creator'[d].want = creator[d].want
        BY <2>4 DEF Making
      <4>2. \A e \in Creators \ {d} : creator'[d].made \cap creator'[e].made = {}
        BY <4>1, <2>4 DEF Makes
      <4>3. d # c => creator'[d] = creator[d]
        BY <2>4
      <4> QED
        BY <4>1, <4>2, <4>3, <2>4, <3>1 DEF Makes
    <3> QED
      BY <3>2 DEF Making
  <2>9. Accounted'
    BY <2>1, <2>4, <2>6, <2>7 DEF Accounted
  <2>10. Stuck'
    <3>1. \A q \in left' : q \in Repos
      BY <2>3 DEF SetupTyped
    <3>2. \A q \in Repos : ~dir[q] => q \notin Registered /\ \A d \in Creators : q \notin creator[d].made
      BY DEF Making, Makes
    <3> QED
      BY <2>4, <2>6, <2>7, <3>1, <3>2 DEF Stuck
  <2>11. \A q \in Registered' : dir'[q] /\ feat'[q] # None
    BY <2>5, <2>6, <2>7, <1>r
  <2> QED
    BY <2>3, <2>8, <2>9, <2>10, <2>11
<1>4. ASSUME NEW c \in Creators, Register(c) PROVE SetupInv'
  <2> DEFINE me == creator[c]
  <2>1. /\ me.pc = "register" /\ manifest' = Asked(me.want) /\ writes' = writes + 1
        /\ creator' = [creator EXCEPT ![c] = AtRest] /\ UNCHANGED <<base, feat, dir, left, kills>>
    BY <1>4 DEF Register
  <2>2. manifest' = me.made /\ me.made \subseteq Repos
    BY <2>1, <1>t DEF Making, Makes, SetupTyped, CreatorStates
  <2>3. Registered' = me.made /\ me.made # None
    BY <2>2, SetupAssumption DEF Registered
  <2>c. /\ creator' \in [Creators -> CreatorStates]
        /\ creator'[c].pc = "idle" /\ creator'[c].made = {}
        /\ \A d \in Creators \ {c} : creator'[d] = creator[d]
    BY <2>1, <1>e
  <2>4. SetupTyped'
    BY <2>1, <2>2, <2>c, <1>t DEF SetupTyped, CreatorStates
  <2>5. Making'
    <3>1. \A d \in Creators \ {c} : \A q \in creator'[d].made :
            q \notin Registered' /\ dir'[q] /\ feat'[q] # None
      BY <2>1, <2>3, <2>c DEF Making, Makes
    <3> QED
      BY <2>c, <3>1 DEF Making, Makes
  <2>6. Accounted'
    <3>1. writes \in Nat
      BY <1>t DEF SetupTyped, CreatorStates
    <3>2. writes' <= 1 => Registered = {}
      BY <2>1, <3>1 DEF Accounted, Registered
    <3> QED
      BY <2>1, <2>3, <3>1, <3>2, <1>e DEF Accounted
  <2>7. \A r \in me.made : dir[r] /\ feat[r] # None
    BY DEF Making, Makes
  <2>8. Stuck'
    BY <2>1, <2>3, <2>c DEF Stuck
  <2> QED
    BY <2>1, <2>3, <2>4, <2>5, <2>6, <2>7, <2>8
<1>5. ASSUME NEW c \in Creators, RegisterFails(c) PROVE SetupInv'
  <2>1. /\ UNCHANGED <<base, feat, dir, manifest, left, writes, kills>>
        /\ creator' = [creator EXCEPT ![c].pc = "undo"]
    BY <1>5 DEF RegisterFails
  <2>2. SetupTyped'
    BY <2>1, <1>t DEF SetupTyped, CreatorStates, CreatorPcs
  <2>3. /\ creator'[c].pc = "undo"
        /\ \A d \in Creators : creator'[d].made = creator[d].made
                               /\ creator'[d].want = creator[d].want
        /\ \A d \in Creators \ {c} : creator'[d] = creator[d]
    BY <2>1, <1>t DEF SetupTyped, CreatorStates
  <2>4. Registered' = Registered
    BY <2>1 DEF Registered
  <2> QED
    BY <2>1, <2>2, <2>3, <2>4 DEF Making, Makes, Accounted, Stuck
<1>6. ASSUME NEW c \in Creators, UndoTree(c) \/ UndoFails(c) PROVE SetupInv'
  <2> DEFINE me == creator[c]
  <2>1. me.pc = "undo" /\ UNCHANGED <<base, feat, manifest, writes, kills>>
    BY <1>6 DEF UndoTree, UndoFails
  <2>2. PICK r \in me.made : /\ \/ dir' = [dir EXCEPT ![r] = FALSE] /\ left' = left
                                \/ dir' = dir /\ left' = left \cup {r}
                             /\ creator' = [creator EXCEPT ![c].made = @ \ {r}]
    BY <1>6 DEF UndoTree, UndoFails, LastToRemove, ToRemove
  <2>3. r \in Repos
    BY <1>t DEF SetupTyped, CreatorStates
  <2>4. SetupTyped'
    BY <2>1, <2>2, <2>3, <1>t DEF SetupTyped, CreatorStates
  <2>5. /\ creator'[c].pc = "undo" /\ creator'[c].made = me.made \ {r}
        /\ creator'[c].want = me.want
        /\ \A d \in Creators \ {c} : creator'[d] = creator[d]
    BY <2>1, <2>2, <1>t DEF SetupTyped, CreatorStates
  <2>6. /\ Registered' = Registered /\ r \notin Registered
        /\ \A d \in Creators \ {c} : r \notin creator[d].made
    BY <2>1, <2>2 DEF Registered, Making, Makes
  <2>7. /\ dir'[r] => r \in left'
        /\ \A q \in Repos \ {r} : dir'[q] = dir[q] /\ (q \in left' <=> q \in left)
        /\ r \in left' => dir'[r]
    <3>1. r \notin left /\ dir[r]
      BY <2>2 DEF Stuck, Making, Makes
    <3> QED
      BY <2>2, <2>3, <3>1, <1>t DEF SetupTyped, CreatorStates
  <2>8. Making'
    <3>0. \A d \in Creators : creator[d].made \subseteq Repos
      BY <1>t DEF SetupTyped, CreatorStates
    <3>1. \A d \in Creators : \A q \in creator'[d].made : q \in Repos /\ q # r /\ q \in creator[d].made
      BY <2>5, <2>6, <3>0
    <3> QED
      BY <2>1, <2>5, <2>6, <2>7, <3>1 DEF Making, Makes
  <2>9. Accounted'
    <3>1. \A q \in Repos : dir'[q] => q \in left' \/ (q # r /\ dir[q])
      BY <2>7
    <3>2. \A d \in Creators : \A q : q \in creator[d].made /\ q # r => q \in creator'[d].made
      BY <2>5
    <3> QED
      BY <2>1, <2>6, <2>7, <3>1, <3>2 DEF Accounted
  <2>10. Stuck'
    <3>1. \A q \in left' : q \in Repos
      BY <2>4 DEF SetupTyped
    <3> QED
      BY <2>5, <2>6, <2>7, <3>1 DEF Stuck
  <2> QED
    BY <2>1, <2>4, <2>6, <2>7, <2>8, <2>9, <2>10, <1>r
<1>7. ASSUME NEW c \in Creators, UndoStops(c) \/ UndoDone(c) PROVE SetupInv'
  <2> DEFINE made == creator[c].made
  <2>1. /\ creator' = [creator EXCEPT ![c] = AtRest] /\ left' = left \cup made
        /\ UNCHANGED <<base, feat, dir, manifest, writes, kills>>
    BY <1>7 DEF UndoStops, UndoDone, ToRemove
  <2>2. Registered' = Registered
    BY <2>1 DEF Registered
  <2>c. /\ creator'[c].pc = "idle" /\ creator'[c].made = {}
        /\ \A d \in Creators \ {c} : creator'[d] = creator[d]
    BY <2>1, <1>e
  <2>3. Making'
    <3>1. Makes(c)'
      BY <2>c DEF Makes
    <3>2. ASSUME NEW d \in Creators \ {c} PROVE Makes(d)'
      <4>1. Makes(d) /\ creator'[d] = creator[d]
        BY <2>c DEF Making
      <4>2. \A e \in Creators \ {d} : creator'[e].made \subseteq creator[e].made
        BY <2>c
      <4> QED
        BY <4>1, <4>2, <2>1, <2>2 DEF Makes
    <3> QED
      BY <3>1, <3>2 DEF Making
  <2>4. Accounted'
    BY <2>1, <2>2, <1>e DEF Accounted
  <2>5. Stuck'
    <3>1. \A q \in made : /\ dir[q] /\ q \notin Registered
                          /\ \A d \in Creators \ {c} : q \notin creator[d].made
      BY DEF Making, Makes
    <3> QED
      BY <2>1, <2>2, <3>1, <1>e DEF Stuck
  <2>6. made \subseteq Repos
    BY <1>t DEF SetupTyped, CreatorStates
  <2> QED
    BY <2>1, <2>2, <2>3, <2>4, <2>5, <2>6, <1>t, <1>e DEF SetupTyped
<1>8. ASSUME NEW c \in Creators, Interrupt(c) PROVE SetupInv'
  <2>1. /\ creator' = [creator EXCEPT ![c] = AtRest] /\ kills' = kills + 1
        /\ UNCHANGED <<base, feat, dir, manifest, left, writes>>
    BY <1>8 DEF Interrupt
  <2>2. Registered' = Registered /\ kills' # 0 /\ kills' \in Nat
    BY <2>1, <1>t DEF Registered, SetupTyped
  <2>c. /\ creator'[c].pc = "idle" /\ creator'[c].made = {}
        /\ \A d \in Creators \ {c} : creator'[d] = creator[d]
    BY <2>1, <1>e
  <2>3. Making'
    <3>1. Makes(c)'
      BY <2>c DEF Makes
    <3>2. ASSUME NEW d \in Creators \ {c} PROVE Makes(d)'
      <4>1. Makes(d) /\ creator'[d] = creator[d]
        BY <2>c DEF Making
      <4>2. \A e \in Creators \ {d} : creator'[e].made \subseteq creator[e].made
        BY <2>c
      <4> QED
        BY <4>1, <4>2, <2>1, <2>2 DEF Makes
    <3> QED
      BY <3>1, <3>2 DEF Making
  <2> QED
    BY <2>1, <2>2, <2>3, <1>t, <1>e DEF SetupTyped, Accounted, Stuck
<1>9. ASSUME NEW r \in Repos, BaseMoves(r) PROVE SetupInv'
  <2>1. /\ base[r] < MaxBase /\ base' = [base EXCEPT ![r] = @ + 1]
        /\ UNCHANGED <<feat, dir, manifest, creator, left, writes, kills>>
    BY <1>9 DEF BaseMoves
  <2>2. SetupTyped'
    BY <2>1, <1>t, SetupAssumption DEF SetupTyped
  <2> QED
    BY <2>1, <2>2 DEF Making, Makes, Accounted, Stuck, Registered
<1>10. CASE UNCHANGED setupVars
  BY <1>10 DEF setupVars, SetupTyped, Making, Makes, Accounted, Stuck, Registered
<1> QED
  BY <1>1, <1>2, <1>3, <1>4, <1>5, <1>6, <1>7, <1>8, <1>9, <1>10 DEF SetupNext

(* A registered line has a worktree and a branch in every repository it names, and
   calls that overlap and fail leave none behind but those Git made and reported as
   failed, or refused to remove (LinesWhole): for any repositories, requests and number
   of calls. *)
THEOREM LinesAreWhole == SetupSpec => []LinesWhole
<1>1. SetupInit => SetupInv
  <2> SUFFICES ASSUME SetupInit PROVE SetupInv
    OBVIOUS
  <2>1. SetupTyped
    BY SetupAssumption DEF SetupInit, SetupTyped, AtRest, CreatorStates, CreatorPcs
  <2> QED
    BY <2>1 DEF SetupInit, SetupInv, Making, Makes, Accounted, Stuck, Registered, AtRest
<1>2. SetupInv => LinesWhole
  <2> SUFFICES ASSUME SetupInv PROVE LinesWhole
    OBVIOUS
  <2>1. RegisteredIsWhole
    BY DEF RegisteredIsWhole, Failing, SetupInv, Registered
  <2>2. NoOrphans
    <3> SUFFICES ASSUME \A c \in Creators : creator[c].pc = "idle", kills = 0, writes <= 1
                 PROVE  /\ {r \in Repos : dir[r]} = Registered \cup left
                        /\ Registered \cap left = {}
      BY DEF NoOrphans, Registered
    <3>1. \A c \in Creators : creator[c].made = {}
      BY DEF SetupInv, Making, Makes
    <3>2. \A r \in Repos : dir[r] => r \in Registered \cup left
      BY <3>1 DEF SetupInv, Accounted
    <3>3. \A r \in left : r \in Repos /\ dir[r] /\ r \notin Registered
      BY DEF SetupInv, SetupTyped, Stuck
    <3> QED
      BY <3>2, <3>3 DEF SetupInv, SetupTyped, Registered
  <2> QED
    BY <2>1, <2>2 DEF LinesWhole
<1> QED
  BY <1>1, <1>2, SetupStep, PTL DEF SetupSpec

-----------------------------------------------------------------------------
(* The worktrees of a task (TaskWorktrees) *)

(* The sets of edits that heads, branches and worktrees hold. *)
Edits == SUBSET (1..MaxEdits)
Heads == [Repos -> Edits]
SomeHeads == [Repos -> Edits \cup {None}]
Positions == DOMAIN Order

(* The states of the three commands that work on the task. *)
RunnerStates == [pc : {"idle", "ensure", "agent", "collect"}, k : Nat, got : Heads]
MergerStates ==
    [pc : {"idle", "check", "commit", "undo"}, k : Nat, was : Heads, made : SUBSET Repos,
     unread : BOOLEAN]
CloserStates ==
    [pc : {"idle", "check", "remove", "branch"}, k : Nat, seen : {None, "done", "failed"}]

WorktreesTyped ==
    /\ line \in Heads /\ branch \in SomeHeads /\ tree \in SomeHeads
    /\ status \in {"assigned", "in_progress", "review", "failed", "done"}
    /\ heads \in Heads \cup {None} /\ review \in {None, "PASS", "FAIL", "stale"}
    /\ runner \in RunnerStates /\ merger \in MergerStates /\ closer \in CloserStates
    /\ edits \in 0..MaxEdits /\ deaths \in Nat
    /\ work \in Heads /\ raced \in BOOLEAN
    /\ runner.pc \in {"ensure", "collect"} => runner.k \in Positions
    /\ merger.pc \in {"check", "commit"} => merger.k \in Positions
    /\ closer.pc # "idle" => closer.k \in Positions

(* The line has what was reviewed in the repository. *)
Has(r) == heads[r] \subseteq line[r]

(* What runs on a task fits its status, and a line holds nothing of the task but
   reviewed heads. *)
Phases ==
    /\ runner.pc # "idle" => status = "in_progress"
    /\ merger.pc # "idle" => /\ status = "done"
                             /\ \A r \in Repos : merger.was[r] \subseteq heads[r]
    /\ status \in {"review", "done"} => heads # None
    /\ \A r \in Repos : IF status = "done" THEN line[r] \subseteq heads[r] ELSE line[r] = {}
    /\ \A r \in Repos : tree[r] # None => branch[r] # None

(* A merge that commits has what it passed; one that undoes is not complete, unless it
   could not read what it merged. *)
Merging ==
    /\ merger.pc \in {"idle", "check"} => merger.made = {}
    /\ merger.pc # "undo" => ~merger.unread
    /\ merger.pc \in {"commit", "undo"} =>
         \A r \in Repos : merger.was[r] \subseteq line[r]
    /\ merger.pc = "commit" => \A j \in 1..(merger.k - 1) : Has(Order[j])
    /\ \A r \in merger.made : ~(heads[r] \subseteq merger.was[r])
    /\ merger.pc = "undo" /\ ~merger.unread => \E r \in Repos : ~Has(r)

(* The branch holds no more than what was reviewed. *)
InHeads(r) == branch[r] = None \/ branch[r] \subseteq heads[r]

(* Of a task that is done, a close that removes saw every repository integrated; while it
   checks, either all it passed are, or one it comes to is not. *)
Closing ==
    closer.pc # "idle" =>
        /\ closer.seen = status /\ status \in {"done", "failed"}
        /\ status = "done" =>
             IF closer.pc = "check"
             THEN /\ \A j \in 1..(closer.k - 1) : InHeads(Order[j])
                  /\ (\A j \in 1..(closer.k - 1) : Has(Order[j]))
                       \/ \E j \in Positions : j >= closer.k /\ ~Has(Order[j])
             ELSE \A r \in Repos : InHeads(r) /\ Has(r)

(* Of a task that is done, a branch is only gone when every line has its heads. *)
OnBranch ==
    status = "done" => \A r \in Repos :
        IF branch[r] = None THEN \A q \in Repos : Has(q) ELSE heads[r] \subseteq branch[r]

(* What a branch or worktree that may be missing holds. *)
Of(set) == IF set = None THEN {} ELSE set

(* All work is in the line, the branch or the worktree. *)
Kept == \A r \in Repos : work[r] \subseteq line[r] \cup Of(branch[r]) \cup Of(tree[r])

(* What close and work promise assumes that nobody raced with a close. *)
WorktreesInv ==
    /\ WorktreesTyped /\ Phases /\ Merging
    /\ raced \/ (Closing /\ OnBranch /\ Kept)

(* The edits of a task are closed under what merging and comparing do with them. *)
LEMMA EditSets ==
  /\ {} \in Edits /\ None \notin Edits /\ None \notin Heads
  /\ \A a, b \in Edits : a \cup b \in Edits /\ a \ b \in Edits
  BY WorktreeAssumption DEF Edits, Heads

(* A place in the order is a number, and the order has every repository once. *)
LEMMA Places ==
  /\ 1 \in Positions /\ Positions \subseteq Nat
  /\ \A k \in Positions : /\ Order[k] \in Repos /\ k \in Nat /\ k >= 1
                          /\ IF More(k) THEN k + 1 \in Positions
                             ELSE \A j \in Positions : j \in 1..k
                          /\ \A j \in 1..k : j \in Positions
  /\ \A r \in Repos : \E k \in Positions : Order[k] = r
<1>1. Order \in Seq(Repos) /\ Len(Order) \in Nat /\ Positions = 1..Len(Order) /\ Order # <<>>
  BY OrderAssumption DEF Positions
<1>2. 1 \in Positions
  BY <1>1
<1>3. \A k \in Positions : Order[k] \in Repos
  BY <1>1
<1>4. \A r \in Repos : \E k \in Positions : Order[k] = r
  BY OrderAssumption DEF Positions
<1>5. \A k \in Positions : k \in Nat /\ k >= 1 /\ \A j \in 1..k : j \in Positions
  BY <1>1
<1>6. \A k \in Positions : IF More(k) THEN k + 1 \in Positions
                             ELSE \A j \in Positions : j \in 1..k
  BY <1>1 DEF More
<1> QED
  BY <1>2, <1>3, <1>4, <1>5, <1>6

(* The type invariant, action by action. *)
LEMMA TypedStep ==
  ASSUME WorktreesTyped, Phases, [WorktreesNext]_taskVars
  PROVE  WorktreesTyped'
<1>t. /\ runner \in RunnerStates
      /\ merger \in MergerStates
      /\ closer \in CloserStates
  BY DEF WorktreesTyped
<1>a. /\ Away \in RunnerStates
      /\ MergeAway \in MergerStates
      /\ CloseAway \in CloserStates
      /\ Away.pc = "idle" /\ MergeAway.pc = "idle" /\ CloseAway.pc = "idle"
  BY EditSets DEF Away, MergeAway, CloseAway, Heads, RunnerStates, MergerStates, CloserStates
<1>k. runner.k \in Nat /\ merger.k \in Nat /\ closer.k \in Nat
  BY <1>t DEF RunnerStates, MergerStates, CloserStates
<1>1. CASE Reserve
  <2>1. runner' = [Away EXCEPT !.pc = "ensure", !.k = 1]
    BY <1>1 DEF Reserve
  <2>2. runner' \in RunnerStates
        /\ runner'.k = 1
    BY <2>1, <1>a DEF Away, RunnerStates
  <2> QED
    BY <1>1, <2>2, Places DEF Reserve, WorktreesTyped, git, Disturbs
<1>2. CASE EnsureTree
  <2>1. runner.k \in Positions /\ Order[runner.k] \in Repos
    BY <1>2, Places DEF EnsureTree, WorktreesTyped
  <2>2. branch' \in SomeHeads /\ tree' \in SomeHeads
    BY <1>2, <2>1, EditSets DEF EnsureTree, WorktreesTyped, SomeHeads, Heads
  <2>3. /\ runner' \in RunnerStates
        /\ runner'.pc \in {"ensure", "collect"} => runner'.k \in Positions
    BY <1>2, <2>1, <1>t, <1>k, Places DEF EnsureTree, RunnerStates
  <2> QED
    BY <1>2, <2>2, <2>3 DEF EnsureTree, WorktreesTyped, files, Disturbs
<1>3. CASE RunEndsBadly
  BY <1>3, <1>a DEF RunEndsBadly, RunFails, WorktreesTyped, git
<1>4. ASSUME NEW r \in Repos, Edit(r) PROVE WorktreesTyped'
  <2>1. edits + 1 \in 1..MaxEdits /\ edits' = edits + 1
    BY <1>4, WorktreeAssumption DEF Edit, WorktreesTyped
  <2>2. {edits + 1} \in Edits
    BY <2>1 DEF Edits
  <2>3. tree[r] \in Edits /\ work[r] \in Edits
    BY <1>4 DEF Edit, WorktreesTyped, SomeHeads, Heads
  <2>4. tree' \in SomeHeads /\ work' \in Heads
    BY <1>4, <2>2, <2>3, EditSets DEF Edit, WorktreesTyped, SomeHeads, Heads
  <2> QED
    BY <1>4, <2>1, <2>4 DEF Edit, WorktreesTyped, files, Disturbs
<1>5. ASSUME NEW r \in Repos, Commit(r) PROVE WorktreesTyped'
  <2>1. tree[r] \in Edits /\ branch[r] \in Edits
    BY <1>5 DEF Commit, WorktreesTyped, SomeHeads, Phases
  <2>2. branch' \in SomeHeads /\ tree' \in SomeHeads
    BY <1>5, <2>1, EditSets DEF Commit, WorktreesTyped, SomeHeads
  <2> QED
    BY <1>5, <2>2 DEF Commit, WorktreesTyped, files, Disturbs
<1>6. CASE AgentDone
  <2>1. /\ runner' \in RunnerStates
        /\ runner'.k = 1
    BY <1>6, <1>t DEF AgentDone, RunnerStates
  <2> QED
    BY <1>6, <2>1, Places DEF AgentDone, WorktreesTyped, files, git
<1>7. CASE CollectHead
  <2> DEFINE r == Order[runner.k]  got == [runner.got EXCEPT ![r] = branch[r]]
  <2>1. runner.k \in Positions /\ r \in Repos
    BY <1>7, Places DEF CollectHead, WorktreesTyped
  <2>2. CASE tree[r] # {}
    BY <1>7, <2>2, <1>a DEF CollectHead, RunFails, WorktreesTyped, git
  <2>3. CASE tree[r] = {}
    <3>1. branch[r] \in Edits
      BY <2>1, <2>3, EditSets DEF Phases, WorktreesTyped, SomeHeads
    <3>2. got \in Heads
      BY <2>1, <3>1, <1>t DEF Heads, RunnerStates
    <3>3. /\ runner' \in RunnerStates
          /\ runner'.pc \in {"ensure", "collect"} => runner'.k \in Positions
      BY <1>7, <2>1, <2>3, <3>2, <1>t, <1>a, <1>k, Places DEF CollectHead, RunnerStates
    <3>4. heads' \in Heads \cup {None} /\ status' \in {"review", status}
      BY <1>7, <2>3, <3>2 DEF CollectHead, WorktreesTyped
    <3> QED
      BY <1>7, <2>3, <3>3, <3>4 DEF CollectHead, WorktreesTyped, git
  <2> QED
    BY <2>2, <2>3
<1>8. CASE GiveUp
  BY <1>8 DEF GiveUp, WorktreesTyped, git
<1>9. ASSUME NEW verdict \in {"PASS", "FAIL"}, Review(verdict) PROVE WorktreesTyped'
  BY <1>9 DEF Review, WorktreesTyped, git
<1>10. CASE MergeBegin
  <2>1. /\ merger' \in MergerStates
        /\ merger'.k = 1
    BY <1>10, <1>a DEF MergeBegin, MergeAway, MergerStates
  <2> QED
    BY <1>10, <2>1, Places DEF MergeBegin, WorktreesTyped, files, git
<1>11. CASE MergeCheck
  <2>1. line \in Heads /\ merger.k \in Positions
    BY <1>11 DEF MergeCheck, WorktreesTyped
  <2>2. /\ merger' \in MergerStates
        /\ merger'.pc \in {"check", "commit"} => merger'.k \in Positions
    BY <1>11, <2>1, <1>a, <1>t, <1>k, Places DEF MergeCheck, MergerStates
  <2> QED
    BY <1>11, <2>2 DEF MergeCheck, WorktreesTyped, files, git
<1>l. ASSUME NEW r \in Repos, status = "done" PROVE [line EXCEPT ![r] = @ \cup heads[r]] \in Heads
  <2>1. line \in Heads /\ heads \in Heads
    BY <1>l DEF WorktreesTyped, Phases
  <2> QED
    BY <2>1, EditSets DEF Heads
<1>12. CASE MergeCommit
  <2>1. merger.k \in Positions /\ Order[merger.k] \in Repos /\ status = "done"
    BY <1>12, Places DEF MergeCommit, WorktreesTyped, Phases
  <2>2. line' \in Heads
    BY <1>12, <2>1, <1>l DEF MergeCommit
  <2>3. /\ merger' \in MergerStates
        /\ merger'.pc \in {"check", "commit"} => merger'.k \in Positions
    BY <1>12, <2>1, <1>a, <1>t, <1>k, Places DEF MergeCommit, MergerStates
  <2> QED
    BY <1>12, <2>2, <2>3 DEF MergeCommit, WorktreesTyped, files
<1>13. CASE MergeFails
  <2>1. /\ merger' \in MergerStates
        /\ merger'.pc = "undo"
    BY <1>13, <1>t DEF MergeFails, MergerStates
  <2> QED
    BY <1>13, <2>1 DEF MergeFails, WorktreesTyped, files, git
<1>14. CASE MergeUnread
  <2>1. merger.k \in Positions /\ Order[merger.k] \in Repos /\ status = "done"
    BY <1>14, Places DEF MergeUnread, WorktreesTyped, Phases
  <2>2. line' \in Heads
    BY <1>14, <2>1, <1>l DEF MergeUnread
  <2>3. /\ merger' \in MergerStates
        /\ merger'.pc = "undo"
    BY <1>14, <1>t DEF MergeUnread, MergerStates
  <2> QED
    BY <1>14, <2>2, <2>3 DEF MergeUnread, WorktreesTyped, files
<1>15. CASE MergeUndo
  <2>1. CASE merger.made = {}
    BY <1>15, <2>1, <1>a DEF MergeUndo, WorktreesTyped, files
  <2>2. CASE merger.made # {}
    <3>1. PICK r \in merger.made : /\ line' = [line EXCEPT ![r] = merger.was[r]]
                                   /\ merger' = [merger EXCEPT !.made = @ \ {r}]
      BY <1>15, <2>2 DEF MergeUndo
    <3>2. r \in Repos /\ merger.was[r] \in Edits /\ line \in Heads
      BY <3>1, <1>t DEF Heads, WorktreesTyped, MergerStates
    <3>3. line' \in Heads
      BY <3>1, <3>2 DEF Heads
    <3>4. /\ merger' \in MergerStates
          /\ merger'.pc = merger.pc /\ merger'.k = merger.k
      BY <3>1, <1>t DEF MergerStates
    <3> QED
      BY <1>15, <3>3, <3>4 DEF MergeUndo, WorktreesTyped, files
  <2> QED
    BY <2>1, <2>2
<1>16. CASE CloseBegin
  BY <1>16, Places DEF CloseBegin, WorktreesTyped, CloserStates, files, git
<1>17. CASE CloseCheck
  <2>1. closer.k \in Positions
    BY <1>17 DEF CloseCheck, WorktreesTyped
  <2>2. /\ closer' \in CloserStates
        /\ closer'.pc # "idle" => closer'.k \in Positions
    BY <1>17, <2>1, <1>a, <1>t, <1>k, Places DEF CloseCheck, CloserStates
  <2> QED
    BY <1>17, <2>2 DEF CloseCheck, WorktreesTyped, files, git
<1>18. CASE CloseTree
  <2> DEFINE r == Order[closer.k]
  <2>1. closer.k \in Positions /\ r \in Repos
    BY <1>18, Places DEF CloseTree, WorktreesTyped
  <2>2. /\ closer' \in CloserStates
        /\ closer'.pc # "idle" => closer'.k \in Positions
    BY <1>18, <2>1, <1>a, <1>t DEF CloseTree, CloserStates
  <2>3. tree' \in SomeHeads
    BY <1>18, <2>1 DEF CloseTree, WorktreesTyped, SomeHeads
  <2>4. work[r] \in Edits /\ (tree[r] # None => tree[r] \in Edits)
    BY <2>1 DEF WorktreesTyped, Heads, SomeHeads
  <2>5. work' \in Heads
    <3>1. \/ work' = work
          \/ tree[r] # None /\ work' = [work EXCEPT ![r] = @ \ tree[r]]
      BY <1>18 DEF CloseTree
    <3> QED
      BY <2>1, <2>4, <3>1, EditSets DEF WorktreesTyped, Heads
  <2> QED
    BY <1>18, <2>2, <2>3, <2>5 DEF CloseTree, WorktreesTyped, files
<1>19. CASE CloseBranch
  <2> DEFINE r == Order[closer.k]
  <2>1. closer.k \in Positions /\ r \in Repos
    BY <1>19, Places DEF CloseBranch, WorktreesTyped
  <2>2. /\ closer' \in CloserStates
        /\ closer'.pc # "idle" => closer'.k \in Positions
    BY <1>19, <2>1, <1>a, <1>t, <1>k, Places DEF CloseBranch, CloserStates
  <2>3. branch' \in SomeHeads
    BY <1>19, <2>1 DEF CloseBranch, WorktreesTyped, SomeHeads
  <2>4. work[r] \in Edits /\ (branch[r] # None => branch[r] \in Edits)
    BY <2>1 DEF WorktreesTyped, Heads, SomeHeads
  <2>5. work' \in Heads
    BY <1>19, <2>1, <2>4, EditSets DEF CloseBranch, WorktreesTyped, Heads
  <2> QED
    BY <1>19, <2>2, <2>3, <2>5 DEF CloseBranch, WorktreesTyped, files
<1>20. CASE Die
  BY <1>20, <1>a, <1>t DEF Die, WorktreesTyped, files, git
<1>21. CASE UNCHANGED taskVars
  BY <1>21 DEF taskVars, WorktreesTyped
<1> QED
  BY <1>1, <1>2, <1>3, <1>4, <1>5, <1>6, <1>7, <1>8, <1>9, <1>10, <1>11, <1>12, <1>13, <1>14,
     <1>15, <1>16, <1>17, <1>18, <1>19, <1>20, <1>21 DEF WorktreesNext

(* What the phases of run, merge and close say of the status is kept. *)
LEMMA PhasesStep ==
  ASSUME WorktreesTyped, Phases, [WorktreesNext]_taskVars
  PROVE  Phases'
<1>t. /\ runner \in RunnerStates /\ merger \in MergerStates /\ closer \in CloserStates
      /\ line \in Heads /\ branch \in SomeHeads /\ tree \in SomeHeads
      /\ DOMAIN line = Repos /\ DOMAIN branch = Repos /\ DOMAIN tree = Repos
  BY DEF WorktreesTyped, Heads, SomeHeads
<1>a. Away.pc = "idle" /\ MergeAway.pc = "idle" /\ CloseAway.pc = "idle"
  BY DEF Away, MergeAway, CloseAway
\* Neither the heads nor the repositories change, and a status that does was not done.
<1>s. ASSUME UNCHANGED <<git, heads, merger>>, status # "done",
             status' # "done" \/ (heads # None /\ \A r \in Repos : line[r] = {}),
             status' = "review" => heads # None, runner'.pc # "idle" => status' = "in_progress"
      PROVE  Phases'
  <2>1. \A r \in Repos : line[r] = {} /\ (tree[r] # None => branch[r] # None)
    BY <1>s DEF Phases
  <2> QED
    BY <1>s, <2>1 DEF Phases, git
<1>1. CASE Reserve
  <2>1. runner'.pc # "idle" => status' = "in_progress"
    BY <1>1 DEF Reserve
  <2> QED
    BY <1>1, <1>s, <2>1 DEF Reserve
<1>2. CASE EnsureTree
  <2> DEFINE r == Order[runner.k]
  <2>1. status = "in_progress" /\ UNCHANGED <<line, files, merger>>
    BY <1>2 DEF EnsureTree, Phases
  <2>2. r \in Repos /\ line[r] # None
    BY <1>2, <1>t, Places, EditSets DEF EnsureTree, WorktreesTyped, Heads
  <2>3. \A q \in Repos : tree'[q] # None => branch'[q] # None
    BY <1>2, <1>t, <2>2 DEF EnsureTree, Phases
  <2> QED
    BY <2>1, <2>3 DEF Phases, files
<1>3. CASE RunEndsBadly
  <2>1. status = "in_progress"
    BY <1>3 DEF RunEndsBadly, Phases
  <2> QED
    BY <1>3, <1>a, <1>s, <2>1 DEF RunEndsBadly, RunFails, git
<1>4. ASSUME NEW r \in Repos, Edit(r) \/ Commit(r) PROVE Phases'
  <2>1. \A q \in Repos : tree'[q] # None => branch'[q] # None
    <3>1. branch[r] # None /\ tree[r] # None
      BY <1>4 DEF Edit, Commit, Phases
    <3>2. branch[r] \in Edits /\ tree[r] \in Edits
      BY <3>1, <1>t DEF SomeHeads
    <3>3. branch[r] \cup tree[r] # None
      BY <3>2, EditSets
    <3> QED
      BY <1>4, <1>t, <3>1, <3>3 DEF Edit, Commit, Phases
  <2> QED
    BY <1>4, <2>1 DEF Edit, Commit, Phases, files
<1>5. CASE AgentDone
  <2>1. runner'.pc = "collect" /\ status = "in_progress"
    BY <1>5, <1>t DEF AgentDone, RunnerStates, Phases
  <2> QED
    BY <1>5, <2>1 DEF AgentDone, Phases, git, files
<1>6. CASE CollectHead
  <2>1. status = "in_progress" /\ merger' = merger /\ UNCHANGED git
    BY <1>6 DEF CollectHead, Phases, RunFails
  <2>2. merger.pc = "idle" /\ \A r \in Repos : line[r] = {}
    BY <2>1 DEF Phases
  <2>3. \/ status' \in {"failed", "review"} /\ runner'.pc = "idle"
        \/ status' = "in_progress"
    BY <1>6, <1>a, <2>1 DEF CollectHead, RunFails
  <2>4. status' = "review" => heads' # None
    <3>1. [runner.got EXCEPT ![Order[runner.k]] = branch[Order[runner.k]]] \in Heads
            \/ tree[Order[runner.k]] # {}
      <4>1. Order[runner.k] \in Repos
        BY <1>6, Places DEF CollectHead, WorktreesTyped
      <4>2. tree[Order[runner.k]] = {} => branch[Order[runner.k]] \in Edits
        BY <4>1, <1>t, EditSets DEF Phases, SomeHeads
      <4> QED
        BY <4>1, <4>2, <1>t DEF RunnerStates, Heads
    <3> QED
      BY <1>6, <2>1, <3>1, EditSets DEF CollectHead, RunFails
  <2> QED
    BY <2>1, <2>2, <2>3, <2>4 DEF Phases, git
<1>7. CASE GiveUp
  BY <1>7, <1>s DEF GiveUp, Phases
<1>8. ASSUME NEW verdict \in {"PASS", "FAIL"}, Review(verdict) PROVE Phases'
  <2>1. heads # None /\ \A r \in Repos : line[r] = {}
    BY <1>8 DEF Review, Phases
  <2>2. runner.pc = "idle" /\ merger.pc = "idle"
    BY <1>8 DEF Review, Phases
  <2> QED
    BY <1>8, <1>s, <2>1, <2>2 DEF Review
<1>9. CASE MergeBegin \/ MergeCheck \/ MergeFails
  <2>1. status = "done" /\ UNCHANGED <<git, files, runner>>
    BY <1>9 DEF MergeBegin, MergeCheck, MergeFails, Phases
  <2>2. \/ merger'.was \in {MergeAway.was, line}
        \/ merger'.was = merger.was /\ merger.pc # "idle"
    BY <1>9, <1>t DEF MergeBegin, MergeCheck, MergeFails, MergerStates, MergeAway
  <2>3. \A r \in Repos : merger'.was[r] \subseteq heads[r]
    BY <2>1, <2>2 DEF Phases, MergeAway
  <2> QED
    BY <2>1, <2>3 DEF Phases, git, files
<1>10. CASE MergeCommit \/ MergeUnread
  <2>1. /\ status = "done" /\ UNCHANGED <<branch, tree, files, runner>>
        /\ line' = [line EXCEPT ![Order[merger.k]] = @ \cup heads[Order[merger.k]]]
    BY <1>10 DEF MergeCommit, MergeUnread, Phases
  <2>2. \A r \in Repos : line'[r] \subseteq heads[r]
    BY <2>1, <1>t DEF Phases
  <2>3. merger' = MergeAway \/ merger'.was = merger.was
    BY <1>10, <1>t DEF MergeCommit, MergeUnread, MergerStates
  <2> QED
    BY <1>10, <1>a, <2>1, <2>2, <2>3 DEF Phases, files, MergeCommit, MergeUnread
<1>11. CASE MergeUndo
  <2>1. status = "done" /\ UNCHANGED <<branch, tree, files, runner>>
    BY <1>11 DEF MergeUndo, Phases
  <2>2. \A r \in Repos : line'[r] \subseteq heads[r]
    <3>1. CASE line' = line
      BY <2>1, <3>1 DEF Phases
    <3>2. CASE line' # line
      <4>1. PICK r \in merger.made : line' = [line EXCEPT ![r] = merger.was[r]]
        BY <1>11, <3>2 DEF MergeUndo
      <4> QED
        BY <1>11, <2>1, <4>1, <1>t DEF Phases, MergeUndo
    <3> QED
      BY <3>1, <3>2
  <2>3. merger' = MergeAway \/ merger'.was = merger.was
    BY <1>11, <1>t DEF MergeUndo, MergerStates
  <2> QED
    BY <1>11, <1>a, <2>1, <2>2, <2>3 DEF Phases, files, MergeUndo
<1>12. CASE CloseBegin \/ CloseCheck
  BY <1>12 DEF CloseBegin, CloseCheck, Phases, git, files
<1>13. CASE CloseTree \/ CloseBranch
  <2>1. UNCHANGED <<line, files, runner, merger>>
    BY <1>13 DEF CloseTree, CloseBranch
  <2>2. Order[closer.k] \in Repos
    BY <1>13, Places DEF CloseTree, CloseBranch, WorktreesTyped
  <2>3. \A r \in Repos : tree'[r] # None => branch'[r] # None
    BY <1>13, <2>2, <1>t DEF CloseTree, CloseBranch, Phases
  <2> QED
    BY <2>1, <2>3 DEF Phases, files
<1>14. CASE Die
  BY <1>14, <1>a DEF Die, Phases, files, git
<1>15. CASE UNCHANGED taskVars
  BY <1>15 DEF taskVars, Phases
<1> QED
  BY <1>1, <1>2, <1>3, <1>4, <1>5, <1>6, <1>7, <1>8, <1>9, <1>10, <1>11, <1>12, <1>13, <1>14,
     <1>15 DEF WorktreesNext

(* A merge knows which repositories it has done. *)
LEMMA MergingStep ==
  ASSUME WorktreesTyped, Phases, Merging, [WorktreesNext]_taskVars
  PROVE  Merging'
<1>t. merger \in MergerStates /\ line \in Heads /\ DOMAIN line = Repos
  BY DEF WorktreesTyped, Heads
<1>a. MergeAway.pc = "idle" /\ MergeAway.made = {} /\ ~MergeAway.unread
  BY DEF MergeAway
<1>s. ASSUME UNCHANGED <<line, merger>>, merger.pc = "idle" \/ heads' = heads PROVE Merging'
  BY <1>s DEF Merging, Has
<1>1. CASE \/ Reserve \/ EnsureTree \/ RunEndsBadly \/ AgentDone \/ GiveUp
           \/ (\E r \in Repos : Edit(r) \/ Commit(r))
           \/ (\E verdict \in {"PASS", "FAIL"} : Review(verdict))
           \/ CloseBegin \/ CloseCheck \/ CloseTree \/ CloseBranch \/ UNCHANGED taskVars
  <2>1. UNCHANGED <<line, merger, heads>>
    BY <1>1 DEF Reserve, EnsureTree, RunEndsBadly, RunFails, AgentDone, GiveUp, Edit, Commit,
         Review, CloseBegin, CloseCheck, CloseTree, CloseBranch, taskVars, git, files
  <2> QED
    BY <1>s, <2>1
<1>2. CASE CollectHead
  <2>1. UNCHANGED <<line, merger>> /\ merger.pc = "idle"
    BY <1>2 DEF CollectHead, RunFails, git, Phases
  <2> QED
    BY <1>s, <2>1
<1>3. CASE MergeBegin
  <2>1. merger'.pc = "check" /\ merger'.made = {} /\ ~merger'.unread
    BY <1>3 DEF MergeBegin, MergeAway
  <2> QED
    BY <2>1 DEF Merging
<1>4. CASE MergeCheck
  <2>1. /\ merger.pc = "check" /\ merger.made = {} /\ ~merger.unread /\ UNCHANGED <<git, files>>
        /\ merger.k \in Positions
    BY <1>4 DEF MergeCheck, Merging, WorktreesTyped
  <2>2. CASE merger' = MergeAway
    BY <2>2, <1>a DEF Merging
  <2>3. CASE merger' = [merger EXCEPT !.k = @ + 1]
    BY <2>1, <2>3, <1>t DEF Merging, MergerStates
  <2>4. CASE merger' = [merger EXCEPT !.pc = "commit", !.k = 1, !.was = line]
    <3>1. /\ merger'.pc = "commit" /\ merger'.k = 1 /\ merger'.was = line
          /\ merger'.made = {} /\ ~merger'.unread
      BY <2>1, <2>4, <1>t DEF MergerStates
    <3>2. line' = line
      BY <2>1 DEF git
    <3> QED
      BY <3>1, <3>2 DEF Merging
  <2> QED
    BY <1>4, <2>2, <2>3, <2>4 DEF MergeCheck
<1>5. CASE MergeCommit
  <2> DEFINE r == Order[merger.k]
  <2>1. /\ merger.pc = "commit" /\ heads' = heads
        /\ line' = [line EXCEPT ![r] = @ \cup heads[r]]
    BY <1>5 DEF MergeCommit, files
  <2>2. merger.k \in Positions /\ merger.k \in Nat /\ r \in Repos
    BY <2>1, <1>t, Places DEF WorktreesTyped, MergerStates
  <2>3. CASE merger' = MergeAway
    BY <2>3, <1>a DEF Merging
  <2>4. CASE merger' = [merger EXCEPT !.k = @ + 1,
                           !.made = IF heads[r] \subseteq line[r] THEN @ ELSE @ \cup {r}]
    <3>1. /\ merger'.pc = "commit" /\ merger'.k = merger.k + 1 /\ merger'.was = merger.was
          /\ merger'.unread = merger.unread
          /\ merger'.made = IF heads[r] \subseteq line[r] THEN merger.made
                            ELSE merger.made \cup {r}
      BY <2>1, <2>4, <1>t DEF MergerStates
    <3>2. \A q \in Repos : line[q] \subseteq line'[q]
      BY <2>1, <2>2, <1>t
    <3>3. \A q \in Repos : merger.was[q] \subseteq line'[q]
      BY <2>1, <3>2 DEF Merging
    <3>4. \A j \in 1..merger.k : heads[Order[j]] \subseteq line'[Order[j]]
      <4> SUFFICES ASSUME NEW j \in 1..merger.k PROVE heads[Order[j]] \subseteq line'[Order[j]]
        OBVIOUS
      <4>1. CASE j = merger.k
        BY <2>1, <2>2, <4>1, <1>t
      <4>2. CASE j # merger.k
        <5>1. j \in 1..(merger.k - 1)
          BY <2>2, <4>2
        <5>2. Order[j] \in Repos
          BY <2>2, Places
        <5> QED
          BY <2>1, <3>2, <5>1, <5>2 DEF Merging, Has
      <4> QED
        BY <4>1, <4>2
    <3>5. \A q \in merger'.made : ~(heads[q] \subseteq merger.was[q])
      <4>1. merger.was[r] \subseteq line[r]
        BY <2>1, <2>2 DEF Merging
      <4> QED
        BY <3>1, <4>1 DEF Merging
    <3>6. merger'.k - 1 = merger.k
      BY <2>2, <3>1
    <3> QED
      BY <2>1, <3>1, <3>3, <3>4, <3>5, <3>6 DEF Merging, Has
  <2> QED
    BY <1>5, <2>3, <2>4 DEF MergeCommit
<1>6. CASE MergeFails
  <2>1. /\ merger.pc = "commit" /\ merger' = [merger EXCEPT !.pc = "undo"]
        /\ UNCHANGED <<line, heads>>
    BY <1>6 DEF MergeFails, git, files
  <2>2. /\ merger'.pc = "undo" /\ merger'.was = merger.was /\ merger'.made = merger.made
    BY <2>1, <1>t DEF MergerStates
  <2>3. \E r \in Repos : ~Has(r)
    BY <1>6, Places DEF MergeFails, MayStill, Has, WorktreesTyped
  <2> QED
    BY <2>1, <2>2, <2>3 DEF Merging, Has
<1>7. CASE MergeUnread
  <2> DEFINE r == Order[merger.k]
  <2>1. /\ merger.pc = "commit" /\ merger' = [merger EXCEPT !.pc = "undo", !.unread = TRUE]
        /\ line' = [line EXCEPT ![r] = @ \cup heads[r]] /\ heads' = heads
    BY <1>7 DEF MergeUnread, files
  <2>2. /\ merger'.pc = "undo" /\ merger'.was = merger.was /\ merger'.made = merger.made
        /\ merger'.unread
    BY <2>1, <1>t DEF MergerStates
  <2>3. \A q \in Repos : line[q] \subseteq line'[q]
    BY <2>1, <1>t
  <2> QED
    BY <2>1, <2>2, <2>3 DEF Merging
<1>8. CASE MergeUndo
  <2>1. CASE merger.made = {}
    BY <1>8, <2>1, <1>a DEF MergeUndo, Merging
  <2>2. CASE merger.made # {}
    <3>1. PICK r \in merger.made : /\ line' = [line EXCEPT ![r] = merger.was[r]]
                                   /\ merger' = [merger EXCEPT !.made = @ \ {r}]
      BY <1>8, <2>2 DEF MergeUndo
    <3>2. merger.pc = "undo" /\ heads' = heads
      BY <1>8 DEF MergeUndo, files
    <3>3. /\ merger'.pc = "undo" /\ merger'.was = merger.was /\ merger'.made = merger.made \ {r}
          /\ merger'.unread = merger.unread
      BY <3>1, <3>2, <1>t DEF MergerStates
    <3>4. r \in Repos /\ ~(heads[r] \subseteq merger.was[r])
      BY <3>1, <1>t DEF MergerStates, Merging
    <3>5. line'[r] = merger.was[r] /\ \A q \in Repos : merger.was[q] \subseteq line'[q]
      BY <3>1, <3>2, <3>4, <1>t DEF Merging
    <3>6. ~Has(r)'
      BY <3>2, <3>4, <3>5 DEF Has
    <3>7. \A q \in merger'.made : ~(heads'[q] \subseteq merger'.was[q])
      BY <3>2, <3>3 DEF Merging
    <3> QED
      BY <3>3, <3>4, <3>5, <3>6, <3>7 DEF Merging
  <2> QED
    BY <2>1, <2>2
<1>9. CASE Die
  <2>1. UNCHANGED <<line, heads>> /\ (merger' = merger \/ merger' = MergeAway)
    BY <1>9 DEF Die, git, files
  <2> QED
    BY <1>a, <1>s, <2>1 DEF Merging
<1> QED
  BY <1>1, <1>2, <1>3, <1>4, <1>5, <1>6, <1>7, <1>8, <1>9 DEF WorktreesNext

\* Of a task that is done the heads stay, and its lines grow by them, or by nothing;
\* but for the undo of a merge that is not complete, before or after.
LEMMA LineStep ==
  ASSUME WorktreesTyped, Phases, Merging, [WorktreesNext]_taskVars, status = "done"
  PROVE  /\ status' = "done" /\ heads' = heads
         /\ \/ line' = line
            \/ /\ merger.pc = "commit" /\ merger.k \in Positions
               /\ LET r == Order[merger.k] IN line' = [line EXCEPT ![r] = @ \cup heads[r]]
            \/ /\ (merger.unread /\ raced') \/ \E r \in Repos : ~Has(r)
               /\ \A r \in Repos : line'[r] \subseteq line[r]
<1>t. merger \in MergerStates /\ line \in Heads /\ DOMAIN line = Repos
  BY DEF WorktreesTyped, Heads
<1>1. runner.pc = "idle"
  BY DEF Phases
<1>2. status' = "done" /\ heads' = heads
  BY <1>1 DEF WorktreesNext, Reserve, EnsureTree, RunEndsBadly, RunFails, AgentDone, GiveUp, Edit,
       Commit, Review, CloseBegin, CloseCheck, CloseTree, CloseBranch, taskVars, git, files,
       CollectHead, MergeBegin, MergeCheck, MergeCommit, MergeFails, MergeUnread, MergeUndo, Die
<1>3. CASE MergeUndo
  <2>1. (merger.unread /\ raced') \/ \E r \in Repos : ~Has(r)
    BY <1>3 DEF MergeUndo, Merging
  <2>2. CASE line' # line
    <3>1. PICK r \in merger.made : line' = [line EXCEPT ![r] = merger.was[r]]
      BY <1>3, <2>2 DEF MergeUndo
    <3>2. r \in Repos /\ merger.was[r] \subseteq line[r]
      BY <1>3, <3>1, <1>t DEF MergerStates, Merging, MergeUndo
    <3>3. \A q \in Repos : line'[q] \subseteq line[q]
      BY <3>1, <3>2, <1>t
    <3> QED
      BY <1>2, <2>1, <3>3
  <2> QED
    BY <1>2, <2>2
<1>4. CASE MergeCommit \/ MergeUnread
  BY <1>2, <1>4 DEF MergeCommit, MergeUnread, WorktreesTyped
<1>5. CASE ~(MergeUndo \/ MergeCommit \/ MergeUnread)
  BY <1>2, <1>5 DEF WorktreesNext, Reserve, EnsureTree, RunEndsBadly, RunFails, AgentDone,
       GiveUp, Edit, Commit, Review, CloseBegin, CloseCheck, CloseTree, CloseBranch, taskVars,
       git, files, CollectHead, MergeBegin, MergeCheck, MergeFails, Die
<1> QED
  BY <1>3, <1>4, <1>5

\* A step of the closer, one that may race with it, or one that leaves branches and
\* worktrees alone.
LEMMA Others ==
  ASSUME WorktreesTyped, Phases, [WorktreesNext]_taskVars, ~raced'
  PROVE  /\ ~raced
         /\ \/ CloseBegin \/ CloseCheck \/ CloseTree \/ CloseBranch
            \/ /\ closer' = closer /\ closer.pc = "idle"
               /\ Reserve \/ EnsureTree \/ \E r \in Repos : Edit(r) \/ Commit(r)
            \/ /\ UNCHANGED <<branch, tree, work>> /\ (closer' = closer \/ closer'.pc = "idle")
               /\ status' = status \/ status \in {"in_progress", "review"}
<1>1. raced \in BOOLEAN
  BY DEF WorktreesTyped
<1>2. CASE Reserve \/ EnsureTree \/ \E r \in Repos : Edit(r) \/ Commit(r)
  BY <1>1, <1>2 DEF Reserve, EnsureTree, Edit, Commit, Disturbs
<1>3. CASE MergeUndo
  BY <1>1, <1>3 DEF MergeUndo, files
<1>4. CASE \/ RunEndsBadly \/ AgentDone \/ GiveUp \/ CollectHead
           \/ \E verdict \in {"PASS", "FAIL"} : Review(verdict)
  <2>1. status \in {"in_progress", "review"}
    BY <1>4 DEF RunEndsBadly, AgentDone, GiveUp, CollectHead, Review, Phases
  <2>2. UNCHANGED <<branch, tree, work, closer, raced>>
    BY <1>4 DEF RunEndsBadly, RunFails, AgentDone, GiveUp, CollectHead, Review, git
  <2> QED
    BY <1>1, <2>1, <2>2
<1>6. CASE \/ MergeBegin \/ MergeCheck \/ MergeCommit \/ MergeFails \/ MergeUnread \/ Die
           \/ UNCHANGED taskVars
  BY <1>1, <1>6 DEF MergeBegin, MergeCheck, MergeCommit, MergeFails, MergeUnread, Die, taskVars,
       git, files, CloseAway
<1>5. CASE CloseBegin \/ CloseCheck \/ CloseTree \/ CloseBranch
  BY <1>1, <1>5 DEF CloseBegin, CloseCheck, CloseTree, CloseBranch
<1> QED
  BY <1>2, <1>3, <1>4, <1>5, <1>6 DEF WorktreesNext

(* A close that went past a repository, and was not overtaken, was right to. *)
LEMMA ClosingStep ==
  ASSUME WorktreesTyped, Phases, Merging, Closing, OnBranch, [WorktreesNext]_taskVars, ~raced'
  PROVE  Closing'
<1>t. closer \in CloserStates /\ closer.k \in Nat /\ line \in Heads /\ DOMAIN line = Repos
  BY DEF WorktreesTyped, CloserStates, Heads
<1> DEFINE All(k) == \A j \in 1..(k - 1) : Has(Order[j])
           Open(k) == \E j \in Positions : j >= k /\ ~Has(Order[j])
<1>1. CASE CloseBegin
  BY <1>1 DEF CloseBegin, Closing, files
<1>2. CASE CloseCheck
  <2> DEFINE k == closer.k  r == Order[k]
  <2>1. /\ closer.pc = "check" /\ UNCHANGED <<git, files>> /\ closer.seen = status
        /\ status \in {"done", "failed"} /\ k \in Positions /\ k \in Nat /\ r \in Repos
    BY <1>2, <1>t, Places DEF CloseCheck, Closing, WorktreesTyped
  <2>2. CASE closer' = CloseAway
    BY <2>2 DEF Closing, CloseAway
  <2>3. CASE /\ status = "done" => Merged(r)
             /\ closer' = IF More(k) THEN [closer EXCEPT !.k = @ + 1]
                          ELSE [closer EXCEPT !.pc = "remove", !.k = 1]
    <3>1. /\ closer'.seen = status
          /\ IF More(k) THEN closer'.pc = "check" /\ closer'.k = k + 1 ELSE closer'.pc = "remove"
      BY <2>1, <2>3, <1>t DEF CloserStates
    <3>2. CASE status = "done"
      <4>1. InHeads(r) /\ Has(r)
        <5>1. line[r] \subseteq heads[r]
          BY <2>1, <3>2 DEF Phases
        <5> QED
          BY <2>1, <2>3, <3>2, <5>1 DEF Merged, InHeads, Has, OnBranch
      <4>2. \A j \in 1..k : InHeads(Order[j])
        <5>1. \A j \in 1..(k - 1) : InHeads(Order[j])
          BY <2>1, <3>2 DEF Closing
        <5> QED
          BY <2>1, <4>1, <5>1
      <4>3. (\A j \in 1..k : Has(Order[j])) \/ Open(k + 1)
        <5>1. All(k) \/ Open(k)
          BY <2>1, <3>2 DEF Closing
        <5>2. All(k) => \A j \in 1..k : Has(Order[j])
          BY <2>1, <4>1
        <5>3. \A j \in Positions : j \in Nat /\ (j >= k /\ ~Has(Order[j]) => j >= k + 1)
          BY <2>1, <4>1, Places
        <5> QED
          BY <5>1, <5>2, <5>3
      <4>4. UNCHANGED <<line, branch, heads, status>>
        BY <2>1 DEF git, files
      <4>5. CASE More(k)
        <5>1. closer'.pc = "check" /\ closer'.k = k + 1 /\ (k + 1) - 1 = k
          BY <2>1, <3>1, <4>5
        <5>2. /\ \A q : (InHeads(q)' <=> InHeads(q)) /\ (Has(q)' <=> Has(q))
              /\ status' = "done" /\ closer'.seen = status'
          BY <3>1, <3>2, <4>4 DEF InHeads, Has
        <5>3. (\A j \in 1..k : Has(Order[j])) \/ \E j \in Positions : j >= closer'.k /\ ~Has(Order[j])
          BY <4>3, <5>1
        <5> QED
          BY <4>2, <5>1, <5>2, <5>3 DEF Closing
      <4>6. CASE ~More(k)
        <5>1. \A j \in Positions : j \in 1..k
          BY <2>1, <4>6, Places
        <5>2. \A j \in 1..k : Has(Order[j])
          BY <4>3, <5>1, <2>1
        <5>3. \A q \in Repos : InHeads(q) /\ Has(q)
          BY <4>2, <5>1, <5>2, Places
        <5> QED
          BY <2>1, <3>1, <3>2, <4>4, <4>6, <5>3 DEF Closing, InHeads, Has
      <4> QED
        BY <4>5, <4>6
    <3>3. CASE status # "done"
      BY <2>1, <3>1, <3>3 DEF Closing, files
    <3> QED
      BY <3>2, <3>3
  <2> QED
    BY <1>2, <2>1, <2>2, <2>3 DEF CloseCheck
<1>3. CASE CloseTree
  <2>1. /\ closer.pc = "remove" /\ UNCHANGED <<line, branch, files>>
        /\ \/ closer' = CloseAway
           \/ closer' = [closer EXCEPT !.pc = "branch"]
    BY <1>3 DEF CloseTree
  <2>2. closer' = CloseAway \/ (closer'.pc = "branch" /\ closer'.seen = closer.seen)
    BY <2>1, <1>t DEF CloserStates
  <2> QED
    BY <2>1, <2>2 DEF Closing, CloseAway, files, InHeads, Has
<1>4. CASE CloseBranch
  <2>1. /\ closer.pc = "branch" /\ UNCHANGED <<line, files>>
        /\ branch' = branch \/ branch' = [branch EXCEPT ![Order[closer.k]] = None]
        /\ \/ closer' = CloseAway
           \/ closer' = [closer EXCEPT !.pc = "remove", !.k = @ + 1]
    BY <1>4 DEF CloseBranch
  <2>2. closer' = CloseAway \/ (closer'.pc = "remove" /\ closer'.seen = closer.seen)
    BY <2>1, <1>t DEF CloserStates
  <2>3. \A q \in Repos : branch'[q] = branch[q] \/ branch'[q] = None
    BY <2>1 DEF WorktreesTyped, SomeHeads
  <2> QED
    BY <2>1, <2>2, <2>3 DEF Closing, CloseAway, files, InHeads, Has
\* Somebody else's step, while the task is being closed.
<1>5. CASE closer.pc # "idle" /\ closer' = closer /\ UNCHANGED branch
  <2>1. status' = status /\ status \in {"done", "failed"} /\ closer.seen = status
    BY <1>5, Others DEF Closing, CloseBegin, CloseCheck, CloseTree, CloseBranch, files
  <2>2. CASE status = "failed"
    BY <1>5, <2>1, <2>2 DEF Closing
  <2>3. CASE status = "done"
    <3>1. heads' = heads /\ \A q : InHeads(q)' <=> InHeads(q)
      BY <1>5, <2>3, LineStep DEF InHeads
    <3>2. CASE line' = line
      BY <1>5, <2>1, <2>3, <3>1, <3>2 DEF Closing, Has, InHeads
    <3>3. CASE /\ merger.pc = "commit" /\ merger.k \in Positions
               /\ LET r == Order[merger.k] IN line' = [line EXCEPT ![r] = @ \cup heads[r]]
      <4>m. PICK m \in Positions : m = merger.k
        BY <3>3
      <4>1. /\ \A q \in Repos : Has(q) => Has(q)'
            /\ Order[m] \in Repos /\ Has(Order[m])'
        <5>1. Order[m] \in Repos
          BY <4>m, Places
        <5>2. /\ line'[Order[m]] = line[Order[m]] \cup heads[Order[m]]
              /\ \A q \in Repos : line[q] \subseteq line'[q]
          BY <3>3, <4>m, <5>1, <1>t
        <5>3. heads' = heads
          BY <3>1
        <5>4. \A q \in Repos : heads'[q] = heads[q] /\ line[q] \subseteq line'[q]
          BY <5>2, <5>3
        <5>5. heads'[Order[m]] \subseteq line'[Order[m]]
          BY <5>2, <5>3
        <5> QED
          BY <5>1, <5>4, <5>5 DEF Has
      <4>2. \A j \in Positions \ {m} : Has(Order[j])' <=> Has(Order[j])
        <5>1. \A j \in Positions \ {m} : Order[j] # Order[m]
          BY <4>m, OrderAssumption DEF Positions
        <5> QED
          BY <3>1, <3>3, <4>m, <5>1, <1>t, Places DEF Has
      <4>3. \A j \in 1..(m - 1) : Has(Order[j])
        BY <3>3, <4>m DEF Merging
      <4>4. CASE closer.pc # "check"
        BY <1>5, <2>1, <2>3, <3>1, <4>1, <4>4 DEF Closing
      <4>5. CASE closer.pc = "check"
        <5> DEFINE k == closer.k
        <5>1. /\ k \in Positions /\ k \in Nat /\ m \in Nat
              /\ \A j \in 1..(k - 1) : j \in Positions /\ Order[j] \in Repos
          <6>1. k \in Positions /\ k \in Nat
            BY <1>5, <1>t DEF WorktreesTyped
          <6>2. m \in Nat
            BY <4>m, Places
          <6>3. \A j \in 1..(k - 1) : j \in 1..k
            BY <6>1
          <6> QED
            BY <6>1, <6>2, <6>3, Places
        <5>2. CASE All(k)
          BY <1>5, <2>1, <2>3, <3>1, <4>1, <4>5, <5>1, <5>2 DEF Closing, InHeads
        <5>3. CASE Open(k)
          <6>1. PICK j \in Positions : j >= k /\ ~Has(Order[j])
            BY <5>3
          <6>2. CASE j # m
            BY <1>5, <2>1, <2>3, <3>1, <4>2, <4>5, <6>1, <6>2 DEF Closing, InHeads
          <6>3. CASE j = m
            <7>1. \A i \in 1..(k - 1) : i \in 1..(m - 1)
              BY <5>1, <6>1, <6>3
            <7>2. \A i \in 1..(k - 1) : Has(Order[i])'
              BY <4>1, <4>3, <5>1, <7>1
            <7> QED
              BY <1>5, <2>1, <2>3, <3>1, <4>5, <7>2 DEF Closing, InHeads
          <6> QED
            BY <6>2, <6>3
        <5> QED
          BY <1>5, <2>3, <4>5, <5>2, <5>3 DEF Closing
      <4> QED
        BY <4>4, <4>5
    <3>4. CASE (\E r \in Repos : ~Has(r)) /\ \A r \in Repos : line'[r] \subseteq line[r]
      <4>1. PICK j \in Positions : ~Has(Order[j])
        BY <3>4, Places
      <4>2. closer.pc = "check"
        BY <1>5, <1>t, <2>3, <3>4 DEF Closing, CloserStates
      <4>3. Open(closer.k)
        <5>1. ~All(closer.k) => Open(closer.k)
          BY <1>5, <2>3, <4>2 DEF Closing
        <5>2. j \in Nat /\ j >= 1
          BY Places
        <5>3. All(closer.k) => j >= closer.k
          BY <4>1, <5>2, <1>t
        <5> QED
          BY <4>1, <5>1, <5>3
      <4>4. PICK i \in Positions : i >= closer.k /\ ~Has(Order[i])
        BY <4>3
      <4>5. ~Has(Order[i])'
        BY <3>1, <3>4, <4>4, Places DEF Has
      <4> QED
        BY <1>5, <2>1, <2>3, <3>1, <4>2, <4>4, <4>5 DEF Closing, InHeads
    <3> QED
      BY <2>3, <3>2, <3>3, <3>4, LineStep
  <2> QED
    BY <2>1, <2>2, <2>3
<1>6. CASE closer'.pc = "idle"
  BY <1>6 DEF Closing
<1> QED
  BY <1>1, <1>2, <1>3, <1>4, <1>5, <1>6, Others

(* A task that is done has its heads on its branches or in its lines. *)
LEMMA OnBranchStep ==
  ASSUME WorktreesTyped, Phases, Merging, Closing, OnBranch, [WorktreesNext]_taskVars, ~raced'
  PROVE  OnBranch'
<1>t. /\ branch \in SomeHeads /\ line \in Heads /\ DOMAIN line = Repos /\ DOMAIN branch = Repos
  BY DEF WorktreesTyped, Heads, SomeHeads
<1>1. CASE status # "done"
  <2> SUFFICES ASSUME status' = "done" PROVE OnBranch'
    BY DEF OnBranch
  <2>1. PICK verdict \in {"PASS", "FAIL"} : Review(verdict)
    BY <1>1 DEF WorktreesNext, Reserve, EnsureTree, RunEndsBadly, RunFails, AgentDone, GiveUp,
         Edit, Commit, CloseBegin, CloseCheck, CloseTree, CloseBranch, taskVars, git, files,
         CollectHead, MergeBegin, MergeCheck, MergeCommit, MergeFails, MergeUnread, MergeUndo, Die
  <2>2. heads \in Heads /\ UNCHANGED <<branch, heads>> /\ \A r \in Repos : branch[r] = heads[r]
    BY <2>1 DEF Review, Phases, WorktreesTyped, git
  <2>3. \A r \in Repos : heads[r] # None
    BY <2>2, EditSets DEF Heads
  <2> QED
    BY <2>2, <2>3 DEF OnBranch
<1>2. CASE status = "done"
  <2>1. heads' = heads /\ heads \in Heads
    BY <1>2, LineStep DEF WorktreesTyped, Phases
  <2>2. ASSUME UNCHANGED branch PROVE OnBranch'
    <3>1. CASE \A r \in Repos : branch[r] # None
      BY <1>2, <2>1, <2>2, <3>1 DEF OnBranch
    <3>2. CASE \E r \in Repos : branch[r] = None
      <4>1. \A q \in Repos : Has(q)
        BY <1>2, <3>2 DEF OnBranch
      <4>2. \A q \in Repos : line[q] \subseteq line'[q]
        BY <1>2, <4>1, <1>t, LineStep
      <4>3. \A q \in Repos : Has(q)'
        BY <2>1, <4>1, <4>2 DEF Has
      <4> QED
        BY <1>2, <2>1, <2>2, <4>3 DEF OnBranch
    <3> QED
      BY <3>1, <3>2
  <2>3. CASE CloseBranch
    <3>1. /\ UNCHANGED line
          /\ branch' = branch \/ branch' = [branch EXCEPT ![Order[closer.k]] = None]
      BY <2>3 DEF CloseBranch
    <3>2. \A q \in Repos : Has(q)
      BY <1>2, <2>3 DEF CloseBranch, Closing
    <3>3. \A q \in Repos : Has(q)'
      BY <2>1, <3>1, <3>2 DEF Has
    <3>4. \A r \in Repos : branch'[r] = branch[r] \/ branch'[r] = None
      BY <3>1, <1>t
    <3> QED
      BY <1>2, <2>1, <3>3, <3>4 DEF OnBranch
  <2>4. ASSUME NEW r \in Repos, Commit(r) PROVE OnBranch'
    <3>1. /\ branch' = [branch EXCEPT ![r] = @ \cup tree[r]] /\ tree[r] # None
          /\ UNCHANGED line
      BY <2>4 DEF Commit
    <3>2. branch[r] # None /\ tree[r] \in Edits /\ branch[r] \in Edits
      BY <3>1 DEF Phases, WorktreesTyped, SomeHeads
    <3>3. branch'[r] # None /\ branch[r] \subseteq branch'[r]
      BY <3>1, <3>2, <1>t, EditSets
    <3>4. \A q \in Repos \ {r} : branch'[q] = branch[q]
      BY <3>1, <1>t
    <3>5. \A q \in Repos : Has(q)' <=> Has(q)
      BY <2>1, <3>1 DEF Has
    <3> QED
      BY <1>2, <2>1, <3>2, <3>3, <3>4, <3>5 DEF OnBranch
  <2>5. CASE CloseBegin \/ CloseCheck \/ CloseTree \/ Reserve \/ EnsureTree
             \/ \E r \in Repos : Edit(r)
    BY <1>2, <2>2, <2>5 DEF CloseBegin, CloseCheck, CloseTree, Reserve, EnsureTree, Edit, Phases,
         git
  <2> QED
    BY <2>2, <2>3, <2>4, <2>5, Others
<1> QED
  BY <1>1, <1>2

(* No work is outside of the line, the branch and the worktree. *)
LEMMA KeptStep ==
  ASSUME WorktreesTyped, Phases, Merging, Closing, OnBranch, Kept, [WorktreesNext]_taskVars,
         ~raced'
  PROVE  Kept'
<1>t. /\ branch \in SomeHeads /\ tree \in SomeHeads /\ line \in Heads /\ work \in Heads
      /\ DOMAIN line = Repos /\ DOMAIN branch = Repos /\ DOMAIN tree = Repos
      /\ DOMAIN work = Repos
  BY DEF WorktreesTyped, Heads, SomeHeads
<1>o. Of(None) = {} /\ \A a \in Edits : Of(a) = a
  BY EditSets DEF Of
<1> DEFINE There(r) == line[r] \cup Of(branch[r]) \cup Of(tree[r])
\* The line is the only one of the three that anything is taken from.
<1>1. ASSUME UNCHANGED <<branch, tree, work>> PROVE Kept'
  <2>1. CASE \A r \in Repos : line[r] \subseteq line'[r]
    BY <1>1, <2>1 DEF Kept
  <2>2. CASE status # "done"
    <3>1. line' = line
      BY <2>2 DEF WorktreesNext, Reserve, EnsureTree, RunEndsBadly, RunFails, AgentDone, GiveUp,
         Edit, Commit, Review, CloseBegin, CloseCheck, CloseTree, CloseBranch, taskVars, git,
         files, CollectHead, MergeBegin, MergeCheck, MergeCommit, MergeFails, MergeUnread,
         MergeUndo, Die, Phases
    <3> QED
      BY <1>1, <3>1 DEF Kept
  <2>3. CASE status = "done" /\ \E r \in Repos : ~Has(r)
    <3>1. \A r \in Repos : branch[r] # None /\ heads[r] \subseteq branch[r]
      BY <2>3 DEF OnBranch
    <3>2. \A r \in Repos : line[r] \subseteq heads[r]
      BY <2>3 DEF Phases
    <3>3. \A r \in Repos : Of(branch[r]) = branch[r]
      BY <3>1 DEF Of
    <3> QED
      BY <1>1, <3>1, <3>2, <3>3 DEF Kept
  <2>4. CASE status = "done" /\ ~ \E r \in Repos : ~Has(r)
    <3>1. \A r \in Repos : line[r] \subseteq line'[r]
      BY <2>4, <1>t, LineStep
    <3> QED
      BY <2>1, <3>1
  <2> QED
    BY <2>2, <2>3, <2>4
<1>2. CASE Reserve \/ CloseBegin \/ CloseCheck
  BY <1>1, <1>2 DEF Reserve, CloseBegin, CloseCheck, git
<1>3. CASE EnsureTree
  <2> DEFINE r == Order[runner.k]
  <2>1. /\ r \in Repos /\ UNCHANGED <<line, work>>
        /\ branch' = [branch EXCEPT ![r] = IF @ = None THEN line[r] ELSE @]
        /\ tree' = [tree EXCEPT ![r] = IF @ = None THEN {} ELSE @]
    BY <1>3, Places DEF EnsureTree, WorktreesTyped
  <2>2. \A q \in Repos : /\ branch'[q] = branch[q] \/ branch[q] = None
                         /\ tree'[q] = tree[q] \/ tree[q] = None
    BY <2>1, <1>t
  <2> QED
    BY <2>1, <2>2, <1>o DEF Kept
<1>4. ASSUME NEW r \in Repos, Edit(r) PROVE Kept'
  <2>1. /\ UNCHANGED <<line, branch>> /\ tree[r] \in Edits /\ {edits + 1} \in Edits
        /\ tree' = [tree EXCEPT ![r] = @ \cup {edits + 1}]
        /\ work' = [work EXCEPT ![r] = @ \cup {edits + 1}]
    <3>1. edits + 1 \in 1..MaxEdits
      BY <1>4, WorktreeAssumption DEF Edit, WorktreesTyped
    <3> QED
      BY <1>4, <1>t, <3>1 DEF Edit, SomeHeads, Edits
  <2>2. Of(tree'[r]) = Of(tree[r]) \cup {edits + 1} /\ work'[r] = work[r] \cup {edits + 1}
    BY <2>1, <1>t, <1>o, EditSets
  <2>3. \A q \in Repos \ {r} : tree'[q] = tree[q] /\ work'[q] = work[q]
    BY <2>1, <1>t
  <2> QED
    BY <2>1, <2>2, <2>3 DEF Kept
<1>5. ASSUME NEW r \in Repos, Commit(r) PROVE Kept'
  <2>1. /\ UNCHANGED <<line, work>> /\ tree[r] # None
        /\ branch' = [branch EXCEPT ![r] = @ \cup tree[r]] /\ tree' = [tree EXCEPT ![r] = {}]
    BY <1>5 DEF Commit
  <2>2. tree[r] \in Edits /\ branch[r] \in Edits
    BY <2>1, <1>t DEF Phases, SomeHeads
  <2>3. Of(branch'[r]) = Of(branch[r]) \cup Of(tree[r]) /\ Of(tree'[r]) = {}
    BY <2>1, <2>2, <1>t, <1>o, EditSets
  <2>4. \A q \in Repos \ {r} : tree'[q] = tree[q] /\ branch'[q] = branch[q]
    BY <2>1, <1>t
  <2> QED
    BY <2>1, <2>3, <2>4 DEF Kept
<1>6. CASE CloseTree
  <2> DEFINE r == Order[closer.k]
  <2>1. /\ r \in Repos /\ UNCHANGED <<line, branch>>
        /\ \/ UNCHANGED <<tree, work>>
           \/ /\ tree' = [tree EXCEPT ![r] = None]
              /\ \/ tree[r] \in {None, {}} /\ work' = work
                 \/ tree[r] # None /\ work' = [work EXCEPT ![r] = @ \ tree[r]]
    BY <1>6, Places DEF CloseTree, WorktreesTyped
  <2>2. \A q \in Repos \ {r} : tree'[q] = tree[q] /\ work'[q] = work[q]
    BY <2>1, <1>t
  <2>3. work'[r] \subseteq line[r] \cup Of(branch[r]) \cup Of(tree'[r])
    <3>1. work[r] \subseteq There(r)
      BY <2>1 DEF Kept
    <3>2. tree[r] = None \/ tree[r] \in Edits
      BY <2>1, <1>t DEF SomeHeads
    <3>3. CASE UNCHANGED <<tree, work>>
      BY <3>1, <3>3
    <3>4. CASE tree[r] \in {None, {}} /\ work' = work
      BY <3>1, <3>4, <1>o, EditSets
    <3>5. CASE tree[r] # None /\ work' = [work EXCEPT ![r] = @ \ tree[r]]
      BY <2>1, <3>1, <3>2, <3>5, <1>o, <1>t
    <3> QED
      BY <2>1, <3>3, <3>4, <3>5
  <2> QED
    BY <2>1, <2>2, <2>3 DEF Kept
<1>7. CASE CloseBranch
  <2> DEFINE r == Order[closer.k]
  <2>1. /\ closer.pc = "branch" /\ r \in Repos /\ UNCHANGED <<line, tree>>
        /\ \/ UNCHANGED <<branch, work>>
           \/ /\ branch' = [branch EXCEPT ![r] = None]
              /\ work' = IF closer.seen = "failed" /\ branch[r] # None
                         THEN [work EXCEPT ![r] = @ \ branch[r]] ELSE work
    BY <1>7, Places DEF CloseBranch, WorktreesTyped
  <2>2. \A q \in Repos \ {r} : branch'[q] = branch[q] /\ work'[q] = work[q]
    BY <2>1, <1>t
  <2>3. work'[r] \subseteq line[r] \cup Of(branch'[r]) \cup Of(tree[r])
    <3>1. work[r] \subseteq There(r)
      BY <2>1 DEF Kept
    <3>2. branch[r] = None \/ branch[r] \in Edits
      BY <2>1, <1>t DEF SomeHeads
    <3>3. CASE UNCHANGED <<branch, work>>
      BY <3>1, <3>3
    <3>4. CASE branch[r] # None /\ work' = [work EXCEPT ![r] = @ \ branch[r]]
      BY <2>1, <3>1, <3>2, <3>4, <1>o, <1>t
    <3>5. CASE branch[r] = None /\ work' = work
      BY <2>1, <3>1, <3>5, <1>o
    <3>6. CASE closer.seen # "failed" /\ work' = work
      <4>1. status = "done"
        BY <2>1, <3>6 DEF Closing
      <4>2. InHeads(r) /\ Has(r)
        BY <2>1, <4>1 DEF Closing
      <4>3. Of(branch[r]) \subseteq line[r]
        BY <3>2, <4>2, <1>o DEF InHeads, Has
      <4> QED
        BY <2>1, <3>1, <3>6, <4>3
    <3> QED
      BY <2>1, <3>3, <3>4, <3>5, <3>6
  <2> QED
    BY <2>1, <2>2, <2>3 DEF Kept
<1> QED
  BY <1>1, <1>2, <1>3, <1>4, <1>5, <1>6, <1>7, Others

(* The invariant is kept by every step. *)
LEMMA WorktreesStep == WorktreesInv /\ [WorktreesNext]_taskVars => WorktreesInv'
  BY TypedStep, PhasesStep, MergingStep, ClosingStep, OnBranchStep, KeptStep, Others
     DEF WorktreesInv

(* It holds of a task that was just started. *)
LEMMA WorktreesFirst == WorktreesInit => WorktreesInv
<1> SUFFICES ASSUME WorktreesInit PROVE WorktreesInv
  OBVIOUS
<1>1. line \in Heads /\ branch \in SomeHeads /\ tree \in SomeHeads /\ work \in Heads
  BY EditSets DEF WorktreesInit, Heads, SomeHeads
<1>2. [r \in Repos |-> {}] \in Heads
  BY EditSets DEF Heads
<1>3. runner \in RunnerStates /\ merger \in MergerStates /\ closer \in CloserStates
  BY <1>2 DEF WorktreesInit, Away, MergeAway, CloseAway, RunnerStates, MergerStates, CloserStates
<1>4. runner.pc = "idle" /\ merger.pc = "idle" /\ closer.pc = "idle"
  BY DEF WorktreesInit, Away, MergeAway, CloseAway
<1>6. /\ status = "assigned" /\ heads = None /\ review = None /\ raced = FALSE
      /\ edits = 0 /\ deaths = 0 /\ 0 \in 0..MaxEdits
  BY WorktreeAssumption DEF WorktreesInit
<1>5. WorktreesTyped
  BY <1>1, <1>3, <1>4, <1>6 DEF WorktreesTyped
<1> QED
  BY <1>4, <1>5 DEF WorktreesInit, WorktreesInv, Phases, Merging, Closing, OnBranch, Kept, Away,
     MergeAway, CloseAway

(* Being integrated, as close computes it, is what it should be. *)
LEMMA IntegratedIs ==
  ASSUME WorktreesTyped
  PROVE  Integrated <=> heads # None /\ \A r \in Repos : Has(r)
<1>1. \A p \in Derived(review, heads) : p.kind = "integration" =>
        p = Proof("integration", heads, TRUE) /\ heads # None
  BY DEF Derived, ReviewProof, IntegrationProof, Proof
<1>2. heads # None => /\ Proof("integration", heads, TRUE) \in Derived(review, heads)
                      /\ Proof("integration", heads, TRUE).kind = "integration"
  BY DEF Derived, IntegrationProof, Proof
<1> DEFINE verdict == Evaluated(Proof("integration", heads, TRUE), review, heads, tree, branch, line)
<1>3. Judged("integration") = IF heads = None THEN {} ELSE {verdict}
  BY <1>1, <1>2 DEF Judged
<1>4. verdict = FromPredicate(IntegrationVerdict(heads, line))
  BY DEF Evaluated, Decay, Proof
<1>5. heads # None => (verdict = "live" <=> \A r \in Repos : Has(r))
  BY <1>4 DEF FromPredicate, IntegrationVerdict, Has
<1> QED
  BY <1>3, <1>5 DEF Integrated

(* The invariant says what the bundle must. *)
LEMMA BundleIs ==
  ASSUME WorktreesTyped
  PROVE  BundleFollows
<1> DEFINE proofs == Derived(review, heads)
           mine(kind) == {q \in proofs : q.kind = kind}
<1>1. \A p \in proofs : p.kind = "integration" =>
        p = Proof("integration", heads, TRUE) /\ heads # None
  BY DEF Derived, ReviewProof, IntegrationProof, Proof
<1>2. heads # None => Proof("integration", heads, TRUE) \in mine("integration")
  BY DEF Derived, IntegrationProof, Proof
<1>3. Integrated <=> Verdicts("integration", proofs, line) = {"live"}
  <2>1. CASE heads = None
    <3>1. mine("integration") = {} /\ ~Integrated
      BY <1>1, <2>1, IntegratedIs
    <3>2. Verdicts("integration", proofs, line) \in {{}, {"inconclusive"}}
      BY <3>1 DEF Verdicts
    <3> QED
      BY <3>1, <3>2
  <2>2. CASE heads # None
    <3> DEFINE verdict == Integrity(Exported(Proof("integration", heads, TRUE)), line)
    <3>1. Verdicts("integration", proofs, line) = {verdict}
      BY <1>1, <1>2, <2>2 DEF Verdicts
    <3>2. line # None
      BY EditSets DEF WorktreesTyped
    <3>3. verdict = "live" <=> \A r \in Repos : Has(r)
      BY <2>2, <3>2 DEF Integrity, Exported, Proof, BoundTo, Has
    <3> QED
      BY <2>2, <3>1, <3>3, IntegratedIs
  <2> QED
    BY <2>1, <2>2
<1>4. ASSUME Judged("review") = {"live"}
      PROVE  Verdicts("review", proofs, branch) = {"live"}
  <2>1. PICK p \in mine("review") : Evaluated(p, review, heads, tree, branch, line) = "live"
    BY <1>4 DEF Judged
  <2>2. \A q \in mine("review") : q = p
    BY <2>1 DEF Derived, ReviewProof, IntegrationProof, Proof
  <2>3. p.kind = "review" /\ p.pinned = heads
    BY <2>1 DEF Derived, ReviewProof, IntegrationProof, Proof
  <2>4. ReviewVerdict(p, review, heads, tree, branch) = "yes"
    BY <2>1, <2>3 DEF Evaluated, Decay, FromPredicate, ReviewVerdict
  <2>5. heads # None /\ \A r \in Repos : branch[r] = heads[r]
    BY <2>4 DEF ReviewVerdict, ReviewFiles
  <2>6. Integrity(Exported(p), branch) = "live"
    BY <2>3, <2>5 DEF Integrity, Exported, BoundTo
  <2>7. Verdicts("review", proofs, branch) = {Integrity(Exported(p), branch)}
    BY <2>1, <2>2 DEF Verdicts
  <2> QED
    BY <2>6, <2>7
<1> QED
  BY <1>3, <1>4 DEF BundleFollows

(* A bundle that is read far away, with the heads of the line, says that a task is
   integrated exactly when the workspace does, and does not call a live review decayed
   (BundleFollows): for any repositories. *)
THEOREM BundlesFollow == WorktreesSpec => []BundleFollows
<1>1. WorktreesInv => BundleFollows
  BY BundleIs DEF WorktreesInv
<1> QED
  BY <1>1, WorktreesFirst, WorktreesStep, PTL DEF WorktreesSpec

(* No step takes work away while a process that knows of it runs. *)
LEMMA Sticks ==
  ASSUME WorktreesTyped, WorktreesTyped', Phases, Merging, [WorktreesNext]_taskVars,
         Integrated, heads' = heads, ~merger.unread
  PROVE  Integrated'
<1>1. heads # None /\ \A r \in Repos : Has(r)
  BY IntegratedIs
<1>2. \A r \in Repos : line[r] \subseteq line'[r]
  <2>1. CASE status = "done"
    <3>1. line \in Heads
      BY DEF WorktreesTyped
    <3> QED
      BY <1>1, <2>1, <3>1, LineStep DEF Heads
  <2>2. CASE status # "done"
    BY <2>2 DEF Phases
  <2> QED
    BY <2>1, <2>2
<1>3. \A r \in Repos : Has(r)'
  BY <1>1, <1>2 DEF Has
<1>4. (Integrated <=> heads # None /\ \A r \in Repos : Has(r))'
  BY IntegratedIs, PTL
<1> QED
  BY <1>1, <1>3, <1>4

(* However close, merge, undo and work by hand interleave, the commits of a task stay
   reachable, and what is integrated stays so until other heads are recorded (WorkStays). *)
THEOREM WorkIsNotLost == WorktreesSpec => WorkStays
<1>1. WorktreesInv => WorkIsKept
  <2> SUFFICES ASSUME WorktreesInv PROVE WorkIsKept
    OBVIOUS
  <2>1. raced \in BOOLEAN
    BY DEF WorktreesInv, WorktreesTyped
  <2>2. ~raced => Kept
    BY <2>1 DEF WorktreesInv
  <2> QED
    BY <2>2 DEF WorkIsKept, Kept, Of
<1>2. WorktreesInv /\ WorktreesInv' /\ [WorktreesNext]_taskVars
        => [Integrated /\ heads' = heads /\ ~merger.unread => Integrated']_taskVars
  BY Sticks DEF WorktreesInv
<1>3. WorktreesInv' => WorkIsKept'
  BY <1>1, PTL
<1>4. WorktreesInv /\ WorktreesInv' /\ [WorktreesNext]_taskVars => [WorkIsKept']_taskVars
  BY <1>3
<1> QED
  BY <1>2, <1>4, WorktreesFirst, WorktreesStep, PTL
     DEF WorktreesSpec, WorkStays, IntegrationSticks

-----------------------------------------------------------------------------
(* Merges into lines (LineMerge) *)

(* What heads, plans and processes may be. *)
CommitSets == SUBSET Commits
PlanRows == [source : CommitSets, original : CommitSets]
LineRows == [Index -> CommitSets]
StagedRows == [Index -> CommitSets \cup {None}]
ProcStates ==
    [pc : Pcs, k : Nat, kind : Kinds, target : Lines \cup {None},
     source : Tasks \cup Lines \cup {None}, mode : Modes, i : Nat, plan : Seq(PlanRows),
     committed : StagedRows, whole : BOOLEAN]

(* The command holds its lock. *)
Held(p) == proc[p].pc \notin {"idle", "wait"}

(* The type invariant. *)
MergeTyped ==
    /\ head \in [Lines -> LineRows] /\ staged \in [Lines -> StagedRows]
    /\ remote \in [Lines -> LineRows] /\ lock \in [Lines -> Procs \cup {None}]
    /\ proc \in [Procs -> ProcStates]
    /\ started \in 0..MaxMerges /\ outside \in 0..MaxOutside /\ crashes \in Nat
    /\ torn \subseteq Lines
    /\ \A p \in Procs : proc[p].pc # "idle" =>
         /\ proc[p].target \in Lines /\ proc[p].k \in Merges
         /\ proc[p].source \in IF proc[p].kind = "task" THEN Tasks ELSE Lines

(* How far a command is: the plan has a row for every repository it has read. *)
Progress(p) ==
    /\ Held(p) => /\ proc[p].i \in Index
                  /\ Len(proc[p].plan) = IF proc[p].pc = "plan" THEN proc[p].i - 1 ELSE Len(Order)
    /\ proc[p].pc = "wait" => proc[p].plan = <<>>
    /\ proc[p].pc \in {"wait", "plan", "stage"} => \A j \in Index : proc[p].committed[j] = None

(* Lock and holder belong together. *)
Locks ==
    /\ \A p \in Procs : Held(p) => lock[Here(p)] = p
    /\ \A l \in Lines : lock[l] # None => Held(lock[l]) /\ Here(lock[l]) = l

(* Nothing was pushed that an undo could still take back. *)
Keeps(p) ==
    proc[p].pc \in {"plan", "stage", "commit", "undo"} =>
        \A j \in DOMAIN proc[p].plan : remote[Here(p)][j] \subseteq proc[p].plan[j].original

(* Two heads have the same tasks. *)
Same(a, b) == a \cap Tasks = b \cap Tasks
Whole(rows) == \A i, j \in Index : Same(rows[i], rows[j])
(* A line is clean when nothing is staged and its repositories have the same tasks. *)
Clean(l) == (\A j \in Index : staged[l][j] = None) /\ Whole(head[l])
(* What the plan says of source and target. *)
Sources(p) == [j \in Index |-> proc[p].plan[j].source]
Originals(p) == [j \in Index |-> proc[p].plan[j].original]
(* A repository as it was read, with its merge staged (or needless), and with it done. *)
AsRead(p, j) == Same(head[Here(p)][j], proc[p].plan[j].original)
Pending(p, j) ==
    LET s == staged[Here(p)][j]  source == proc[p].plan[j].source
    IN s = source \/ (s = None /\ source \subseteq head[Here(p)][j])
Added(p, j) ==
    /\ staged[Here(p)][j] = None
    /\ Same(head[Here(p)][j], proc[p].plan[j].original \cup proc[p].plan[j].source)

(* What the line of a command looks like, phase by phase, repository by repository. *)
PhaseHolds(p) ==
    LET i == proc[p].i  c == proc[p].committed IN
    /\ proc[p].pc = "plan" =>
         /\ Clean(Here(p))
         /\ \A j \in 1..(i - 1) :
              /\ AsRead(p, j)
              /\ proc[p].kind = "task" => proc[p].plan[j].source = {proc[p].source}
    /\ proc[p].pc = "stage" =>
         /\ Whole(Sources(p)) /\ Whole(Originals(p))
         /\ \A j \in Index : /\ AsRead(p, j)
                             /\ IF j < i THEN Pending(p, j) ELSE staged[Here(p)][j] = None
    /\ proc[p].pc = "commit" =>
         /\ Whole(Sources(p)) /\ Whole(Originals(p))
         /\ \A j \in Index :
              IF j < i THEN Added(p, j) /\ (c[j] = None => AsRead(p, j))
              ELSE AsRead(p, j) /\ Pending(p, j) /\ c[j] = None
    /\ proc[p].pc = "push" => Clean(Here(p))
    /\ proc[p].pc = "undo" =>
         /\ Whole(Originals(p))
         /\ \A j \in Index :
              IF j > i THEN AsRead(p, j) /\ staged[Here(p)][j] = None
              ELSE IF c[j] = None THEN AsRead(p, j) ELSE staged[Here(p)][j] = None

(* A line that is not torn is what its command takes it for, or clean when at rest. *)
Sound(p) == Held(p) /\ Here(p) \notin torn => PhaseHolds(p)
Rest(l) == lock[l] = None /\ l \notin torn => Clean(l)

(* The inductive invariant. *)
MergeInv ==
    /\ MergeTyped /\ Locks /\ PushedIsKept
    /\ \A p \in Procs : Progress(p) /\ Keeps(p) /\ Sound(p)
    /\ \A l \in Lines : Rest(l)

(* The commits of tasks, merges and hands are apart, and closed under merging. *)
LEMMA Sets ==
  /\ Len(Order) \in Nat /\ Len(Order) >= 1 /\ Index \subseteq Nat /\ 1 \in Index
  /\ {} \in CommitSets /\ None \notin CommitSets
  /\ \A a, b \in CommitSets : a \cup b \in CommitSets
  /\ \A t \in Tasks : {t} \in CommitSets /\ t \notin Merges \cup ByHand
  /\ \A k \in Merges \cup ByHand : {k} \in CommitSets /\ k \notin Tasks
  BY OrderAssumption, LineAssumption DEF CommitSets, Commits, Index

\* What holds of a command depends on its own state and on its line.
LEMMA Unmoved ==
  ASSUME NEW q \in Procs, proc'[q] = proc[q],
         Held(q) => /\ head'[Here(q)] = head[Here(q)] /\ staged'[Here(q)] = staged[Here(q)]
                    /\ remote'[Here(q)] = remote[Here(q)]
                    /\ (Here(q) \in torn' <=> Here(q) \in torn)
  PROVE  /\ Progress(q) => Progress(q)'
         /\ Keeps(q) => Keeps(q)'
         /\ Sound(q) => Sound(q)'
<1>1. Held(q)' = Held(q) /\ Here(q)' = Here(q)
  BY DEF Held, Here
<1>2. Progress(q) => Progress(q)'
  BY <1>1 DEF Progress
<1>3. CASE Held(q)
  <2>2. Keeps(q) => Keeps(q)'
    BY <1>1, <1>3 DEF Keeps
  <2>3. PhaseHolds(q)' <=> PhaseHolds(q)
    <3>1. Clean(Here(q))' <=> Clean(Here(q))
      BY <1>1, <1>3 DEF Clean
    <3>2. \A j : /\ AsRead(q, j)' <=> AsRead(q, j)
                 /\ Pending(q, j)' <=> Pending(q, j)
                 /\ Added(q, j)' <=> Added(q, j)
                 /\ staged'[Here(q)'][j] = staged[Here(q)][j]
      BY <1>1, <1>3 DEF AsRead, Pending, Added
    <3>3. (Whole(Sources(q))' <=> Whole(Sources(q))) /\ (Whole(Originals(q))' <=> Whole(Originals(q)))
      BY <1>1 DEF Sources, Originals
    <3> QED
      BY <1>1, <3>1, <3>2, <3>3 DEF PhaseHolds
  <2> QED
    BY <1>1, <1>2, <1>3, <2>2, <2>3 DEF Sound
<1>4. CASE ~Held(q)
  BY <1>1, <1>2, <1>4 DEF Sound, Keeps, Held
<1> QED
  BY <1>3, <1>4

\* The other commands, and the other lines, see nothing of a step in the line of p.
LEMMA Frame ==
  ASSUME MergeTyped, Locks, NEW p \in Procs, proc[p].pc # "idle", lock[Here(p)] \in {p, None},
         \A l \in Lines \ {Here(p)} : /\ head'[l] = head[l] /\ staged'[l] = staged[l]
                                      /\ remote'[l] = remote[l] /\ lock'[l] = lock[l],
         \A q \in Procs \ {p} : proc'[q] = proc[q],
         torn \subseteq torn', torn' \subseteq torn \cup {Here(p)}
  PROVE  /\ \A q \in Procs \ {p} : /\ Progress(q) => Progress(q)'
                                   /\ Keeps(q) => Keeps(q)'
                                   /\ Sound(q) => Sound(q)'
         /\ \A l \in Lines \ {Here(p)} : Rest(l) => Rest(l)'
         /\ (\A q \in Procs \ {p} : Held(q) => lock'[Here(q)] = q /\ Here(q) # Here(p))
<1>1. ASSUME NEW q \in Procs \ {p} PROVE
        /\ proc'[q] = proc[q]
        /\ Held(q) => /\ Here(q) \in Lines \ {Here(p)} /\ lock[Here(q)] = q
  <2>2. Held(q) => Here(q) \in Lines /\ lock[Here(q)] = q
    BY DEF MergeTyped, Locks, Held, Here
  <2>3. q # None /\ q # p
    BY LineAssumption
  <2> QED
    BY <2>2, <2>3
<1>2. ASSUME NEW q \in Procs \ {p} PROVE
        /\ Progress(q) => Progress(q)'
        /\ Keeps(q) => Keeps(q)'
        /\ Sound(q) => Sound(q)'
  <2>1. Held(q) => /\ head'[Here(q)] = head[Here(q)] /\ staged'[Here(q)] = staged[Here(q)]
                   /\ remote'[Here(q)] = remote[Here(q)]
                   /\ (Here(q) \in torn' <=> Here(q) \in torn)
    BY <1>1
  <2> QED
    BY <2>1, Unmoved
<1>3. ASSUME NEW l \in Lines \ {Here(p)} PROVE Rest(l) => Rest(l)'
  <2>1. /\ head'[l] = head[l] /\ staged'[l] = staged[l] /\ lock'[l] = lock[l]
        /\ (l \in torn' <=> l \in torn)
    OBVIOUS
  <2> QED
    BY <2>1 DEF Rest, Clean, Whole
<1> QED
  BY <1>1, <1>2, <1>3

\* So it is enough to look at the command that moves, and at its line.
LEMMA Moves ==
  ASSUME MergeInv, MergeTyped', NEW p \in Procs, proc[p].pc # "idle",
         NEW l \in Lines, Here(p) = l, lock[l] \in {p, None},
         \A m \in Lines \ {l} : /\ head'[m] = head[m] /\ staged'[m] = staged[m]
                                /\ remote'[m] = remote[m] /\ lock'[m] = lock[m],
         \A q \in Procs \ {p} : proc'[q] = proc[q],
         torn \subseteq torn', torn' \subseteq torn \cup {l},
         \A i \in Index : remote'[l][i] \subseteq head'[l][i],
         \/ /\ Held(p)' /\ Here(p)' = l /\ lock'[l] = p
            /\ Progress(p)' /\ Keeps(p)' /\ Sound(p)'
         \/ proc'[p].pc = "idle" /\ lock'[l] = None /\ Rest(l)'
  PROVE  MergeInv'
<1> USE DEF MergeInv
<1>2. /\ \A q \in Procs \ {p} : Progress(q)' /\ Keeps(q)' /\ Sound(q)'
      /\ \A m \in Lines \ {l} : Rest(m)'
      /\ \A q \in Procs \ {p} : Held(q) => lock'[Here(q)] = q /\ Here(q) # l
  BY Frame
<1>3. \A q \in Procs \ {p} : Held(q)' = Held(q) /\ Here(q)' = Here(q)
  BY DEF Held, Here
<1>4. PushedIsKept'
  BY DEF PushedIsKept
<1>5. p # None
  BY LineAssumption
<1>8. ASSUME NEW m \in Lines \ {l}, lock'[m] # None
      PROVE  proc'[lock'[m]].pc \notin {"idle", "wait"} /\ proc'[lock'[m]].target = m
  <2>1. lock'[m] = lock[m]
    BY <1>8
  <2>2. lock[m] \in Procs \ {p} /\ Held(lock[m]) /\ Here(lock[m]) = m
    BY <1>8, <2>1 DEF MergeTyped, Locks
  <2> QED
    BY <2>1, <2>2 DEF Held, Here
<1>6. CASE /\ Held(p)' /\ Here(p)' = l /\ lock'[l] = p
           /\ Progress(p)' /\ Keeps(p)' /\ Sound(p)'
  <2>1. Rest(l)'
    BY <1>5, <1>6 DEF Rest
  <2>2. Locks'
    <3>1. \A q \in Procs : Held(q)' => lock'[Here(q)'] = q
      BY <1>2, <1>3, <1>6
    <3>2. \A m \in Lines : lock'[m] # None => Held(lock[m])' /\ Here(lock[m])' = m
      BY <1>6, <1>8 DEF Held, Here
    <3> QED
      BY <3>1, <3>2 DEF Locks
  <2> QED
    BY <1>2, <1>4, <1>6, <2>1, <2>2
<1>7. CASE proc'[p].pc = "idle" /\ lock'[l] = None /\ Rest(l)'
  <2>1. Progress(p)' /\ Keeps(p)' /\ Sound(p)' /\ ~Held(p)'
    BY <1>7 DEF Progress, Keeps, Sound, Held
  <2>2. Locks'
    <3>1. \A q \in Procs : Held(q)' => lock'[Here(q)'] = q
      BY <1>2, <1>3, <2>1
    <3>2. \A m \in Lines : lock'[m] # None => Held(lock[m])' /\ Here(lock[m])' = m
      BY <1>7, <1>8 DEF Held, Here
    <3> QED
      BY <3>1, <3>2 DEF Locks
  <2> QED
    BY <1>2, <1>4, <1>7, <2>1, <2>2
<1> QED
  BY <1>6, <1>7

(* A process that runs no command is in a state processes have. *)
LEMMA IdleIs == Idle \in ProcStates
<1>1. [i \in Index |-> None] \in StagedRows
  BY DEF StagedRows
<1>2. <<>> \in Seq(PlanRows)
  OBVIOUS
<1> QED
  BY <1>1, <1>2 DEF Idle, ProcStates, Pcs, Kinds, Modes

(* The parts of a process, and what a step makes of them. *)
LEMMA Fields ==
  ASSUME MergeTyped, NEW p \in Procs
  PROVE  /\ proc[p] \in ProcStates /\ proc[p].i \in Nat /\ proc[p].plan \in Seq(PlanRows)
         /\ proc[p].committed \in StagedRows /\ proc[p].k \in Nat /\ proc[p].pc \in Pcs
         /\ proc[p].mode \in Modes /\ proc[p].kind \in Kinds
         /\ \A pc \in Pcs, i \in Nat : [proc[p] EXCEPT !.pc = pc, !.i = i] \in ProcStates
         /\ \A pc \in Pcs, i \in Nat, plan \in Seq(PlanRows) :
              [proc[p] EXCEPT !.plan = plan, !.pc = pc, !.i = i] \in ProcStates
         /\ \A pc \in Pcs, i \in Nat, done \in StagedRows :
              [proc[p] EXCEPT !.committed = done, !.pc = pc, !.i = i] \in ProcStates
         /\ \A sound \in BOOLEAN, i \in Nat :
              [proc[p] EXCEPT !.i = i, !.whole = sound] \in ProcStates
         /\ \A sound \in BOOLEAN : [Idle EXCEPT !.whole = sound] \in ProcStates
<1>1. proc[p] \in ProcStates
  BY DEF MergeTyped
<1> QED
  BY <1>1, IdleIs DEF ProcStates

\* What a step may write.
LEMMA Writes ==
  ASSUME MergeTyped, NEW l \in Lines, NEW i \in Index
  PROVE  /\ head[l][i] \in CommitSets /\ remote[l][i] \in CommitSets
         /\ staged[l][i] \in CommitSets \cup {None}
         /\ \A s \in CommitSets : /\ [head EXCEPT ![l][i] = s] \in [Lines -> LineRows]
                                 /\ [remote EXCEPT ![l][i] = s] \in [Lines -> LineRows]
         /\ \A s \in CommitSets \cup {None} :
              [staged EXCEPT ![l][i] = s] \in [Lines -> StagedRows]
         /\ \A q \in Procs \cup {None} : [lock EXCEPT ![l] = q] \in [Lines -> Procs \cup {None}]
         /\ \A p \in Procs, s \in ProcStates : [proc EXCEPT ![p] = s] \in [Procs -> ProcStates]
<1>1. head \in [Lines -> LineRows] /\ remote \in [Lines -> LineRows] /\ staged \in [Lines -> StagedRows]
  BY DEF MergeTyped
<1>2. head[l] \in [Index -> CommitSets] /\ remote[l] \in [Index -> CommitSets]
      /\ staged[l] \in [Index -> CommitSets \cup {None}]
  BY <1>1 DEF LineRows, StagedRows
<1>3. \A s \in CommitSets : /\ [head[l] EXCEPT ![i] = s] \in LineRows
                           /\ [remote[l] EXCEPT ![i] = s] \in LineRows
  BY <1>2 DEF LineRows
<1>4. \A s \in CommitSets \cup {None} : [staged[l] EXCEPT ![i] = s] \in StagedRows
  BY <1>2 DEF StagedRows
<1>5. lock \in [Lines -> Procs \cup {None}] /\ proc \in [Procs -> ProcStates]
  BY DEF MergeTyped
<1> QED
  BY <1>1, <1>2, <1>3, <1>4, <1>5

\* A command that does not hold its lock before or after a step touches no line.
LEMMA Outside ==
  ASSUME MergeInv, MergeTyped', NEW p \in Procs, ~Held(p), ~Held(p)', Progress(p)',
         \A q \in Procs \ {p} : proc'[q] = proc[q],
         UNCHANGED <<head, staged, remote, lock, torn>>
  PROVE  MergeInv'
<1> USE DEF MergeInv
<1>1. \A q \in Procs : Held(q)' = Held(q) /\ (Held(q) => Here(q)' = Here(q) /\ proc'[q] = proc[q])
  BY DEF Held, Here
<1>2. \A q \in Procs \ {p} : Progress(q)' /\ Keeps(q)' /\ Sound(q)'
  BY Unmoved
<1>3. Keeps(p)' /\ Sound(p)'
  BY DEF Held, Keeps, Sound
<1>4. PushedIsKept' /\ \A l \in Lines : Rest(l)'
  BY DEF PushedIsKept, Rest, Clean, Whole
<1>5. Locks'
  <2>1. \A q \in Procs : Held(q)' => lock'[Here(q)'] = q
    BY <1>1 DEF Locks
  <2>2. \A l \in Lines : lock'[l] # None => proc'[lock'[l]].pc \notin {"idle", "wait"} /\ proc'[lock'[l]].target = l
    BY <1>1 DEF Locks, MergeTyped, Held, Here
  <2> QED
    BY <2>1, <2>2 DEF Locks, Held, Here
<1> QED
  BY <1>2, <1>3, <1>4, <1>5

(* A command starts, outside of its lock. *)
LEMMA StartStep ==
  ASSUME MergeInv, NEW p \in Procs, NEW kind \in Kinds, NEW target \in Lines,
         NEW source \in IF kind = "task" THEN Tasks ELSE Lines, NEW mode \in Modes,
         Start(p, kind, source, target, mode)
  PROVE  MergeInv'
<1> DEFINE new == [Idle EXCEPT !.pc = "wait", !.k = started + 1, !.kind = kind,
                               !.target = target, !.source = source, !.mode = mode]
<1>1. /\ proc' = [proc EXCEPT ![p] = new] /\ proc[p].pc = "idle" /\ started < MaxMerges
      /\ started' = started + 1 /\ UNCHANGED <<head, staged, remote, lock, outside, crashes, torn>>
  BY DEF Start
<1>a. started \in 0..MaxMerges /\ MaxMerges \in Nat /\ started + 1 \in Nat
  BY LineAssumption DEF MergeInv, MergeTyped
<1>b. source \in Tasks \cup Lines \cup {None} /\ target \in Lines \cup {None} /\ "wait" \in Pcs
  BY DEF Kinds, Pcs
<1>2. new \in ProcStates /\ new.pc = "wait" /\ new.k = started + 1 /\ new.kind = kind
      /\ new.target = target /\ new.source = source /\ new.plan = <<>>
      /\ new.committed = [i \in Index |-> None]
  <2>1. [i \in Index |-> None] \in StagedRows /\ <<>> \in Seq(PlanRows)
    BY DEF StagedRows
  <2> QED
    BY <1>a, <1>b, <2>1 DEF Idle, ProcStates
<1> HIDE DEF new
<1>3. proc'[p] = new /\ proc' \in [Procs -> ProcStates] /\ \A q \in Procs \ {p} : proc'[q] = proc[q]
  BY <1>1, <1>2, Writes DEF MergeInv, MergeTyped
<1>4. MergeTyped'
  BY <1>1, <1>2, <1>3, <1>a DEF MergeInv, MergeTyped, Merges
<1>5. ~Held(p) /\ ~Held(p)' /\ Progress(p)'
  BY <1>1, <1>2, <1>3 DEF Held, Progress
<1> QED
  BY <1>1, <1>3, <1>4, <1>5, Outside

(* A command that waited too long ends, outside of its lock. *)
LEMMA TimeoutStep ==
  ASSUME MergeInv, NEW p \in Procs, LockTimeout(p)
  PROVE  MergeInv'
<1>1. /\ proc' = [proc EXCEPT ![p] = Idle] /\ proc[p].pc = "wait"
      /\ UNCHANGED <<head, staged, remote, lock, started, outside, crashes, torn>>
  BY DEF LockTimeout
<1>2. proc'[p] = Idle /\ proc' \in [Procs -> ProcStates] /\ \A q \in Procs \ {p} : proc'[q] = proc[q]
  BY <1>1, IdleIs DEF MergeInv, MergeTyped
<1>3. Idle.pc = "idle"
  BY DEF Idle
<1>4. MergeTyped'
  BY <1>1, <1>2, <1>3 DEF MergeInv, MergeTyped
<1>5. ~Held(p) /\ ~Held(p)' /\ Progress(p)'
  BY <1>1, <1>2, <1>3 DEF Held, Progress
<1> QED
  BY <1>1, <1>2, <1>4, <1>5, Outside

(* Who takes the lock of a line finds it clean, unless it is torn. *)
LEMMA TakeLockStep ==
  ASSUME MergeInv, NEW p \in Procs, TakeLock(p)
  PROVE  MergeInv'
<1> DEFINE new == [proc[p] EXCEPT !.pc = "plan", !.i = 1]
<1>0. PICK l \in Lines : l = Here(p)
  BY DEF MergeInv, MergeTyped, TakeLock, Here
<1>1. /\ proc' = [proc EXCEPT ![p].pc = "plan", ![p].i = 1] /\ proc[p].pc = "wait" /\ lock[l] = None
      /\ lock' = [lock EXCEPT ![l] = p]
      /\ UNCHANGED <<head, staged, remote, started, outside, crashes, torn>>
  BY <1>0 DEF TakeLock, Goto, LockOf, Here
<1>2. new \in ProcStates /\ new.pc = "plan" /\ new.i = 1 /\ new.target = l /\ new.plan = <<>>
      /\ new.committed = proc[p].committed /\ (\A j \in Index : new.committed[j] = None)
      /\ new.k = proc[p].k /\ new.kind = proc[p].kind /\ new.source = proc[p].source
  <2>1. proc[p] \in ProcStates /\ new \in ProcStates
    BY <1>0, Fields DEF MergeInv, Pcs
  <2>2. proc[p].plan = <<>> /\ proc[p].target = l /\ (\A j \in Index : proc[p].committed[j] = None)
    BY <1>0, <1>1 DEF MergeInv, Progress, Here
  <2> QED
    BY <2>1, <2>2 DEF ProcStates
<1> HIDE DEF new
<1>3. proc'[p] = new /\ proc' \in [Procs -> ProcStates] /\ \A q \in Procs \ {p} : proc'[q] = proc[q]
  BY <1>1, <1>2 DEF MergeInv, MergeTyped, new
<1>4. MergeTyped'
  <2>1. lock' \in [Lines -> Procs \cup {None}]
    BY <1>1, Writes, Sets DEF MergeInv
  <2> QED
    BY <1>1, <1>2, <1>3, <2>1 DEF MergeInv, MergeTyped
<1>5. lock'[l] = p /\ \A m \in Lines \ {l} : lock'[m] = lock[m]
  BY <1>1 DEF MergeInv, MergeTyped
<1>6. Held(p)' /\ Here(p)' = l /\ Progress(p)' /\ Keeps(p)'
  BY <1>2, <1>3, Sets DEF Held, Here, Progress, Keeps
<1>7. Sound(p)'
  <2>1. Clean(l)' <=> Clean(l)
    BY <1>1 DEF Clean
  <2>2. l \notin torn => Clean(l)
    BY <1>1 DEF MergeInv, Rest
  <2> QED
    BY <1>1, <1>2, <1>3, <1>6, <2>1, <2>2 DEF Sound, PhaseHolds
<1>8. \A i \in Index : remote'[l][i] \subseteq head'[l][i]
  BY <1>1 DEF MergeInv, PushedIsKept
<1> QED
  BY <1>0, <1>1, <1>3, <1>4, <1>5, <1>6, <1>7, <1>8, Moves

(* A plan that grows by a row. *)
LEMMA Longer ==
  ASSUME NEW rows \in Seq(PlanRows), NEW row \in PlanRows, NEW i \in Index, Len(rows) = i - 1
  PROVE  /\ Append(rows, row) \in Seq(PlanRows) /\ Len(Append(rows, row)) = i
         /\ DOMAIN Append(rows, row) = 1..i /\ Append(rows, row)[i] = row
         /\ \A j \in 1..(i - 1) : Append(rows, row)[j] = rows[j]
         /\ DOMAIN rows = 1..(i - 1) /\ 1..i = 1..(i - 1) \cup {i} /\ 1..i \subseteq Index
         /\ i \in Nat /\ i + 1 \in Nat /\ (i + 1) - 1 = i
         /\ i < Len(Order) => i + 1 \in Index
         /\ ~(i < Len(Order)) => i = Len(Order) /\ 1..i = Index
  BY Sets DEF Index

(* When all heads are read, those of the source are of one merge: nobody merged into
   it meanwhile, or the line counts as torn. *)
LEMMA PlanStep ==
  ASSUME MergeInv, NEW p \in Procs, Plan(p)
  PROVE  MergeInv'
<1>0. PICK l \in Lines : l = Here(p)
  BY DEF MergeInv, MergeTyped, Plan, Here
<1>i. PICK i, old : i = proc[p].i /\ old = proc[p].plan
  OBVIOUS
<1>1. PICK row : row = [source |-> IF proc[p].kind = "task" THEN {proc[p].source}
                                   ELSE head[proc[p].source][i],
                        original |-> head[l][i]]
  OBVIOUS
<1>2. /\ proc[p].pc = "plan" /\ lock[l] = p /\ i \in Index /\ Len(old) = i - 1 /\ old \in Seq(PlanRows)
      /\ (l \notin torn => PhaseHolds(p)) /\ (\A j \in Index : proc[p].committed[j] = None)
      /\ proc[p].target = l /\ proc[p] \in ProcStates
  BY <1>0, <1>i, Fields DEF MergeInv, Plan, Locks, Held, Progress, Sound, Here
<1>3. row \in PlanRows /\ row.original = head[l][i]
  <2>1. head[l][i] \in CommitSets
    BY <1>2, Writes DEF MergeInv
  <2>2. CASE proc[p].kind = "task"
    <3>1. {proc[p].source} \in CommitSets
      BY <1>2, <2>2, Sets DEF MergeInv, MergeTyped
    <3> QED
      BY <1>1, <2>1, <2>2, <3>1 DEF PlanRows
  <2>3. CASE proc[p].kind # "task"
    <3>1. proc[p].source \in Lines
      BY <1>2, <2>3 DEF MergeInv, MergeTyped
    <3>2. head[proc[p].source][i] \in CommitSets
      BY <1>2, <3>1, Writes DEF MergeInv
    <3> QED
      BY <1>1, <2>1, <2>3, <3>2 DEF PlanRows
  <2> QED
    BY <2>2, <2>3
<1>4. /\ UNCHANGED <<head, staged, remote, started, outside, crashes>>
      /\ torn' = IF Mixed(p) THEN torn \cup {l} ELSE torn
  BY <1>0 DEF Plan
<1>5. Clean(l)' <=> Clean(l)
  BY <1>4 DEF Clean
<1>6. (l \notin torn => Clean(l)) /\ \A j \in Index : remote'[l][j] \subseteq head'[l][j]
  BY <1>0, <1>2, <1>4 DEF PhaseHolds, MergeInv, PushedIsKept
<1>7. CASE End(p)
  <2>1. proc' = [proc EXCEPT ![p] = Idle] /\ lock' = [lock EXCEPT ![l] = None]
    BY <1>0, <1>7 DEF End, LockOf, Here
  <2>2. /\ proc' \in [Procs -> ProcStates] /\ proc'[p] = Idle /\ lock' \in [Lines -> Procs \cup {None}]
        /\ lock'[l] = None /\ \A m \in Lines \ {l} : lock'[m] = lock[m]
        /\ \A q \in Procs \ {p} : proc'[q] = proc[q]
    BY <2>1, IdleIs, Writes DEF MergeInv, MergeTyped
  <2>3. MergeTyped' /\ proc'[p].pc = "idle"
    BY <1>4, <2>2 DEF MergeInv, MergeTyped, Idle
  <2>4. Rest(l)'
    BY <1>4, <1>5, <1>6 DEF Rest
  <2> QED
    BY <1>0, <1>2, <1>4, <1>6, <2>2, <2>3, <2>4, Moves
<1>8. CASE ~End(p)
  <2> DEFINE new == [proc[p] EXCEPT !.plan = Append(@, row),
                                    !.pc = IF i < Len(Order) THEN "plan" ELSE "stage",
                                    !.i = IF i < Len(Order) THEN i + 1 ELSE 1]
  <2>1. proc' = [proc EXCEPT ![p] = new] /\ lock' = lock
    BY <1>0, <1>i, <1>1, <1>8 DEF Plan
  <2>2. /\ new \in ProcStates /\ new.plan = Append(old, row) /\ new.committed = proc[p].committed
        /\ new.pc = IF i < Len(Order) THEN "plan" ELSE "stage"
        /\ new.i = IF i < Len(Order) THEN i + 1 ELSE 1
        /\ new.kind = proc[p].kind /\ new.source = proc[p].source /\ new.target = l
        /\ new.k = proc[p].k
    <3>1. Append(old, row) \in Seq(PlanRows) /\ i + 1 \in Nat /\ 1 \in Nat /\ "plan" \in Pcs /\ "stage" \in Pcs
      BY <1>2, <1>3, Longer DEF Pcs
    <3> QED
      BY <1>2, <1>i, <3>1 DEF ProcStates
  <2> HIDE DEF new
  <2>3. proc'[p] = new /\ proc' \in [Procs -> ProcStates] /\ \A q \in Procs \ {p} : proc'[q] = proc[q]
    BY <2>1, <2>2 DEF MergeInv, MergeTyped
  <2>4. MergeTyped'
    BY <1>2, <1>4, <2>1, <2>2, <2>3 DEF MergeInv, MergeTyped
  <2>5. /\ Len(new.plan) = i /\ DOMAIN new.plan = 1..i /\ new.plan[i] = row
        /\ \A j \in 1..(i - 1) : new.plan[j] = old[j]
    BY <1>2, <1>3, <2>2, Longer
  <2>6. Held(p)' /\ Here(p)' = l /\ Progress(p)'
    <3>1. Held(p)' /\ Here(p)' = l
      BY <2>2, <2>3 DEF Held, Here
    <3>2. new.i \in Index /\ Len(new.plan) = IF new.pc = "plan" THEN new.i - 1 ELSE Len(Order)
      BY <1>2, <1>3, <2>2, <2>5, Longer, Sets
    <3>3. new.pc # "wait" /\ \A j \in Index : new.committed[j] = None
      BY <1>2, <2>2
    <3> QED
      BY <2>3, <3>1, <3>2, <3>3 DEF Progress
  <2>7. Keeps(p)'
    <3>1. ASSUME NEW j \in 1..i PROVE remote[l][j] \subseteq new.plan[j].original
      <4>1. CASE j = i
        BY <1>2, <1>3, <1>4, <1>6, <2>5, <4>1
      <4>2. CASE j \in 1..(i - 1)
        <5>1. j \in DOMAIN old /\ new.plan[j] = old[j]
          BY <1>2, <1>3, <2>5, <4>2, Longer
        <5> QED
          BY <1>0, <1>2, <1>i, <5>1 DEF MergeInv, Keeps
      <4> QED
        BY <1>2, <1>3, <4>1, <4>2, Longer
    <3> QED
      BY <1>4, <2>3, <2>5, <2>6, <3>1 DEF Keeps
  <2>8. Sound(p)'
    <3> SUFFICES ASSUME l \notin torn' PROVE PhaseHolds(p)'
      BY <2>6 DEF Sound
    <3>1. l \notin torn /\ ~Mixed(p) /\ Clean(l) /\ Clean(l)'
      BY <1>4, <1>5, <1>6
    <3>2. \A j \in 1..i : AsRead(p, j)' /\ Same(head[l][j], new.plan[j].original)
      <4> SUFFICES ASSUME NEW j \in 1..i PROVE Same(head[l][j], new.plan[j].original)
        BY <1>4, <2>3, <2>6 DEF AsRead, Same
      <4>1. CASE j = i
        BY <1>3, <2>5, <4>1 DEF Same
      <4>2. CASE j \in 1..(i - 1)
        BY <1>0, <1>2, <1>i, <2>5, <3>1, <4>2 DEF AsRead, PhaseHolds
      <4> QED
        BY <1>2, <1>3, <4>1, <4>2, Longer
    <3>3. proc[p].kind = "task" => \A j \in 1..i : new.plan[j].source = {proc[p].source}
      <4> SUFFICES ASSUME proc[p].kind = "task", NEW j \in 1..i
                   PROVE  new.plan[j].source = {proc[p].source}
        OBVIOUS
      <4>1. CASE j = i
        BY <1>1, <2>5, <4>1
      <4>2. CASE j \in 1..(i - 1)
        BY <1>2, <1>i, <2>5, <3>1, <4>2 DEF PhaseHolds
      <4> QED
        BY <1>2, <1>3, <4>1, <4>2, Longer
    <3>4. CASE i < Len(Order)
      <4>1. new.pc = "plan" /\ new.i - 1 = i
        BY <1>2, <1>3, <2>2, <3>4, Longer
      <4> QED
        BY <2>2, <2>3, <2>6, <3>1, <3>2, <3>3, <4>1 DEF PhaseHolds
    <3>5. CASE ~(i < Len(Order))
      <4>1. i = Len(Order) /\ 1..i = Index /\ new.pc = "stage" /\ new.i = 1
        BY <1>2, <1>3, <2>2, <3>5, Longer
      <4>2. Whole(Originals(p))'
        <5>1. \A j \in Index : Originals(p)'[j] = new.plan[j].original
          BY <2>3 DEF Originals
        <5> QED
          BY <3>1, <3>2, <4>1, <5>1 DEF Whole, Same, Clean
      <4>3. Whole(Sources(p))'
        <5>1. \A j \in Index : Sources(p)'[j] = new.plan[j].source
          BY <2>3 DEF Sources
        <5>2. CASE proc[p].kind = "task"
          BY <3>3, <4>1, <5>1, <5>2 DEF Whole, Same
        <5>3. CASE proc[p].kind # "task"
          <6>1. proc[p].kind = "line" /\ proc[p].source \in Lines
            BY <1>2, <5>3, Fields DEF MergeInv, MergeTyped, Kinds
          <6>2. /\ Clean(proc[p].source)
                /\ \A j \in 1..(i - 1) : old[j].source = head[proc[p].source][j]
            BY <1>i, <3>1, <6>1 DEF Mixed, MergeInv, Rest
          <6>3. \A j \in Index : new.plan[j].source = head[proc[p].source][j]
            BY <1>1, <1>2, <1>3, <2>5, <4>1, <5>3, <6>2, Longer
          <6> QED
            BY <5>1, <6>2, <6>3 DEF Whole, Clean
        <5> QED
          BY <5>2, <5>3
      <4>4. \A j \in Index : AsRead(p, j)' /\ staged'[l][j] = None
        BY <3>1, <3>2, <4>1 DEF Clean
      <4> QED
        BY <2>3, <2>6, <4>1, <4>2, <4>3, <4>4 DEF PhaseHolds, Index
    <3> QED
      BY <3>4, <3>5
  <2> QED
    BY <1>0, <1>2, <1>4, <1>6, <2>1, <2>3, <2>4, <2>6, <2>7, <2>8, Moves
<1> QED
  BY <1>7, <1>8

(* The places before and after one in the order. *)
LEMMA Around ==
  ASSUME NEW i \in Index
  PROVE  /\ i \in Nat /\ i + 1 \in Nat /\ i - 1 \in Nat /\ 1 \in Index /\ Len(Order) \in Index
         /\ i < Len(Order) => i + 1 \in Index
         /\ ~(i < Len(Order)) => i = Len(Order)
         /\ i > 1 => i - 1 \in Index
         /\ ~(i > 1) => i = 1
         /\ \A j \in Index : /\ j < i + 1 <=> j < i \/ j = i
                             /\ j > i - 1 <=> j > i \/ j = i
                             /\ ~(j < 1) /\ ~(j > Len(Order))
                             /\ ~(j < i) <=> j > i \/ j = i
                             /\ ~(j > i) <=> j < i \/ j = i
  BY Sets DEF Index

\* What is known of a command that holds its lock.
LEMMA Holder ==
  ASSUME MergeInv, NEW p \in Procs, proc[p].pc \notin {"idle", "wait"}
  PROVE  /\ Here(p) \in Lines /\ lock[Here(p)] = p /\ proc[p].target = Here(p)
         /\ proc[p].i \in Index /\ proc[p] \in ProcStates /\ proc[p].plan \in Seq(PlanRows)
         /\ proc[p].committed \in StagedRows /\ proc[p].k \in Merges
         /\ Here(p) \notin torn => PhaseHolds(p)
         /\ proc[p].pc = "stage" => \A j \in Index : proc[p].committed[j] = None
         /\ proc[p].pc # "plan" =>
              /\ DOMAIN proc[p].plan = Index /\ Len(proc[p].plan) = Len(Order)
              /\ \A j \in Index : /\ proc[p].plan[j] \in PlanRows
                                  /\ proc[p].plan[j].source \in CommitSets
                                  /\ proc[p].plan[j].original \in CommitSets
<1>1. /\ Here(p) \in Lines /\ lock[Here(p)] = p /\ proc[p].target = Here(p)
      /\ proc[p].i \in Index /\ proc[p] \in ProcStates /\ proc[p].plan \in Seq(PlanRows)
      /\ proc[p].committed \in StagedRows /\ proc[p].k \in Merges
      /\ Here(p) \notin torn => PhaseHolds(p)
      /\ proc[p].pc = "stage" => \A j \in Index : proc[p].committed[j] = None
      /\ proc[p].pc # "plan" => Len(proc[p].plan) = Len(Order)
  BY Fields DEF MergeInv, MergeTyped, Locks, Held, Here, Sound, Progress
<1>2. \A rows \in Seq(PlanRows) : Len(rows) = Len(Order) =>
        DOMAIN rows = Index /\ \A j \in Index : rows[j] \in PlanRows
  BY DEF Index
<1>3. \A row \in PlanRows : row.source \in CommitSets /\ row.original \in CommitSets
  BY DEF PlanRows
<1> QED
  BY <1>1, <1>2, <1>3

\* The command ends: its line, if nothing tore it, is clean.
LEMMA Ends ==
  ASSUME MergeInv, NEW p \in Procs, proc[p].pc \notin {"idle", "wait"}, NEW l, l = Here(p),
         NEW s \in ProcStates, s.pc = "idle", proc' = [proc EXCEPT ![p] = s],
         lock' = [lock EXCEPT ![l] = None],
         head' \in [Lines -> LineRows], staged' \in [Lines -> StagedRows],
         remote' \in [Lines -> LineRows], crashes' \in Nat, UNCHANGED <<started, outside>>,
         \A m \in Lines \ {l} : /\ head'[m] = head[m] /\ staged'[m] = staged[m]
                                /\ remote'[m] = remote[m],
         torn \subseteq torn', torn' \subseteq torn \cup {l},
         \A i \in Index : remote'[l][i] \subseteq head'[l][i],
         l \notin torn' => Clean(l)'
  PROVE  MergeInv'
<1>1. l \in Lines /\ lock[l] = p
  BY Holder
<1>2. /\ proc' \in [Procs -> ProcStates] /\ proc'[p].pc = "idle"
      /\ \A q \in Procs \ {p} : proc'[q] = proc[q]
  BY DEF MergeInv, MergeTyped
<1>3. /\ lock' \in [Lines -> Procs \cup {None}] /\ lock'[l] = None
      /\ \A m \in Lines \ {l} : lock'[m] = lock[m]
  BY <1>1 DEF MergeInv, MergeTyped
<1>4. MergeTyped'
  BY <1>1, <1>2, <1>3 DEF MergeInv, MergeTyped
<1>5. Rest(l)'
  BY DEF Rest
<1> QED
  BY <1>1, <1>2, <1>3, <1>4, <1>5, Moves

\* The command goes on.
LEMMA GoesOn ==
  ASSUME MergeInv, NEW p \in Procs, proc[p].pc \notin {"idle", "wait"}, NEW l, l = Here(p),
         NEW s \in ProcStates, s.pc \notin {"idle", "wait"}, proc' = [proc EXCEPT ![p] = s],
         s.target = l, s.k = proc[p].k, s.kind = proc[p].kind, s.source = proc[p].source,
         s.plan = proc[p].plan, s.i \in Index, proc[p].pc # "plan", s.pc # "plan",
         s.pc = "stage" => proc[p].pc = "stage" /\ s.committed = proc[p].committed,
         s.pc = "undo" => proc[p].pc # "push",
         head' \in [Lines -> LineRows], staged' \in [Lines -> StagedRows],
         remote' \in [Lines -> LineRows], UNCHANGED <<started, outside, crashes, lock>>,
         \A m \in Lines \ {l} : /\ head'[m] = head[m] /\ staged'[m] = staged[m]
                                /\ remote'[m] = remote[m],
         torn \subseteq torn', torn' \subseteq torn \cup {l},
         s.pc # "push" => proc[p].pc # "push" /\ UNCHANGED remote,
         \A i \in Index : remote'[l][i] \subseteq head'[l][i],
         l \notin torn' => PhaseHolds(p)'
  PROVE  MergeInv'
<1>1. l \in Lines /\ lock[l] = p
  BY Holder
<1>2. /\ proc' \in [Procs -> ProcStates] /\ proc'[p] = s
      /\ \A q \in Procs \ {p} : proc'[q] = proc[q]
  BY DEF MergeInv, MergeTyped
<1>4. MergeTyped'
  <2>1. /\ s.target \in Lines /\ s.k \in Merges
        /\ s.source \in IF s.kind = "task" THEN Tasks ELSE Lines
    BY <1>1 DEF MergeInv, MergeTyped
  <2> QED
    BY <1>1, <1>2, <2>1 DEF MergeInv, MergeTyped
<1>5. Held(p)' /\ Here(p)' = l
  BY <1>2 DEF Held, Here
<1>6. Progress(p)'
  BY <1>2, Holder DEF Progress, Held
<1>7. Keeps(p)'
  <2> SUFFICES ASSUME s.pc # "push" PROVE Keeps(p)'
    BY <1>2 DEF Keeps
  <2>1. proc[p].pc \in {"stage", "commit", "undo"} /\ UNCHANGED remote
    BY Fields DEF MergeInv, Pcs
  <2>2. Keeps(p) /\ (\A j \in DOMAIN s.plan : remote'[l][j] \subseteq s.plan[j].original)
    BY <2>1 DEF MergeInv, Keeps
  <2> QED
    BY <1>2, <1>5, <2>2 DEF Keeps
<1>8. Sound(p)'
  BY <1>5 DEF Sound
<1> QED
  BY <1>1, <1>2, <1>4, <1>5, <1>6, <1>7, <1>8, Moves

(* A command that dies tears its line. *)
LEMMA CrashStep ==
  ASSUME MergeInv, NEW p \in Procs, Crash(p)
  PROVE  MergeInv'
<1>1. PICK l : l = Here(p)
  OBVIOUS
<1>2. /\ proc[p].pc \notin {"idle", "wait"} /\ proc' = [proc EXCEPT ![p] = Idle]
      /\ lock' = [lock EXCEPT ![l] = None] /\ crashes' = crashes + 1 /\ torn' = torn \cup {l}
      /\ UNCHANGED <<head, staged, remote, started, outside>>
  BY <1>1 DEF Crash, End, LockOf, Here
<1>3. l \in Lines
  BY <1>1, <1>2, Holder
<1>4. /\ head \in [Lines -> LineRows] /\ staged \in [Lines -> StagedRows]
      /\ remote \in [Lines -> LineRows] /\ crashes \in Nat
      /\ \A i \in Index : remote[l][i] \subseteq head[l][i]
  BY <1>3 DEF MergeInv, MergeTyped, PushedIsKept
<1>5. Idle.pc = "idle"
  BY DEF Idle
<1>6. /\ head' \in [Lines -> LineRows] /\ staged' \in [Lines -> StagedRows]
      /\ remote' \in [Lines -> LineRows] /\ crashes' \in Nat /\ UNCHANGED <<started, outside>>
      /\ \A m \in Lines \ {l} : /\ head'[m] = head[m] /\ staged'[m] = staged[m]
                                /\ remote'[m] = remote[m]
      /\ torn \subseteq torn' /\ torn' \subseteq torn \cup {l}
      /\ \A i \in Index : remote'[l][i] \subseteq head'[l][i]
      /\ l \in torn'
  BY <1>2, <1>4
<1> QED
  BY <1>1, <1>2, <1>5, <1>6, IdleIs, Ends

(* A push only brings the remote to what the line holds. *)
LEMMA PushStep ==
  ASSUME MergeInv, NEW p \in Procs, NEW ok \in BOOLEAN, Push(p, ok)
  PROVE  MergeInv'
<1>1. PICK l, i : l = Here(p) /\ i = proc[p].i
  OBVIOUS
<1>2. proc[p].pc = "push"
  BY DEF Push
<1>3. /\ l \in Lines /\ i \in Index /\ proc[p] \in ProcStates /\ (l \notin torn => Clean(l))
      /\ proc[p].target = l
  BY <1>1, <1>2, Holder DEF PhaseHolds
<1>4. /\ remote' = IF ok THEN [remote EXCEPT ![l][i] = head[l][i]] ELSE remote
      /\ UNCHANGED <<head, staged, started, outside, crashes, torn>>
  BY <1>1 DEF Push
<1>5. head \in [Lines -> LineRows] /\ staged \in [Lines -> StagedRows] /\ crashes \in Nat
      /\ remote \in [Lines -> LineRows]
  BY DEF MergeInv, MergeTyped
<1>6. remote' \in [Lines -> LineRows]
  <2>1. head[l][i] \in CommitSets
    BY <1>3, Writes DEF MergeInv
  <2>2. [remote EXCEPT ![l][i] = head[l][i]] \in [Lines -> LineRows]
    BY <1>3, <2>1, Writes DEF MergeInv
  <2> QED
    BY <1>4, <1>5, <2>2
<1>7. /\ \A m \in Lines \ {l} : remote'[m] = remote[m]
      /\ \A j \in Index : remote'[l][j] \subseteq head'[l][j]
  <2>1. \A j \in Index : remote[l][j] \subseteq head[l][j]
    BY <1>3 DEF MergeInv, PushedIsKept
  <2>2. remote \in [Lines -> [Index -> CommitSets]]
    BY <1>5 DEF LineRows
  <2> QED
    BY <1>3, <1>4, <2>1, <2>2
<1>8. Clean(l)' <=> Clean(l)
  BY <1>4 DEF Clean
<1>9. CASE End(p)
  <2>1. proc' = [proc EXCEPT ![p] = Idle] /\ lock' = [lock EXCEPT ![l] = None] /\ Idle.pc = "idle"
    BY <1>1, <1>9 DEF End, LockOf, Here, Idle
  <2>2. /\ head' \in [Lines -> LineRows] /\ staged' \in [Lines -> StagedRows]
        /\ crashes' \in Nat /\ UNCHANGED <<started, outside>>
        /\ \A m \in Lines \ {l} : head'[m] = head[m] /\ staged'[m] = staged[m]
        /\ torn \subseteq torn' /\ torn' \subseteq torn \cup {l}
        /\ l \notin torn' => Clean(l)'
        /\ proc[p].pc \notin {"idle", "wait"} /\ Idle \in ProcStates
    BY <1>2, <1>3, <1>4, <1>5, <1>8, IdleIs
  <2> QED
    BY <1>1, <1>6, <1>7, <2>1, <2>2, Ends
<1>10. CASE i < Len(Order) /\ Goto(p, "push", i + 1) /\ UNCHANGED lock
  <2> DEFINE new == [proc[p] EXCEPT !.pc = "push", !.i = i + 1]
  <2>1. /\ proc' = [proc EXCEPT ![p] = new] /\ i + 1 \in Index /\ i + 1 \in Nat
    <3>1. i + 1 \in Index /\ i + 1 \in Nat
      BY <1>3, <1>10, Around
    <3>2. proc' = [proc EXCEPT ![p] = new]
      BY <1>10 DEF Goto
    <3> QED
      BY <3>1, <3>2
  <2>2. /\ new \in ProcStates /\ new.pc = "push" /\ new.i \in Index /\ new.target = l
        /\ new.k = proc[p].k /\ new.kind = proc[p].kind /\ new.source = proc[p].source
        /\ new.plan = proc[p].plan
    <3>1. new \in ProcStates
      BY <2>1, Fields DEF MergeInv, Pcs
    <3> QED
      BY <1>3, <2>1, <3>1 DEF ProcStates
  <2> HIDE DEF new
  <2>3. proc'[p] = new /\ Here(p)' = l
    BY <2>1, <2>2 DEF MergeInv, MergeTyped, Here
  <2>4. l \notin torn' => PhaseHolds(p)'
    BY <1>3, <1>4, <1>8, <2>2, <2>3 DEF PhaseHolds
  <2> QED
    <3>1. /\ head' \in [Lines -> LineRows] /\ staged' \in [Lines -> StagedRows]
          /\ UNCHANGED <<started, outside, crashes, lock>> /\ torn' = torn
          /\ \A m \in Lines \ {l} : head'[m] = head[m] /\ staged'[m] = staged[m]
      BY <1>4, <1>5, <1>10
    <3> QED
      BY <1>1, <1>2, <1>6, <1>7, <2>1, <2>2, <2>4, <3>1, GoesOn
<1> QED
  BY <1>1, <1>9, <1>10 DEF Push

(* What a command keeps when it goes on to a repository. *)
LEMMA Went ==
  ASSUME MergeInv, NEW p \in Procs, proc[p].pc \notin {"idle", "wait"},
         NEW pc \in Pcs, NEW i \in Index, Goto(p, pc, i)
  PROVE  \E s \in ProcStates :
           /\ proc' = [proc EXCEPT ![p] = s] /\ proc'[p] = s
           /\ s.pc = pc /\ s.i = i /\ s.target = Here(p) /\ s.k = proc[p].k
           /\ s.kind = proc[p].kind /\ s.source = proc[p].source /\ s.plan = proc[p].plan
           /\ s.committed = proc[p].committed /\ s.mode = proc[p].mode
<1> DEFINE s == [proc[p] EXCEPT !.pc = pc, !.i = i]
<1>1. proc' = [proc EXCEPT ![p] = s]
  BY DEF Goto
<1>2. s \in ProcStates
  BY Fields, Around DEF MergeInv
<1>3. /\ s.pc = pc /\ s.i = i /\ s.target = Here(p) /\ s.k = proc[p].k
      /\ s.kind = proc[p].kind /\ s.source = proc[p].source /\ s.plan = proc[p].plan
      /\ s.committed = proc[p].committed /\ s.mode = proc[p].mode
  BY Holder DEF ProcStates
<1> HIDE DEF s
<1>4. proc'[p] = s
  BY <1>1 DEF MergeInv, MergeTyped
<1> QED
  BY <1>1, <1>2, <1>3, <1>4

(* Staging reads and writes MERGE_HEAD alone; undoing starts where all is as read, or
   behind it. *)
LEMMA StageStep ==
  ASSUME MergeInv, NEW p \in Procs, NEW result \in {"ok", "conflict", "error"}, Stage(p, result)
  PROVE  MergeInv'
<1>1. PICK l, i, source : l = Here(p) /\ i = proc[p].i /\ source = proc[p].plan[i].source
  OBVIOUS
<1>2. /\ proc[p].pc = "stage" /\ UNCHANGED <<head, remote, lock, started, outside, crashes, torn>>
  BY DEF Stage
<1>3. /\ l \in Lines /\ i \in Index /\ source \in CommitSets
      /\ \A j \in Index : proc[p].committed[j] = None
  BY <1>1, <1>2, Holder
<1>4. /\ l \notin torn => /\ Whole(Sources(p)) /\ Whole(Originals(p))
                         /\ \A j \in Index :
                              /\ AsRead(p, j)
                              /\ IF j < i THEN Pending(p, j) ELSE staged[l][j] = None
  BY <1>1, <1>2, Holder DEF PhaseHolds
<1>5. staged' = staged \/ staged' = [staged EXCEPT ![l][i] = source]
  BY <1>1 DEF Stage
<1>6. /\ staged' \in [Lines -> StagedRows]
      /\ \A m \in Lines \ {l} : staged'[m] = staged[m]
      /\ \A j \in Index \ {i} : staged'[l][j] = staged[l][j]
  <2>1. staged \in [Lines -> StagedRows] /\ staged \in [Lines -> [Index -> CommitSets \cup {None}]]
    BY DEF MergeInv, MergeTyped, StagedRows
  <2>2. [staged EXCEPT ![l][i] = source] \in [Lines -> StagedRows]
    BY <1>3, Writes DEF MergeInv
  <2> QED
    BY <1>3, <1>5, <2>1, <2>2
<1>7. /\ head' \in [Lines -> LineRows] /\ remote' \in [Lines -> LineRows]
      /\ \A m \in Lines \ {l} : head'[m] = head[m] /\ remote'[m] = remote[m]
      /\ \A j \in Index : remote'[l][j] \subseteq head'[l][j]
      /\ torn' = torn /\ UNCHANGED <<started, outside, crashes, lock, remote>>
  BY <1>2, <1>3 DEF MergeInv, MergeTyped, PushedIsKept
\* Every continuation keeps the plan.
<1>8. ASSUME NEW pc \in {"stage", "commit", "undo"}, NEW n \in Index, Goto(p, pc, n),
             NEW s \in ProcStates,
             proc' = [proc EXCEPT ![p] = s] /\ proc'[p] = s,
             s.pc = pc /\ s.i = n /\ s.target = l /\ s.k = proc[p].k,
             s.kind = proc[p].kind /\ s.source = proc[p].source /\ s.plan = proc[p].plan,
             s.committed = proc[p].committed,
             l \notin torn => PhaseHolds(p)'
      PROVE  MergeInv'
  <2>1. s.pc \notin {"idle", "wait"} /\ s.pc # "plan" /\ s.pc # "push" /\ proc[p].pc = "stage" /\ s.i \in Index
    BY <1>2, <1>8
  <2> QED
    BY <1>1, <1>6, <1>7, <1>8, <2>1, GoesOn
<1>9. ASSUME NEW s, proc'[p] = s, s.plan = proc[p].plan, s.target = l
      PROVE  /\ Here(p)' = l /\ (Whole(Sources(p))' <=> Whole(Sources(p)))
             /\ (Whole(Originals(p))' <=> Whole(Originals(p)))
             /\ \A j \in Index : AsRead(p, j)' <=> AsRead(p, j)
             /\ \A j \in Index \ {i} : Pending(p, j)' <=> Pending(p, j)
  <2>1. Here(p)' = l
    BY <1>9 DEF Here
  <2>2. \A j \in Index : AsRead(p, j)' <=> AsRead(p, j)
    BY <1>1, <1>2, <1>9, <2>1 DEF AsRead
  <2>3. \A j \in Index \ {i} : Pending(p, j)' <=> Pending(p, j)
    BY <1>1, <1>2, <1>6, <1>9, <2>1 DEF Pending
  <2>4. Sources(p)' = Sources(p) /\ Originals(p)' = Originals(p)
    BY <1>9 DEF Sources, Originals
  <2> QED
    BY <2>1, <2>2, <2>3, <2>4
<1>10. ASSUME NEW f \in Index, f = i \/ f = Len(Order), Goto(p, "undo", f) PROVE MergeInv'
  <2>1. PICK s \in ProcStates :
           /\ proc' = [proc EXCEPT ![p] = s] /\ proc'[p] = s
           /\ s.pc = "undo" /\ s.i = f /\ s.target = l /\ s.k = proc[p].k
           /\ s.kind = proc[p].kind /\ s.source = proc[p].source /\ s.plan = proc[p].plan
           /\ s.committed = proc[p].committed
    BY <1>1, <1>2, <1>10, Went DEF Pcs
  <2>2. \A j \in Index : j > f => j # i /\ ~(j < i)
    BY <1>3, <1>10, Around, Sets DEF Index
  <2>3. ASSUME l \notin torn PROVE PhaseHolds(p)'
    <3>1. /\ Whole(Originals(p))' /\ Here(p)' = l
          /\ \A j \in Index : AsRead(p, j)'
          /\ \A j \in Index : j > f => staged'[l][j] = None
      BY <1>4, <1>6, <1>9, <2>1, <2>2, <2>3
    <3> QED
      BY <1>3, <2>1, <3>1 DEF PhaseHolds
  <2> QED
    BY <1>8, <1>10, <2>1, <2>3
<1>11. ASSUME Onward(p, "commit"),
              staged'[l][i] = source \/ (staged'[l][i] = None /\ source \subseteq head[l][i])
       PROVE  MergeInv'
  <2>1. PICK pc, n : /\ Goto(p, pc, n)
                     /\ IF i < Len(Order) THEN pc = "stage" /\ n = i + 1
                                          ELSE pc = "commit" /\ n = 1
    BY <1>1, <1>2, <1>11 DEF Onward
  <2>2. n \in Index /\ pc \in {"stage", "commit"} /\ pc \in Pcs
    BY <1>3, <2>1, Around DEF Pcs
  <2>3. PICK s \in ProcStates :
           /\ proc' = [proc EXCEPT ![p] = s] /\ proc'[p] = s
           /\ s.pc = pc /\ s.i = n /\ s.target = l /\ s.k = proc[p].k
           /\ s.kind = proc[p].kind /\ s.source = proc[p].source /\ s.plan = proc[p].plan
           /\ s.committed = proc[p].committed
    BY <1>1, <1>2, <2>1, <2>2, Went
  <2>4. ASSUME l \notin torn PROVE PhaseHolds(p)'
    <3>1. /\ Whole(Sources(p))' /\ Whole(Originals(p))' /\ Here(p)' = l
          /\ \A j \in Index : AsRead(p, j)'
          /\ \A j \in Index : j < i => Pending(p, j)'
          /\ \A j \in Index : j > i => staged'[l][j] = None
      BY <1>3, <1>4, <1>6, <1>9, <2>3, <2>4, Around
    <3>2. Pending(p, i)'
      BY <1>1, <1>2, <1>11, <2>3, <3>1 DEF Pending
    <3>3. CASE i < Len(Order)
      <4>1. pc = "stage" /\ n = i + 1
        BY <2>1, <3>3
      <4>2. \A j \in Index : IF j < n THEN Pending(p, j)' ELSE staged'[l][j] = None
        BY <1>3, <3>1, <3>2, <4>1, Around
      <4> QED
        BY <2>3, <3>1, <4>1, <4>2 DEF PhaseHolds
    <3>4. CASE ~(i < Len(Order))
      <4>1. pc = "commit" /\ n = 1 /\ i = Len(Order)
        BY <1>3, <2>1, <3>4, Around
      <4>2. \A j \in Index : ~(j < n) /\ Pending(p, j)'
        BY <1>3, <3>1, <3>2, <4>1, Around
      <4> QED
        BY <1>3, <2>3, <3>1, <4>1, <4>2 DEF PhaseHolds
    <3> QED
      BY <3>3, <3>4
  <2> QED
    BY <1>8, <2>1, <2>2, <2>3, <2>4
<1>12. Failed(p, i) \in Index /\ (Failed(p, i) = i \/ Failed(p, i) = Len(Order))
  BY <1>3, Around DEF Failed
<1>13. CASE result = "error" \/ staged[l][i] # None
  <2>1. Goto(p, "undo", Failed(p, i))
    BY <1>1, <1>13 DEF Stage
  <2> QED
    BY <1>10, <1>12, <2>1
<1>14. CASE result # "error" /\ staged[l][i] = None /\ source \subseteq head[l][i]
  <2>1. UNCHANGED staged /\ (Onward(p, "commit") \/ Goto(p, "undo", i))
    BY <1>1, <1>14 DEF Stage
  <2> QED
    BY <1>3, <1>10, <1>11, <1>14, <2>1
<1>15. CASE result # "error" /\ staged[l][i] = None /\ ~(source \subseteq head[l][i])
  <2>1. /\ staged' = [staged EXCEPT ![l][i] = source]
        /\ Onward(p, "commit") \/ Goto(p, "undo", i) \/ Goto(p, "undo", Failed(p, i))
    BY <1>1, <1>15 DEF Stage
  <2>2. staged'[l][i] = source
    BY <1>3, <2>1 DEF MergeInv, MergeTyped, StagedRows
  <2> QED
    BY <1>3, <1>10, <1>11, <1>12, <2>1, <2>2
<1> QED
  BY <1>13, <1>14, <1>15

(* A merge commit adds the source, and no other task. *)
LEMMA MergedIs ==
  ASSUME NEW head1, NEW original, NEW source, NEW k \in Merges, Same(head1, original)
  PROVE  /\ Same(head1 \cup source \cup {k}, original \cup source)
         /\ source \subseteq head1 => Same(head1, original \cup source)
<1>1. k \notin Tasks
  BY Sets
<1> QED
  BY <1>1 DEF Same

(* A commit adds the source; after the last, all repositories have it. *)
LEMMA CommitStep ==
  ASSUME MergeInv, NEW p \in Procs, NEW result \in {"ok", "fails", "late"}, CommitMerge(p, result)
  PROVE  MergeInv'
<1>1. PICK l, i, plan, c : l = Here(p) /\ i = proc[p].i /\ plan = proc[p].plan /\ c = proc[p].committed
  OBVIOUS
<1>2. proc[p].pc = "commit" /\ UNCHANGED <<remote, started, outside, crashes>>
  BY DEF CommitMerge
<1>3. /\ l \in Lines /\ i \in Index /\ c \in StagedRows /\ proc[p].k \in Merges
      /\ \A j \in Index : plan[j].source \in CommitSets /\ plan[j].original \in CommitSets
      /\ proc[p].target = l
  BY <1>1, <1>2, Holder
<1>4. /\ torn' = IF result = "late" THEN torn \cup {l} ELSE torn
      /\ staged[l][i] = None => result = "ok"
  BY <1>1 DEF CommitMerge
<1>5. ASSUME l \notin torn
      PROVE  /\ Whole(Sources(p)) /\ Whole(Originals(p))
             /\ \A j \in Index : j < i =>
                  /\ staged[l][j] = None /\ Same(head[l][j], plan[j].original \cup plan[j].source)
                  /\ c[j] = None => Same(head[l][j], plan[j].original)
             /\ \A j \in Index : ~(j < i) =>
                  /\ Same(head[l][j], plan[j].original) /\ Pending(p, j) /\ c[j] = None
  <2>1. PhaseHolds(p)
    BY <1>1, <1>2, <1>5, Holder
  <2>2. /\ Whole(Sources(p)) /\ Whole(Originals(p))
        /\ \A j \in Index :
             IF j < i THEN Added(p, j) /\ (c[j] = None => AsRead(p, j))
             ELSE AsRead(p, j) /\ Pending(p, j) /\ c[j] = None
    BY <1>1, <1>2, <2>1 DEF PhaseHolds
  <2>3. \A j : /\ AsRead(p, j) <=> Same(head[l][j], plan[j].original)
               /\ Added(p, j) <=> /\ staged[l][j] = None
                                  /\ Same(head[l][j], plan[j].original \cup plan[j].source)
    BY <1>1 DEF Added, AsRead
  <2> QED
    BY <2>2, <2>3
<1> DEFINE new == head[l][i] \cup staged[l][i] \cup {proc[p].k}
<1>6. \/ /\ staged[l][i] # None /\ result # "fails"
         /\ head' = [head EXCEPT ![l][i] = new] /\ staged' = [staged EXCEPT ![l][i] = None]
      \/ /\ ~(staged[l][i] # None /\ result # "fails")
         /\ UNCHANGED <<head, staged>>
  BY <1>1 DEF CommitMerge, Committed
<1>7. /\ head[l][i] \in CommitSets /\ staged[l][i] \in CommitSets \cup {None}
      /\ head \in [Lines -> LineRows] /\ head \in [Lines -> [Index -> CommitSets]]
      /\ staged \in [Lines -> StagedRows] /\ staged \in [Lines -> [Index -> CommitSets \cup {None}]]
      /\ remote \in [Lines -> LineRows] /\ crashes \in Nat
  BY <1>3, Writes DEF MergeInv, MergeTyped, LineRows, StagedRows
<1>8. staged[l][i] # None => new \in CommitSets
  <2>1. {proc[p].k} \in CommitSets
    BY <1>3, Sets
  <2> QED
    BY <1>7, <2>1, Sets
<1>9. /\ head' \in [Lines -> LineRows] /\ staged' \in [Lines -> StagedRows]
      /\ \A m \in Lines \ {l} : head'[m] = head[m] /\ staged'[m] = staged[m]
      /\ \A j \in Index \ {i} : head'[l][j] = head[l][j] /\ staged'[l][j] = staged[l][j]
  <2>1. staged[l][i] # None => [head EXCEPT ![l][i] = new] \in [Lines -> LineRows]
    BY <1>3, <1>8, Writes DEF MergeInv
  <2>2. [staged EXCEPT ![l][i] = None] \in [Lines -> StagedRows]
    BY <1>3, Writes DEF MergeInv
  <2> HIDE DEF new
  <2>3. CASE staged[l][i] # None /\ head' = [head EXCEPT ![l][i] = new]
             /\ staged' = [staged EXCEPT ![l][i] = None]
    BY <1>3, <1>7, <2>1, <2>2, <2>3
  <2>4. CASE UNCHANGED <<head, staged>>
    BY <1>7, <2>4
  <2> QED
    BY <1>6, <2>3, <2>4
<1>10. \A j \in Index : remote'[l][j] \subseteq head'[l][j]
  <2>1. \A j \in Index : remote[l][j] \subseteq head[l][j]
    BY <1>3 DEF MergeInv, PushedIsKept
  <2>2. head[l][i] \subseteq head'[l][i]
    BY <1>3, <1>6, <1>7
  <2> QED
    BY <1>2, <1>3, <1>9, <2>1, <2>2
<1>11. remote' \in [Lines -> LineRows] /\ torn \subseteq torn' /\ torn' \subseteq torn \cup {l}
       /\ crashes' \in Nat /\ UNCHANGED <<started, outside>>
       /\ \A m \in Lines \ {l} : /\ head'[m] = head[m] /\ staged'[m] = staged[m]
                                 /\ remote'[m] = remote[m]
  BY <1>2, <1>4, <1>7, <1>9
<1>12. CASE result # "ok"
  <2>1. Goto(p, "undo", Len(Order)) /\ UNCHANGED lock /\ Len(Order) \in Index
    BY <1>1, <1>3, <1>12, Around DEF CommitMerge
  <2>2. PICK s \in ProcStates :
           /\ proc' = [proc EXCEPT ![p] = s] /\ proc'[p] = s
           /\ s.pc = "undo" /\ s.i = Len(Order) /\ s.target = l /\ s.k = proc[p].k
           /\ s.kind = proc[p].kind /\ s.source = proc[p].source /\ s.plan = proc[p].plan
           /\ s.committed = proc[p].committed
    BY <1>1, <1>2, <2>1, Went DEF Pcs
  <2>3. ASSUME l \notin torn' PROVE PhaseHolds(p)'
    <3>1. result = "fails" /\ UNCHANGED <<head, staged>> /\ l \notin torn
      BY <1>4, <1>6, <1>12, <2>3
    <3>2. Here(p)' = l /\ Originals(p)' = Originals(p)
      BY <2>2 DEF Here, Originals
    <3>3. \A j \in Index : AsRead(p, j)' <=> Same(head[l][j], plan[j].original)
      BY <1>1, <2>2, <3>1, <3>2 DEF AsRead
    <3>4. \A j \in Index : ~(j > Len(Order))
      BY <1>3, Around
    <3> QED
      BY <1>1, <1>5, <2>2, <3>1, <3>2, <3>3, <3>4 DEF PhaseHolds
  <2>4. s.pc \notin {"idle", "wait"} /\ s.pc # "plan" /\ s.pc # "push" /\ s.pc # "stage"
        /\ proc[p].pc # "push" /\ proc[p].pc # "plan" /\ s.i \in Index /\ proc[p].pc \notin {"idle", "wait"}
        /\ UNCHANGED <<started, outside, crashes, lock, remote>>
    BY <1>2, <2>1, <2>2
  <2> QED
    BY <1>1, <1>9, <1>10, <1>11, <2>2, <2>3, <2>4, GoesOn
<1>13. CASE result = "ok"
  <2>0. PICK mine : mine = IF staged[l][i] = None THEN None ELSE head'[l][i]
    OBVIOUS
  <2>1. /\ mine \in CommitSets \cup {None} /\ torn' = torn
        /\ staged[l][i] # None => mine # None /\ head'[l][i] = new /\ staged'[l][i] = None
        /\ staged[l][i] = None => mine = None /\ head'[l][i] = head[l][i] /\ staged'[l][i] = None
    <3> HIDE DEF new
    <3>1. CASE staged[l][i] = None
      BY <1>4, <1>6, <1>13, <2>0, <3>1
    <3>2. CASE staged[l][i] # None
      <4>1. head'[l][i] = new /\ staged'[l][i] = None
        BY <1>3, <1>6, <1>7, <1>13, <3>2
      <4> QED
        BY <1>4, <1>8, <1>13, <2>0, <3>2, <4>1, Sets
    <3> QED
      BY <3>1, <3>2
  <2>2. ASSUME l \notin torn
        PROVE  /\ staged'[l][i] = None
               /\ Same(head'[l][i], plan[i].original \cup plan[i].source)
               /\ mine = None => Same(head'[l][i], plan[i].original)
    <3>1. Same(head[l][i], plan[i].original) /\ Pending(p, i)
      BY <1>3, <1>5, <2>2, Around
    <3>2. CASE staged[l][i] = None
      BY <1>1, <1>3, <2>1, <3>1, <3>2, MergedIs, Sets DEF Pending
    <3>3. CASE staged[l][i] # None
      <4>1. staged[l][i] = plan[i].source
        BY <1>1, <3>1, <3>3 DEF Pending
      <4>2. head'[l][i] = head[l][i] \cup plan[i].source \cup {proc[p].k}
        BY <2>1, <3>3, <4>1
      <4>3. Same(head[l][i] \cup plan[i].source \cup {proc[p].k}, plan[i].original \cup plan[i].source)
        BY <1>3, <3>1, MergedIs
      <4> QED
        BY <2>1, <3>3, <4>2, <4>3
    <3> QED
      BY <3>2, <3>3
  <2>3. ASSUME l \notin torn, i = Len(Order) PROVE Clean(l)'
    <3>1. \A j \in Index : j = i \/ j < i
      BY <1>3, <2>3, Around
    <3>2. \A j \in Index : /\ staged'[l][j] = None
                          /\ Same(head'[l][j], plan[j].original \cup plan[j].source)
      BY <1>5, <1>9, <2>2, <2>3, <3>1
    <3>3. \A j, m \in Index : /\ Same(plan[j].original, plan[m].original)
                             /\ Same(plan[j].source, plan[m].source)
      BY <1>1, <1>5, <2>3 DEF Whole, Sources, Originals
    <3>4. \A j, m \in Index : Same(head'[l][j], head'[l][m])
      BY <3>2, <3>3 DEF Same
    <3> QED
      BY <3>2, <3>4 DEF Clean, Whole
  <2> DEFINE next == IF i < Len(Order) THEN "commit"
                     ELSE IF proc[p].mode = "push" THEN "push" ELSE "end"
  <2>4. CASE next = "end"
    <3>1. i = Len(Order) /\ proc' = [proc EXCEPT ![p] = Idle] /\ lock' = [lock EXCEPT ![l] = None]
      BY <1>1, <1>3, <1>13, <2>4, Around DEF CommitMerge, End, LockOf, Here
    <3>2. Idle.pc = "idle" /\ proc[p].pc \notin {"idle", "wait"}
      BY <1>2 DEF Idle
    <3>3. l \notin torn' => Clean(l)'
      BY <2>1, <2>3, <3>1
    <3> QED
      BY <1>1, <1>9, <1>10, <1>11, <3>1, <3>2, <3>3, IdleIs, Ends
  <2>5. CASE next # "end"
    <3> DEFINE s == [proc[p] EXCEPT !.committed[i] = mine, !.pc = next,
                                    !.i = IF i < Len(Order) THEN i + 1 ELSE 1]
    <3>1. /\ proc' = [proc EXCEPT ![p].committed[i] = mine, ![p].pc = next,
                                   ![p].i = IF i < Len(Order) THEN i + 1 ELSE 1]
          /\ UNCHANGED lock
      BY <1>1, <1>13, <2>0, <2>5 DEF CommitMerge
    <3>2. PICK done : done = [c EXCEPT ![i] = mine]
      OBVIOUS
    <3>3. done \in StagedRows /\ done[i] = mine /\ \A j \in Index \ {i} : done[j] = c[j]
      BY <1>3, <2>1, <3>2 DEF StagedRows
    <3>4. s = [proc[p] EXCEPT !.committed = done, !.pc = next, !.i = IF i < Len(Order) THEN i + 1 ELSE 1]
      BY <1>1, <3>2
    <3>5. proc' = [proc EXCEPT ![p] = s]
      BY <3>1
    <3>6. next \in {"commit", "push"} /\ next \in Pcs
          /\ (next = "commit" <=> i < Len(Order)) /\ (next = "push" => i = Len(Order))
          /\ (IF i < Len(Order) THEN i + 1 ELSE 1) \in Index
          /\ (IF i < Len(Order) THEN i + 1 ELSE 1) \in Nat
      BY <1>3, <2>5, Around DEF Pcs
    <3>7. s \in ProcStates
      BY <3>3, <3>4, <3>6, Fields DEF MergeInv
    <3>8. /\ s.pc = next /\ s.i = (IF i < Len(Order) THEN i + 1 ELSE 1) /\ s.target = l
          /\ s.k = proc[p].k /\ s.kind = proc[p].kind /\ s.source = proc[p].source
          /\ s.plan = plan /\ s.committed = done
      <4>1. proc[p] \in ProcStates
        BY Fields DEF MergeInv
      <4> QED
        BY <1>1, <1>3, <3>4, <4>1 DEF ProcStates
    <3> HIDE DEF s
    <3>9. proc'[p] = s
      BY <3>5 DEF MergeInv, MergeTyped
    <3>10. ASSUME l \notin torn' PROVE PhaseHolds(p)'
      <4>1. l \notin torn /\ Here(p)' = l
        BY <2>1, <3>8, <3>9, <3>10 DEF Here
      <4>2. CASE next = "push"
        BY <2>3, <3>6, <3>8, <3>9, <4>1, <4>2 DEF PhaseHolds
      <4>3. CASE next = "commit"
        <5>1. i < Len(Order) /\ s.i = i + 1
          BY <3>6, <3>8, <4>3
        <5>2. Sources(p)' = Sources(p) /\ Originals(p)' = Originals(p)
          BY <1>1, <3>8, <3>9 DEF Sources, Originals
        <5>3. \A j \in Index : j < i + 1 =>
                /\ staged'[l][j] = None /\ Same(head'[l][j], plan[j].original \cup plan[j].source)
                /\ done[j] = None => Same(head'[l][j], plan[j].original)
          BY <1>3, <1>5, <1>9, <2>2, <3>3, <4>1, Around
        <5>4. \A j \in Index : ~(j < i + 1) =>
                /\ Same(head'[l][j], plan[j].original) /\ Pending(p, j)' /\ done[j] = None
          <6>1. \A j \in Index : ~(j < i + 1) => j # i /\ ~(j < i)
            BY <1>3, Around
          <6>2. \A j \in Index \ {i} : Pending(p, j)' <=> Pending(p, j)
            BY <1>1, <1>9, <3>8, <3>9, <4>1 DEF Pending
          <6> QED
            BY <1>5, <1>9, <3>3, <4>1, <6>1, <6>2
        <5>5. \A j \in Index :
                IF j < i + 1 THEN Added(p, j)' /\ (done[j] = None => AsRead(p, j)')
                ELSE AsRead(p, j)' /\ Pending(p, j)' /\ done[j] = None
          BY <3>8, <3>9, <4>1, <5>3, <5>4 DEF Added, AsRead
        <5> QED
          BY <1>5, <3>8, <3>9, <4>1, <4>3, <5>1, <5>2, <5>5 DEF PhaseHolds
      <4> QED
        BY <3>6, <4>2, <4>3
    <3>11. /\ s.pc \notin {"idle", "wait"} /\ s.pc # "plan" /\ s.pc # "stage" /\ s.pc # "undo"
           /\ proc[p].pc # "push" /\ proc[p].pc # "plan" /\ s.i \in Index
           /\ proc[p].pc \notin {"idle", "wait"} /\ s.plan = proc[p].plan
           /\ UNCHANGED <<started, outside, crashes, lock, remote>>
      BY <1>1, <1>2, <3>1, <3>6, <3>8
    <3> QED
      BY <1>1, <1>9, <1>10, <1>11, <3>5, <3>7, <3>8, <3>10, <3>11, GoesOn
  <2> QED
    BY <2>4, <2>5
<1> QED
  BY <1>12, <1>13

(* Undoing leaves a repository as it was read, or the line counts as torn. *)
LEMMA UndoStep ==
  ASSUME MergeInv, NEW p \in Procs, NEW result \in {"ok", "fails", "raises"}, Undo(p, result)
  PROVE  MergeInv'
<1>1. PICK l, i, plan, c : l = Here(p) /\ i = proc[p].i /\ plan = proc[p].plan /\ c = proc[p].committed
  OBVIOUS
<1>2. proc[p].pc = "undo" /\ UNCHANGED <<remote, started, outside, crashes>>
  BY DEF Undo
<1>3. /\ l \in Lines /\ i \in Index /\ c \in StagedRows
      /\ \A j \in Index : plan[j].original \in CommitSets
      /\ proc[p].target = l /\ DOMAIN plan = Index
  BY <1>1, <1>2, Holder
<1> DEFINE abort == staged[l][i] # None
           reset == ~abort /\ c[i] # None /\ head[l][i] = c[i]
           lost  == \/ result # "ok" /\ (abort \/ reset)
                    \/ ~abort /\ c[i] # None /\ head[l][i] # c[i]
<1>4. /\ abort \/ reset \/ result = "ok"
      /\ staged' = IF abort /\ result = "ok" THEN [staged EXCEPT ![l][i] = None] ELSE staged
      /\ head' = IF reset /\ result = "ok" THEN [head EXCEPT ![l][i] = plan[i].original] ELSE head
      /\ torn' = IF lost THEN torn \cup {l} ELSE torn
  BY <1>1 DEF Undo
<1>5. ASSUME l \notin torn
      PROVE  /\ Whole(Originals(p))
             /\ \A j \in Index : j > i => Same(head[l][j], plan[j].original) /\ staged[l][j] = None
             /\ \A j \in Index : ~(j > i) => IF c[j] = None THEN Same(head[l][j], plan[j].original)
                                             ELSE staged[l][j] = None
  <2>1. PhaseHolds(p)
    BY <1>1, <1>2, <1>5, Holder
  <2>2. /\ Whole(Originals(p))
        /\ \A j \in Index :
             IF j > i THEN AsRead(p, j) /\ staged[l][j] = None
             ELSE IF c[j] = None THEN AsRead(p, j) ELSE staged[l][j] = None
    BY <1>1, <1>2, <2>1 DEF PhaseHolds
  <2>3. \A j : AsRead(p, j) <=> Same(head[l][j], plan[j].original)
    BY <1>1 DEF AsRead
  <2> QED
    BY <2>2, <2>3
<1>6. /\ head \in [Lines -> LineRows] /\ head \in [Lines -> [Index -> CommitSets]]
      /\ staged \in [Lines -> StagedRows] /\ staged \in [Lines -> [Index -> CommitSets \cup {None}]]
      /\ remote \in [Lines -> LineRows] /\ crashes \in Nat
  BY DEF MergeInv, MergeTyped, LineRows, StagedRows
<1>7. /\ head' \in [Lines -> LineRows] /\ staged' \in [Lines -> StagedRows]
      /\ \A m \in Lines \ {l} : head'[m] = head[m] /\ staged'[m] = staged[m]
      /\ \A j \in Index \ {i} : head'[l][j] = head[l][j] /\ staged'[l][j] = staged[l][j]
      /\ head'[l][i] = IF reset /\ result = "ok" THEN plan[i].original ELSE head[l][i]
      /\ staged'[l][i] = IF abort /\ result = "ok" THEN None ELSE staged[l][i]
  <2>1. [head EXCEPT ![l][i] = plan[i].original] \in [Lines -> LineRows]
    BY <1>3, Writes DEF MergeInv
  <2>2. [staged EXCEPT ![l][i] = None] \in [Lines -> StagedRows]
    BY <1>3, Writes DEF MergeInv
  <2> HIDE DEF abort, reset
  <2>3. /\ head' \in [Lines -> LineRows]
        /\ \A m \in Lines \ {l} : head'[m] = head[m]
        /\ \A j \in Index \ {i} : head'[l][j] = head[l][j]
        /\ head'[l][i] = IF reset /\ result = "ok" THEN plan[i].original ELSE head[l][i]
    BY <1>3, <1>4, <1>6, <2>1
  <2>4. /\ staged' \in [Lines -> StagedRows]
        /\ \A m \in Lines \ {l} : staged'[m] = staged[m]
        /\ \A j \in Index \ {i} : staged'[l][j] = staged[l][j]
        /\ staged'[l][i] = IF abort /\ result = "ok" THEN None ELSE staged[l][i]
    BY <1>3, <1>4, <1>6, <2>2
  <2> QED
    BY <2>3, <2>4
<1>8. \A j \in Index : remote'[l][j] \subseteq head'[l][j]
  <2>1. \A j \in Index : remote[l][j] \subseteq head[l][j]
    BY <1>3 DEF MergeInv, PushedIsKept
  <2>2. remote[l][i] \subseteq plan[i].original
    BY <1>1, <1>2, <1>3 DEF MergeInv, Keeps
  <2> QED
    BY <1>2, <1>3, <1>7, <2>1, <2>2
<1>9. remote' \in [Lines -> LineRows] /\ torn \subseteq torn' /\ torn' \subseteq torn \cup {l}
       /\ crashes' \in Nat /\ UNCHANGED <<started, outside>>
       /\ \A m \in Lines \ {l} : /\ head'[m] = head[m] /\ staged'[m] = staged[m]
                                 /\ remote'[m] = remote[m]
  BY <1>2, <1>4, <1>6, <1>7
<1>10. ASSUME l \notin torn'
       PROVE  /\ l \notin torn /\ result = "ok" /\ staged'[l][i] = None
              /\ Same(head'[l][i], plan[i].original)
  <2>1. l \notin torn /\ ~lost /\ result = "ok"
    BY <1>4, <1>10
  <2>2. IF c[i] = None THEN Same(head[l][i], plan[i].original) ELSE staged[l][i] = None
    BY <1>3, <1>5, <2>1, Around
  <2>3. CASE abort
    BY <1>7, <2>1, <2>2, <2>3
  <2>4. CASE reset
    BY <1>7, <2>1, <2>4 DEF Same
  <2>5. CASE ~abort /\ ~reset
    BY <1>7, <2>1, <2>2, <2>5
  <2> QED
    BY <2>3, <2>4, <2>5
<1>11. ASSUME l \notin torn'
       PROVE  \A j \in Index : ~(j < i) => Same(head'[l][j], plan[j].original) /\ staged'[l][j] = None
  BY <1>3, <1>5, <1>7, <1>10, <1>11, Around
<1>12. lost \in BOOLEAN /\ proc[p].whole \in BOOLEAN
  BY Fields DEF MergeInv, ProcStates
<1>13. CASE i > 1 /\ result # "raises"
  <2> DEFINE s == [proc[p] EXCEPT !.i = i - 1, !.whole = @ /\ ~lost]
  <2>1. /\ proc' = [proc EXCEPT ![p].i = i - 1, ![p].whole = @ /\ ~lost] /\ UNCHANGED lock
    BY <1>1, <1>13 DEF Undo
  <2>2. proc' = [proc EXCEPT ![p] = s]
    BY <2>1
  <2>3. s \in ProcStates /\ i - 1 \in Index
    <3>1. i - 1 \in Nat /\ i - 1 \in Index /\ (proc[p].whole /\ ~lost) \in BOOLEAN
      BY <1>3, <1>12, <1>13, Around
    <3> HIDE DEF lost
    <3> QED
      BY <3>1, Fields DEF MergeInv
  <2>4. /\ s.pc = "undo" /\ s.i = i - 1 /\ s.target = l
        /\ s.k = proc[p].k /\ s.kind = proc[p].kind /\ s.source = proc[p].source
        /\ s.plan = plan /\ s.committed = c
    <3>1. proc[p] \in ProcStates
      BY Fields DEF MergeInv
    <3> HIDE DEF lost
    <3> QED
      BY <1>1, <1>2, <1>3, <3>1 DEF ProcStates
  <2> HIDE DEF s
  <2>5. proc'[p] = s
    BY <2>2 DEF MergeInv, MergeTyped
  <2>6. ASSUME l \notin torn' PROVE PhaseHolds(p)'
    <3>1. Here(p)' = l /\ Originals(p)' = Originals(p)
      BY <1>1, <2>4, <2>5 DEF Here, Originals
    <3>2. \A j \in Index : AsRead(p, j)' <=> Same(head'[l][j], plan[j].original)
      BY <2>4, <2>5, <3>1 DEF AsRead
    <3>3. \A j \in Index : j > i - 1 => AsRead(p, j)' /\ staged'[l][j] = None
      BY <1>3, <1>11, <2>6, <3>2, Around
    <3>4. \A j \in Index : ~(j > i - 1) => IF c[j] = None THEN AsRead(p, j)' ELSE staged'[l][j] = None
      <4>1. \A j \in Index : ~(j > i - 1) => j # i /\ ~(j > i)
        BY <1>3, Around
      <4> QED
        BY <1>5, <1>7, <1>10, <2>6, <3>2, <4>1
    <3> QED
      BY <1>5, <1>10, <2>4, <2>5, <2>6, <3>1, <3>3, <3>4 DEF PhaseHolds
  <2>7. /\ s.pc \notin {"idle", "wait"} /\ s.pc # "plan" /\ s.pc # "stage" /\ s.pc # "push"
        /\ proc[p].pc # "push" /\ proc[p].pc # "plan" /\ s.i \in Index
        /\ proc[p].pc \notin {"idle", "wait"} /\ s.plan = proc[p].plan
        /\ UNCHANGED <<started, outside, crashes, lock, remote>>
    BY <1>1, <1>2, <2>1, <2>3, <2>4
  <2> QED
    BY <1>1, <1>7, <1>8, <1>9, <2>2, <2>3, <2>4, <2>6, <2>7, GoesOn
<1>14. CASE ~(i > 1 /\ result # "raises")
  <2> DEFINE s == [Idle EXCEPT !.whole = proc[p].whole /\ ~lost]
  <2>1. proc' = [proc EXCEPT ![p] = s] /\ lock' = [lock EXCEPT ![l] = None]
    BY <1>1, <1>14 DEF Undo, LockOf, Here
  <2>2. s \in ProcStates
    <3>1. (proc[p].whole /\ ~lost) \in BOOLEAN
      BY <1>12
    <3> HIDE DEF lost
    <3> QED
      BY <3>1, Fields DEF MergeInv
  <2>3. s.pc = "idle" /\ proc[p].pc \notin {"idle", "wait"}
    BY <1>2 DEF Idle
  <2> HIDE DEF s
  <2>4. ASSUME l \notin torn' PROVE Clean(l)'
    <3>1. i = 1 /\ l \notin torn
      BY <1>3, <1>10, <1>14, <2>4, Around
    <3>2. \A j \in Index : Same(head'[l][j], plan[j].original) /\ staged'[l][j] = None
      BY <1>11, <2>4, <3>1, Around
    <3>3. \A j, m \in Index : Same(plan[j].original, plan[m].original)
      BY <1>1, <1>5, <3>1 DEF Whole, Originals
    <3>4. \A j, m \in Index : Same(head'[l][j], head'[l][m])
      BY <3>2, <3>3 DEF Same
    <3> QED
      BY <3>2, <3>4 DEF Clean, Whole
  <2> QED
    BY <1>1, <1>7, <1>8, <1>9, <2>1, <2>2, <2>3, <2>4, Ends
<1> QED
  BY <1>13, <1>14

(* A commit by hand adds no task. *)
LEMMA ByHandStep ==
  ASSUME MergeInv, NEW l \in Lines, NEW i \in Index, CommitByHand(l, i)
  PROVE  MergeInv'
<1>1. PICK k : k = MaxMerges + outside + 1
  OBVIOUS
<1>2. /\ outside < MaxOutside /\ staged[l][i] = None
      /\ head' = [head EXCEPT ![l][i] = @ \cup {k}] /\ outside' = outside + 1
      /\ UNCHANGED <<staged, remote, lock, proc, started, crashes, torn>>
  BY <1>1 DEF CommitByHand
<1>3. k \in ByHand /\ outside + 1 \in 0..MaxOutside
  BY <1>1, <1>2, LineAssumption DEF MergeInv, MergeTyped, ByHand
<1>4. k \notin Tasks /\ {k} \in CommitSets
  BY <1>3, Sets
<1>5. head \in [Lines -> [Index -> CommitSets]] /\ head[l][i] \cup {k} \in CommitSets
  <2>1. head[l][i] \in CommitSets
    BY Writes DEF MergeInv
  <2>2. head[l][i] \cup {k} \in CommitSets
    BY <1>4, <2>1, Sets
  <2> QED
    BY <2>2 DEF MergeInv, MergeTyped, LineRows
<1>6. \A m \in Lines, j \in Index : /\ Same(head'[m][j], head[m][j]) /\ head[m][j] \subseteq head'[m][j]
  BY <1>2, <1>4, <1>5 DEF Same
<1>7. MergeTyped'
  <2>1. [head EXCEPT ![l][i] = head[l][i] \cup {k}] \in [Lines -> LineRows]
    BY <1>5, Writes DEF MergeInv
  <2>2. head' = [head EXCEPT ![l][i] = head[l][i] \cup {k}]
    BY <1>2
  <2>3. head' \in [Lines -> LineRows] /\ outside' \in 0..MaxOutside
    BY <1>2, <1>3, <2>1, <2>2
  <2> QED
    BY <1>2, <2>3 DEF MergeInv, MergeTyped
<1>8. PushedIsKept'
  BY <1>2, <1>6 DEF MergeInv, PushedIsKept
<1>9. Locks' /\ \A p \in Procs : Progress(p)' /\ Keeps(p)' /\ (Held(p)' <=> Held(p)) /\ Here(p)' = Here(p)
  BY <1>2 DEF MergeInv, Locks, Progress, Keeps, Held, Here
<1>10. \A m \in Lines : Clean(m) => Clean(m)'
  BY <1>2, <1>6 DEF Clean, Whole, Same
<1>11. \A m \in Lines : Rest(m)'
  BY <1>2, <1>10 DEF MergeInv, Rest
<1>12. ASSUME NEW p \in Procs PROVE Sound(p)'
  <2> SUFFICES ASSUME Held(p), Here(p) \notin torn PROVE PhaseHolds(p)'
    BY <1>2, <1>9 DEF Sound
  <2>1. PhaseHolds(p) /\ Here(p) \in Lines /\ Here(p)' = Here(p)
    BY <1>9, Holder DEF MergeInv, Held
  <2>2. Sources(p)' = Sources(p) /\ Originals(p)' = Originals(p)
    BY <1>2 DEF Sources, Originals
  <2>3. \A j \in Index :
          /\ AsRead(p, j) => AsRead(p, j)'
          /\ Pending(p, j) => Pending(p, j)'
          /\ Added(p, j) => Added(p, j)'
          /\ staged'[Here(p)'][j] = staged[Here(p)][j]
    <3> SUFFICES ASSUME NEW j \in Index
                 PROVE  /\ AsRead(p, j) => AsRead(p, j)'
                        /\ Pending(p, j) => Pending(p, j)'
                        /\ Added(p, j) => Added(p, j)'
                        /\ staged'[Here(p)'][j] = staged[Here(p)][j]
      OBVIOUS
    <3>1. Same(head'[Here(p)][j], head[Here(p)][j]) /\ head[Here(p)][j] \subseteq head'[Here(p)][j]
      BY <1>6, <2>1
    <3> QED
      BY <1>2, <2>1, <3>1 DEF AsRead, Pending, Added, Same
  <2>4. \A j \in 1..(proc[p].i - 1) : j \in Index
    BY Holder, Sets DEF Index, Held
  <2>5. Clean(Here(p)) => Clean(Here(p))'
    BY <1>10, <2>1
  <2>6. proc' = proc
    BY <1>2
  <2> USE <2>1, <2>2, <2>3, <2>6
  <2>7. CASE proc[p].pc = "plan"
    BY <2>4, <2>5, <2>7 DEF PhaseHolds
  <2>8. CASE proc[p].pc = "stage"
    BY <2>8 DEF PhaseHolds
  <2>9. CASE proc[p].pc = "commit"
    BY <2>9 DEF PhaseHolds
  <2>10. CASE proc[p].pc = "push"
    BY <2>5, <2>10 DEF PhaseHolds
  <2>11. CASE proc[p].pc = "undo"
    BY <2>11 DEF PhaseHolds
  <2> QED
    BY <2>7, <2>8, <2>9, <2>10, <2>11 DEF PhaseHolds
<1> QED
  BY <1>7, <1>8, <1>9, <1>11, <1>12 DEF MergeInv

(* Lines are clean when nothing has run. *)
LEMMA MergeFirst == MergeInit => MergeInv
<1> SUFFICES ASSUME MergeInit PROVE MergeInv
  OBVIOUS
<1>1. MergeTyped
  <2>1. /\ [i \in Index |-> {}] \in LineRows /\ [i \in Index |-> None] \in StagedRows
        /\ Idle.pc = "idle" /\ {} \in CommitSets
    BY Sets DEF LineRows, StagedRows, Idle
  <2>2. /\ head \in [Lines -> LineRows] /\ staged \in [Lines -> StagedRows]
        /\ remote \in [Lines -> LineRows] /\ lock \in [Lines -> Procs \cup {None}]
        /\ proc \in [Procs -> ProcStates]
    BY <2>1, IdleIs DEF MergeInit
  <2>3. /\ started \in 0..MaxMerges /\ outside \in 0..MaxOutside /\ crashes \in Nat
        /\ torn \subseteq Lines
    BY LineAssumption DEF MergeInit
  <2>4. \A p \in Procs : proc[p].pc = "idle"
    BY <2>1 DEF MergeInit
  <2> QED
    BY <2>2, <2>3, <2>4 DEF MergeTyped
<1>2. \A p \in Procs : proc[p].pc = "idle"
  BY DEF MergeInit, Idle
<1>3. \A p \in Procs : Progress(p) /\ Keeps(p) /\ Sound(p) /\ ~Held(p)
  BY <1>2 DEF Progress, Keeps, Sound, Held
<1>4. Locks /\ PushedIsKept
  BY <1>3 DEF MergeInit, Locks, PushedIsKept
<1>5. \A l \in Lines : Rest(l)
  BY DEF MergeInit, Rest, Clean, Whole, Same
<1> QED
  BY <1>1, <1>3, <1>4, <1>5 DEF MergeInv

(* The invariant is kept by every step. *)
LEMMA MergeStep == MergeInv /\ [MergeNext]_mergeVars => MergeInv'
<1> SUFFICES ASSUME MergeInv, [MergeNext]_mergeVars PROVE MergeInv'
  OBVIOUS
<1>1. CASE UNCHANGED mergeVars
  <2> USE <1>1 DEF mergeVars
  <2>1. MergeTyped' /\ Locks' /\ PushedIsKept'
    BY DEF MergeInv, MergeTyped, Locks, PushedIsKept, Held, Here
  <2>2. \A p \in Procs : Progress(p)' /\ Keeps(p)' /\ Sound(p)'
    BY Unmoved DEF MergeInv
  <2>3. \A l \in Lines : Rest(l)'
    BY DEF MergeInv, Rest, Clean
  <2> QED
    BY <2>1, <2>2, <2>3 DEF MergeInv
<1>2. ASSUME NEW p \in Procs, NEW mode \in Modes, NEW t \in Tasks, MergeTask(p, t, mode)
      PROVE  MergeInv'
  <2>1. "task" \in Kinds /\ LineOf[t] \in Lines
    BY LineAssumption DEF Kinds
  <2> QED
    BY <1>2, <2>1, StartStep DEF MergeTask
<1>3. ASSUME NEW p \in Procs, NEW mode \in Modes, NEW source \in Lines, NEW target \in Lines,
             MergeLine(p, source, target, mode)
      PROVE  MergeInv'
  <2>1. "line" \in Kinds
    BY DEF Kinds
  <2> QED
    BY <1>3, <2>1, StartStep DEF MergeLine
<1>4. ASSUME NEW p \in Procs, NEW mode \in Modes, NEW l \in Lines, Parent[l] # None,
             MergeLine(p, l, Parent[l], mode) \/ MergeLine(p, Parent[l], l, mode)
      PROVE  MergeInv'
  <2>1. Parent[l] \in Lines
    BY <1>4, LineAssumption
  <2> QED
    BY <1>3, <1>4, <2>1
<1>5. ASSUME NEW p \in Procs,
             \/ TakeLock(p) \/ LockTimeout(p) \/ Plan(p)
             \/ \E result \in {"ok", "conflict", "error"} : Stage(p, result)
             \/ \E result \in {"ok", "fails", "late"} : CommitMerge(p, result)
             \/ \E ok \in BOOLEAN : Push(p, ok)
             \/ \E result \in {"ok", "fails", "raises"} : Undo(p, result)
             \/ Crash(p)
      PROVE  MergeInv'
  BY <1>5, TakeLockStep, TimeoutStep, PlanStep, StageStep, CommitStep, PushStep, UndoStep, CrashStep
<1> QED
  BY <1>1, <1>2, <1>4, <1>5, ByHandStep DEF MergeNext

(* A line at rest holds every task in all repositories or in none, however merges
   interleave and fail, unless a command died in it or could not undo, and what was
   pushed stays (MergesWhole): for any
   processes, lines, tasks and number of repositories. *)
THEOREM MergesAreWhole == MergeSpec => []MergesWhole
<1>1. MergeInv => MergesWhole
  <2> SUFFICES ASSUME MergeInv PROVE WholeAtRest
    BY DEF MergeInv, MergesWhole
  <2> QED
    BY DEF MergeInv, WholeAtRest, Rest, Clean, Whole, Same
<1> QED
  BY MergeFirst, MergeStep, <1>1, PTL DEF MergeSpec
=============================================================================
