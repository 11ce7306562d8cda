----------------------------- MODULE Host_proofs -----------------------------
(* Proofs about what Dyro keeps and serves on one host: the list of projects  *)
(* (WorkspaceRegistry), what a dispatched run is shown of its project and     *)
(* what is left of it (DispatchContext), the state of the update check, the   *)
(* managed Skill, and the Console (ConsoleServer, ConsolePage).  The list can *)
(* be read again because an entry only comes in where no other has its name   *)
(* or its project, and a name keeps the set of the projects it was given to.  *)
(* A run is shown its base because the contents the project loses while the   *)
(* run is accepted do not come back: what is written is new, and HEAD goes    *)
(* forward.                                                                   *)
EXTENDS WorkspaceRegistry, DispatchContext, SkillInstall, UpdateCheck, ConsoleServer,
        ConsolePage, FiniteSetTheorems, SequenceTheorems, TLAPS

Entry == [name : Aliases, root : Roots, last : Roots \cup {NoAlias}]
CommandPcs == {"idle", "home", "ensure", "enter", "default", "remove"}

Apart(list) ==
  \A i, j \in DOMAIN list :
    list[i].name = list[j].name \/ list[i].root = list[j].root => i = j

(* The list can be read again, its default is in it, and it tells of every name and
   project that they belong together. *)
ListInv ==
  /\ entries \in Seq(Entry) /\ default \in Aliases \cup {NoAlias}
  /\ boundTo \in [Aliases -> SUBSET Roots]
  /\ Apart(entries)
  /\ default # NoAlias => Under(default) # {}
  /\ \A e \in Entries :
       /\ e.root \in boundTo[e.name]
       /\ e.last \in {NoAlias, e.root} \/ boundTo[e.name] # {e.root}

(* A command that is in a project got there by a name that was given to it. *)
CommandInv ==
  /\ command \in [Commands -> [pc : CommandPcs, root : Roots \cup {NoAlias},
                               name : Aliases \cup {NoAlias}, first : BOOLEAN]]
  /\ \A c \in Commands :
       /\ command[c].pc \in {"ensure", "enter"} => command[c].root \in Roots
       /\ command[c].pc \in {"enter", "home"} => command[c].name \in Aliases
       /\ command[c].pc = "home" => command[c].root \in boundTo[command[c].name]

RegistryInv == ListInv /\ CommandInv

(* A list without one of its places. *)
LEMMA RemovedAt ==
  ASSUME NEW S, NEW s \in Seq(S), NEW i \in 1..Len(s)
  PROVE  /\ RemoveAt(s, i) \in Seq(S)
         /\ Len(RemoveAt(s, i)) = Len(s) - 1
         /\ \A k \in 1..(Len(s) - 1) :
              RemoveAt(s, i)[k] = IF k < i THEN s[k] ELSE s[k + 1]
<1>1. /\ SubSeq(s, 1, i - 1) \in Seq(S) /\ Len(SubSeq(s, 1, i - 1)) = i - 1
      /\ \A k \in 1..(i - 1) : SubSeq(s, 1, i - 1)[k] = s[k]
  OBVIOUS
<1>2. /\ SubSeq(s, i + 1, Len(s)) \in Seq(S) /\ Len(SubSeq(s, i + 1, Len(s))) = Len(s) - i
      /\ \A k \in 1..(Len(s) - i) : SubSeq(s, i + 1, Len(s))[k] = s[i + k]
  OBVIOUS
<1> DEFINE front == SubSeq(s, 1, i - 1)
           back == SubSeq(s, i + 1, Len(s))
<1>3. front \in Seq(S) /\ back \in Seq(S) /\ Len(front) = i - 1 /\ Len(back) = Len(s) - i
  BY <1>1, <1>2
<1> HIDE DEF front, back
<1>4. Len(s) \in Nat /\ i - 1 + (Len(s) - i) = Len(s) - 1
  BY LenProperties
<1>5. /\ front \o back \in Seq(S) /\ Len(front \o back) = Len(s) - 1
      /\ \A k \in 1..(Len(s) - 1) :
           (front \o back)[k] = IF k < i THEN front[k] ELSE back[k - (i - 1)]
  <2>1. /\ front \o back \in Seq(S) /\ Len(front \o back) = Len(front) + Len(back)
        /\ \A k \in 1..(Len(front) + Len(back)) :
             (front \o back)[k] = IF k <= Len(front) THEN front[k] ELSE back[k - Len(front)]
    BY <1>3, ConcatProperties
  <2>2. Len(front) + Len(back) = Len(s) - 1
    BY <1>3, <1>4
  <2>3. \A k \in 1..(Len(s) - 1) : k <= Len(front) <=> k < i
    BY <1>3, <1>4
  <2> QED
    BY <1>3, <2>1, <2>2, <2>3
<1>6. \A k \in 1..(i - 1) : front[k] = s[k]
  BY <1>1 DEF front
<1>7. ASSUME NEW k \in 1..(Len(s) - 1), ~(k < i) PROVE back[k - (i - 1)] = s[k + 1]
  <2>1. k - (i - 1) \in 1..(Len(s) - i) /\ i + (k - (i - 1)) = k + 1
    BY <1>7, <1>4
  <2> QED
    BY <1>2, <2>1 DEF back
<1>8. \A k \in 1..(Len(s) - 1) : k < i => k \in 1..(i - 1)
  OBVIOUS
<1> QED
  BY <1>5, <1>6, <1>7, <1>8 DEF RemoveAt, front, back

(* What is left of the list without a name. *)
LEMMA WithoutIs ==
  ASSUME entries \in Seq(Entry), Apart(entries), NEW name
  PROVE  /\ Without(name) \in Seq(Entry)
         /\ ToSet(Without(name)) = {e \in Entries : e.name # name}
         /\ Apart(Without(name))
<1>1. CASE Under(name) = {}
  BY <1>1 DEF Without, Under, Entries
<1>2. CASE Under(name) # {}
  <2>1. PICK i \in 1..Len(entries) :
          Without(name) = RemoveAt(entries, i) /\ entries[i].name = name
    <3>1. \E i \in DOMAIN entries : entries[i].name = name
      BY <1>2 DEF Under, Entries, ToSet
    <3> DEFINE i == CHOOSE i \in DOMAIN entries : entries[i].name = name
    <3>2. i \in DOMAIN entries /\ entries[i].name = name
      BY <3>1
    <3>3. Without(name) = RemoveAt(entries, i)
      BY <1>2 DEF Without
    <3> HIDE DEF i
    <3> QED
      BY <3>2, <3>3
  <2> DEFINE rest == RemoveAt(entries, i)
  <2>2. /\ rest \in Seq(Entry) /\ Len(rest) = Len(entries) - 1
        /\ \A k \in 1..(Len(entries) - 1) :
             rest[k] = IF k < i THEN entries[k] ELSE entries[k + 1]
    BY RemovedAt
  <2> HIDE DEF rest
  <2>3. Apart(rest)
    BY SMTT(20), <2>2 DEF Apart
  <2>4. ASSUME NEW e \in ToSet(rest) PROVE e \in Entries /\ e.name # name
    BY SMTT(20), <2>1, <2>2, <2>4 DEF Entries, ToSet, Apart
  <2>5. ASSUME NEW e \in Entries, e.name # name PROVE e \in ToSet(rest)
    <3>1. PICK k \in 1..Len(entries) : entries[k] = e
      BY DEF Entries, ToSet
    <3>2. CASE k < i
      BY <2>2, <3>1, <3>2 DEF ToSet
    <3>3. CASE k > i
      <4>1. k - 1 \in 1..(Len(entries) - 1) /\ rest[k - 1] = e
        BY <2>2, <3>1, <3>3
      <4> QED
        BY <2>2, <4>1 DEF ToSet
    <3> QED
      BY <2>1, <2>5, <3>1, <3>2, <3>3
  <2> QED
    BY <2>1, <2>2, <2>3, <2>4, <2>5 DEF rest
<1> QED
  BY <1>1, <1>2

(* What is in the list. *)
LEMMA Listed ==
  ASSUME ListInv
  PROVE  /\ Entries \subseteq Entry
         /\ \A e, f \in Entries : e.name = f.name \/ e.root = f.root => e = f
  BY DEF ListInv, Entries, ToSet, Apart

(* An entry comes first, in the place of the one of its name. *)
LEMMA PutKeeps ==
  ASSUME ListInv, NEW e \in Entry, NEW d \in {e.name, default}, Put(e, d),
         \A f \in Entries : f.root = e.root => f.name = e.name,
         e.last \in {NoAlias, e.root} \/ boundTo[e.name] \cup {e.root} # {e.root}
  PROVE  /\ ListInv' /\ e.root \in boundTo'[e.name]
         /\ \A n \in Aliases : boundTo[n] \subseteq boundTo'[n]
<1> DEFINE rest == Without(e.name)
<1>1. /\ rest \in Seq(Entry) /\ Apart(rest)
      /\ ToSet(rest) = {f \in Entries : f.name # e.name}
  BY WithoutIs DEF ListInv
<1>2. /\ entries' = <<e>> \o rest /\ default' = d
      /\ boundTo' = [boundTo EXCEPT ![e.name] = @ \cup {e.root}]
  BY DEF Put
<1>3. e.name \in Aliases /\ e.root \in Roots
  BY DEF Entry
<1> HIDE DEF rest
<1>4. /\ <<e>> \in Seq(Entry) /\ Len(<<e>>) = 1 /\ <<e>>[1] = e
  OBVIOUS
<1>5. /\ entries' \in Seq(Entry) /\ Len(entries') = 1 + Len(rest) /\ Len(rest) \in Nat
      /\ \A k \in 1..(1 + Len(rest)) : entries'[k] = IF k = 1 THEN e ELSE rest[k - 1]
  <2>1. /\ entries' \in Seq(Entry) /\ Len(entries') = 1 + Len(rest)
        /\ \A k \in 1..(1 + Len(rest)) :
             entries'[k] = IF k <= 1 THEN <<e>>[k] ELSE rest[k - 1]
    BY <1>1, <1>2, <1>4, ConcatProperties
  <2> QED
    BY <1>1, <1>4, <2>1
<1>6. Entries' = {e} \cup {f \in Entries : f.name # e.name}
  <2>1. ASSUME NEW f \in Entries' PROVE f \in {e} \cup ToSet(rest)
    BY <1>1, <1>5, <2>1 DEF Entries, ToSet
  <2>2. e \in Entries'
    BY <1>5 DEF Entries, ToSet
  <2>3. ASSUME NEW f \in ToSet(rest) PROVE f \in Entries'
    <3>1. PICK k \in 1..Len(rest) : rest[k] = f
      BY <1>1 DEF ToSet
    <3>2. k + 1 \in 1..(1 + Len(rest)) /\ entries'[k + 1] = f
      BY <1>5, <3>1
    <3> QED
      BY <1>5, <3>2 DEF Entries, ToSet
  <2> QED
    BY <1>1, <2>1, <2>2, <2>3
<1>7. Apart(entries')
  <2>1. \A k \in 1..Len(rest) : rest[k].name # e.name /\ rest[k].root # e.root
    BY <1>1 DEF ToSet
  <2> SUFFICES ASSUME NEW j \in 1..(1 + Len(rest)), NEW k \in 1..(1 + Len(rest)),
                      \/ entries'[j].name = entries'[k].name
                      \/ entries'[j].root = entries'[k].root
               PROVE  j = k
    BY <1>5 DEF Apart
  <2>2. CASE j # 1 /\ k # 1
    <3>1. j - 1 \in DOMAIN rest /\ k - 1 \in DOMAIN rest
      BY <1>1, <1>5, <2>2
    <3> QED
      BY <1>1, <1>5, <2>2, <3>1 DEF Apart
  <2>3. CASE j = 1 /\ k # 1
    BY <1>5, <2>1, <2>3
  <2>4. CASE j # 1 /\ k = 1
    BY <1>5, <2>1, <2>4
  <2> QED
    BY <2>2, <2>3, <2>4
<1>8. default' # NoAlias => Under(default)' # {}
  BY <1>2, <1>6 DEF ListInv, Under
<1>9. /\ boundTo' \in [Aliases -> SUBSET Roots] /\ e.root \in boundTo'[e.name]
      /\ \A n \in Aliases : boundTo[n] \subseteq boundTo'[n]
      /\ boundTo'[e.name] = boundTo[e.name] \cup {e.root}
      /\ \A n \in Aliases : n # e.name => boundTo'[n] = boundTo[n]
  BY <1>2, <1>3 DEF ListInv
<1>10. \A f \in Entries' :
         /\ f.root \in boundTo'[f.name]
         /\ f.last \in {NoAlias, f.root} \/ boundTo'[f.name] # {f.root}
  BY <1>6, <1>9, Listed DEF ListInv, Entry
<1> QED
  BY <1>2, <1>3, <1>5, <1>7, <1>8, <1>9, <1>10 DEF ListInv

(* A command goes on to a project of a name that was given to it. *)
LEMMA TurnKeeps ==
  ASSUME CommandInv, NEW c \in Commands, NEW pc \in CommandPcs,
         NEW root \in Roots \cup {NoAlias}, NEW name \in Aliases \cup {NoAlias},
         NEW first \in BOOLEAN, Turn(c, pc, root, name, first),
         pc \in {"ensure", "enter"} => root \in Roots,
         pc \in {"enter", "home"} => name \in Aliases,
         pc = "home" => root \in boundTo'[name],
         \A n \in Aliases : boundTo[n] \subseteq boundTo'[n]
  PROVE  CommandInv'
  BY DEF CommandInv, Turn

(* A command that is over. *)
LEMMA OverKeeps ==
  ASSUME CommandInv, NEW c \in Commands, Over(c),
         \A n \in Aliases : boundTo[n] \subseteq boundTo'[n]
  PROVE  CommandInv'
  BY DEF CommandInv, Over, NoCommand, CommandPcs

(* A step that leaves the list alone. *)
LEMMA UnlistedKeeps == ASSUME ListInv, Unlisted PROVE ListInv'
  BY DEF ListInv, Unlisted, Entries, Under

(* register_workspace: a project is put into the list under a name. *)
LEMMA PutInKeeps ==
  ASSUME ListInv, NEW name \in Aliases, NEW root \in Roots, NEW makeDefault \in BOOLEAN,
         PutIn(name, root, makeDefault)
  PROVE  /\ ListInv' /\ root \in boundTo'[name]
         /\ \A n \in Aliases : boundTo[n] \subseteq boundTo'[n]
<1> DEFINE new == [name |-> name, root |-> root, last |-> NoAlias]
<1>1. PICK e \in IF Under(name) = {} THEN {new} ELSE Under(name) :
        Put(e, IF makeDefault \/ default = NoAlias THEN name ELSE default)
  BY DEF PutIn
<1>2. Addable(name, root)
  BY DEF PutIn
<1>3. e \in Entry /\ e.name = name /\ e.root = root
  BY <1>1, <1>2, Listed DEF Under, Addable, Entry
<1>4. e = new \/ e \in Entries
  BY <1>1 DEF Under
<1>5. e.last \in {NoAlias, e.root} \/ boundTo[e.name] \cup {e.root} # {e.root}
  BY <1>3, <1>4 DEF ListInv
<1>6. \A f \in Entries : f.root = e.root => f.name = e.name
  BY <1>2, <1>3 DEF Addable, Of
<1> QED
  BY <1>1, <1>3, <1>5, <1>6, PutKeeps

(* A command puts its project in. *)
LEMMA EnterKeeps ==
  ASSUME RegistryInv, NEW c \in Commands, Enter(c)
  PROVE  RegistryInv'
<1> DEFINE name == command[c].name
           root == command[c].root
<1>1. name \in Aliases /\ root \in Roots /\ command[c].first \in BOOLEAN
  BY DEF Enter, RegistryInv, CommandInv
<1>2. CASE PutIn(name, root, command[c].first) /\ Turn(c, "home", root, name, FALSE)
  BY <1>1, <1>2, PutInKeeps, TurnKeeps DEF RegistryInv, CommandPcs
<1>3. CASE Over(c) /\ Unlisted
  BY <1>3, OverKeeps, UnlistedKeeps DEF RegistryInv, Unlisted
<1> QED
  BY <1>2, <1>3 DEF Enter

(* A command notes what it used last. *)
LEMMA MarkUsedKeeps ==
  ASSUME RegistryInv, NEW c \in Commands, MarkUsed(c)
  PROVE  RegistryInv'
<1> DEFINE name == command[c].name
           root == command[c].root
<1>1. name \in Aliases /\ root \in boundTo[name] /\ boundTo[name] \subseteq Roots
  BY DEF MarkUsed, RegistryInv, ListInv, CommandInv
<1>2. ASSUME NEW e \in Under(name),
             Put([e EXCEPT !.last = root], IF default = NoAlias THEN name ELSE default)
      PROVE  RegistryInv'
  <2> DEFINE f == [e EXCEPT !.last = root]
  <2>1. e \in Entries /\ e \in Entry /\ e.name = name
    BY <1>2, Listed DEF Under, RegistryInv
  <2>2. f \in Entry /\ f.name = name /\ f.root = e.root /\ f.last = root
    BY <1>1, <2>1 DEF Entry
  <2>3. \A g \in Entries : g.root = f.root => g.name = f.name
    BY <2>1, <2>2, Listed DEF RegistryInv
  <2>4. ListInv' /\ \A n \in Aliases : boundTo[n] \subseteq boundTo'[n]
    <3> HIDE DEF f, name, root
    <3>1. f.last \in {NoAlias, f.root} \/ boundTo[f.name] \cup {f.root} # {f.root}
      BY <1>1, <2>2
    <3> QED
      BY <1>2, <2>2, <2>3, <3>1, PutKeeps DEF RegistryInv, f
  <2> QED
    BY <2>4, OverKeeps DEF RegistryInv, MarkUsed
<1>3. CASE Over(c) /\ Unlisted
  BY <1>3, OverKeeps, UnlistedKeeps DEF RegistryInv, Unlisted
<1> QED
  BY <1>2, <1>3 DEF MarkUsed

(* An entry is taken off the list. *)
LEMMA TakeOffKeeps ==
  ASSUME RegistryInv, NEW c \in Commands, TakeOff(c)
  PROVE  RegistryInv'
<1>1. CommandInv'
  BY OverKeeps DEF TakeOff, RegistryInv
<1>2. ASSUME NEW e \in Entries, entries' = Without(e.name),
             default' = IF default # e.name THEN default
                        ELSE IF entries' = <<>> THEN NoAlias ELSE Head(entries').name
      PROVE  ListInv'
  <2>1. /\ entries' \in Seq(Entry) /\ Apart(entries')
        /\ Entries' = {f \in Entries : f.name # e.name}
    BY <1>2, WithoutIs DEF RegistryInv, ListInv, Entries
  <2>2. entries' # <<>> => Head(entries') \in Entries' /\ Head(entries') \in Entry
    BY <2>1 DEF Entries, ToSet
  <2>3. default' \in Aliases \cup {NoAlias} /\ (default' # NoAlias => Under(default)' # {})
    BY <1>2, <2>1, <2>2 DEF RegistryInv, ListInv, Under, Entry
  <2> QED
    BY <2>1, <2>3 DEF TakeOff, RegistryInv, ListInv
<1>3. CASE UNCHANGED <<entries, default, boundTo>>
  BY <1>1, <1>3, UnlistedKeeps DEF RegistryInv, Unlisted
<1>4. Matching(command[c].name, TRUE) \subseteq Entries
  BY DEF Matching, Under
<1> QED
  BY <1>1, <1>2, <1>3, <1>4 DEF TakeOff, RegistryInv

(* The look of a command at the list, and its choice of a project. *)
LEMMA LooksKeep ==
  ASSUME RegistryInv, NEW c \in Commands,
         \/ \E root \in Roots : OpenAt(c, root)
         \/ OpenDefault(c) \/ Ensure(c) \/ Switch(c) \/ Close(c)
         \/ \E name \in Aliases, what \in {"default", "remove"} : Ask(c, what, name)
  PROVE  RegistryInv'
<1>1. ASSUME NEW e \in Entries, Turn(c, "home", e.root, e.name, FALSE), Unlisted
      PROVE  RegistryInv'
  <2>1. e.root \in Roots /\ e.name \in Aliases /\ e.root \in boundTo[e.name]
    BY Listed DEF RegistryInv, ListInv, Entry
  <2> QED
    BY <1>1, <2>1, TurnKeeps, UnlistedKeeps DEF RegistryInv, CommandPcs, Unlisted
<1>2. ASSUME NEW root \in Roots, OpenAt(c, root) PROVE RegistryInv'
  <2>1. CASE Turn(c, "ensure", root, NoAlias, FALSE) /\ Unlisted
    BY <2>1, TurnKeeps, UnlistedKeeps DEF RegistryInv, CommandPcs, Unlisted
  <2> QED
    BY <1>1, <1>2, <2>1 DEF OpenAt, Of
<1>3. CASE Ensure(c)
  <2>1. command[c].root \in Roots
    BY <1>3 DEF Ensure, RegistryInv, CommandInv
  <2>2. ASSUME NEW k \in DOMAIN OwnNames[command[c].root],
               Turn(c, "enter", command[c].root, OwnNames[command[c].root][k],
                    default = NoAlias),
               Unlisted
        PROVE  RegistryInv'
    <3>1. OwnNames[command[c].root][k] \in Aliases
      BY <2>1, RegistryAssumption DEF ToSet
    <3> QED
      BY <2>1, <2>2, <3>1, TurnKeeps, UnlistedKeeps DEF RegistryInv, CommandPcs, Unlisted
  <2> QED
    BY <1>1, <1>3, <2>2 DEF Ensure, Of
<1>4. ASSUME NEW what \in {"default", "remove"}, NEW e \in Entries,
             Turn(c, what, NoAlias, e.name, FALSE), Unlisted
      PROVE  RegistryInv'
  <2>1. e.name \in Aliases
    BY Listed DEF RegistryInv, Entry
  <2> QED
    BY <1>4, <2>1, TurnKeeps, UnlistedKeeps DEF RegistryInv, CommandPcs, Unlisted
<1>5. CASE Over(c) /\ Unlisted
  BY <1>5, OverKeeps, UnlistedKeeps DEF RegistryInv, Unlisted
<1> QED
  BY <1>1, <1>2, <1>3, <1>4, <1>5 DEF OpenDefault, Switch, Close, Ask, Matching, Under

(* The default is the name of an entry. *)
LEMMA SetDefaultKeeps ==
  ASSUME RegistryInv, NEW c \in Commands, SetDefault(c)
  PROVE  RegistryInv'
<1>1. CommandInv'
  BY OverKeeps DEF SetDefault, RegistryInv
<1>2. Matching(command[c].name, FALSE) \subseteq Entries
  BY DEF Matching
<1>3. UNCHANGED <<entries, boundTo, Entries>>
  BY DEF SetDefault, Entries
<1>4. default' \in Aliases \cup {NoAlias} /\ (default' # NoAlias => Under(default') # {})
  BY <1>2, Listed DEF SetDefault, RegistryInv, ListInv, Under, Entry
<1> QED
  BY <1>1, <1>3, <1>4 DEF RegistryInv, ListInv, Under

(* A step of a command keeps what holds of the list. *)
LEMMA RegistryKeeps == ASSUME RegistryInv, [RegistryNext]_registryVars PROVE RegistryInv'
<1>1. ASSUME NEW c \in Commands, NEW name \in Aliases, OpenNamed(c, name)
      PROVE  RegistryInv'
  <2>1. PICK e \in Entries : OpenAt(c, e.root)
    BY <1>1 DEF OpenNamed, Matching
  <2>2. e.root \in Roots
    BY Listed DEF RegistryInv, Entry
  <2> QED
    BY <2>1, <2>2, LooksKeep
<1>2. ASSUME NEW name \in Aliases, NEW root \in Roots, NEW makeDefault \in BOOLEAN,
             AddNamed(name, root, makeDefault)
      PROVE  RegistryInv'
  BY <1>2, PutInKeeps DEF AddNamed, RegistryInv, CommandInv
<1>3. CASE UNCHANGED registryVars
  BY <1>3 DEF registryVars, RegistryInv, ListInv, CommandInv, Entries, Under
<1> QED
  BY <1>1, <1>2, <1>3, LooksKeep, EnterKeeps, MarkUsedKeeps, SetDefaultKeeps, TakeOffKeeps
  DEF RegistryNext

(* There are as many entries as places in the list. *)
LEMMA Counted ==
  ASSUME ListInv
  PROVE  Len(entries) = Cardinality(Entries)
<1> DEFINE at == [k \in 1..Len(entries) |-> entries[k]]
<1>1. Len(entries) \in Nat
  BY DEF ListInv
<1>2. at \in Bijection(1..Len(entries), Entries)
  <2>1. at \in [1..Len(entries) -> Entries] /\ DOMAIN entries = 1..Len(entries)
    BY DEF ListInv, Entries, ToSet
  <2>2. \A j, k \in 1..Len(entries) : at[j] = at[k] => j = k
    BY <2>1 DEF ListInv, Apart
  <2>3. \A e \in Entries : \E k \in 1..Len(entries) : at[k] = e
    BY <2>1 DEF Entries, ToSet
  <2> HIDE DEF at
  <2> QED
    BY <2>1, <2>2, <2>3 DEF Bijection, Injection, Surjection, IsInjective
<1> QED
  BY <1>1, <1>2, FS_CountingElements DEF ExistsBijection

(* However commands that open, use, name and remove projects overlap, the list can
   be read again, its default is in it, and what an entry says was opened last is of
   its own project, unless its name was given to another in between. *)
THEOREM EntriesStay == RegistrySpec => []EntriesHold
<1>1. RegistryInit => RegistryInv
  <2> SUFFICES ASSUME RegistryInit PROVE RegistryInv
    OBVIOUS
  <2>1. Entries = {}
    BY DEF RegistryInit, Entries, ToSet
  <2>2. CommandInv
    BY DEF RegistryInit, CommandInv, NoCommand, CommandPcs
  <2>3. ListInv
    BY <2>1 DEF RegistryInit, ListInv, Apart
  <2> QED
    BY <2>2, <2>3 DEF RegistryInv
<1>2. RegistryInv => EntriesHold
  BY Listed, Counted DEF RegistryInv, ListInv, EntriesHold
<1> QED
  BY <1>1, <1>2, RegistryKeeps, PTL DEF RegistrySpec

-----------------------------------------------------------------------------
(* Contexts.                                                                 *)

Seens == UNION {[fs -> Nat] : fs \in SUBSET FileSet}
Maybe(S) == S \cup {Nothing}
AcceptorPcs == {"idle", "refused", "read", "status", "head", "create", "accepted"}
WorkerPcs == {"idle", "spawned", "start", "read", "compared", "place", "placed",
              "running", "ran", "clean", "publish", "done", "dead"}

ProjectType ==
  /\ contract \in [mode : {"read-only", "edit"}, async : BOOLEAN]
  /\ spent \in [edits : Nat, faults : Nat]
  /\ commits \in Seq(Trees)
  /\ project \in [head : Nat, tree : Trees]
  /\ route \in Nat /\ returned \in BOOLEAN
AcceptorType ==
  acceptor \in [pc : AcceptorPcs, todo : SUBSET DOMAIN Files, seen : Seens, head : Nat]
RecordType ==
  record \in [status : Verdicts \cup {"absent", "accepted", "running", "deleted"},
              context : Seens, base : Nat, route : Nat, cancel : BOOLEAN, shadow : BOOLEAN,
              patch : Maybe(Trees), warned : BOOLEAN, by : {"nobody", "worker", "reconciler"}]
WorkerType ==
  worker \in [pc : WorkerPcs, todo : SUBSET DOMAIN Files, seen : Seens,
              outcome : Answers \cup {"none", "cancelled"}, warned : BOOLEAN,
              sealed : Maybe(Trees)]
ArtType ==
  art \in [shadow : Maybe(Seens), tree : Maybe([files : Trees, head : Trees]),
           patchDir : BOOLEAN, patch : Maybe(Trees), home : BOOLEAN]
WorkType == work \in [tree : Maybe(Trees), committed : BOOLEAN]
ContextType ==
  ProjectType /\ AcceptorType /\ RecordType /\ WorkerType /\ ArtType /\ WorkType

(* What the files and the commits have in them was written. *)
Written(v) == v \in 0..spent.edits \cup {Gone}
ProjectInv ==
  /\ project.head \in DOMAIN commits
  /\ \A f \in FileSet :
       Written(project.tree[f]) /\ \A c \in DOMAIN commits : Written(commits[c][f])

(* What was read was written, and is not what the guard refuses. *)
Guarded(seen) ==
  \A f \in DOMAIN seen : seen[f] \in 0..spent.edits /\ seen[f] \notin Denied \cup {Gone}

(* A content that the project has lost does not come back without a return. *)
Lost(f) ==
  /\ project.tree[f] # acceptor.seen[f]
  /\ commits[project.head][f] # acceptor.seen[f]
InBaseOrLost ==
  \A f \in DOMAIN acceptor.seen : commits[acceptor.head][f] = acceptor.seen[f] \/ Lost(f)

(* An edit run is accepted at a commit which has the contents that were read, but
   for those the project has lost. *)
AcceptorInv ==
  /\ Guarded(acceptor.seen)
  /\ contract.mode = "edit" /\ acceptor.pc \in {"status", "head", "create", "accepted"} =>
       acceptor.head \in DOMAIN commits
  /\ contract.mode = "edit" /\ ~returned =>
       /\ acceptor.pc \in {"status", "head"} => acceptor.head <= project.head
       /\ acceptor.pc = "head" /\ acceptor.head = project.head => InBaseOrLost
       /\ acceptor.pc \in {"create", "accepted"} => InBaseOrLost

(* The run is what was accepted, and its worker has it or is not at work. *)
RunInv ==
  /\ acceptor.pc = "accepted" <=> record.status # "absent"
  /\ acceptor.pc = "accepted" => record.context = acceptor.seen /\ record.base = acceptor.head
  /\ worker.pc # "idle" => acceptor.pc = "accepted"
  /\ worker.pc \notin {"idle", "spawned", "done", "dead"} => record.status = "running"
  /\ record.status = "deleted" => worker.pc \in {"idle", "done", "dead"}
  /\ record.by = "worker" => worker.pc = "done"

(* What the worker reads is in the base if it is what was accepted. *)
WorkerInv ==
  /\ Guarded(worker.seen)
  /\ worker.pc \in {"idle", "spawned", "start"} => worker.seen = <<>>
  /\ worker.pc \in {"compared", "place", "placed", "running"} => worker.seen = record.context
  /\ contract.mode = "edit" /\ ~returned =>
       \A f \in DOMAIN worker.seen \cap DOMAIN record.context :
         worker.seen[f] = record.context[f] => commits[record.base][f] = worker.seen[f]

(* The worktree is at the base until the provider commits, and what it has more is
   what the patch becomes. *)
Patch == IF work.tree = commits[record.base] THEN Nothing ELSE work.tree
WorkInv ==
  /\ contract.mode # "edit" \/ worker.pc \in {"idle", "spawned", "start", "read", "compared",
                                              "place"} => art.tree = Nothing
  /\ worker.pc = "publish" => art.tree = Nothing \/ worker.warned
  /\ contract.mode = "edit" /\ worker.pc \in {"placed", "running", "ran"} =>
       /\ art.tree # Nothing
       /\ ~work.committed => art.tree.head = commits[record.base]
       /\ worker.pc = "ran" => work.tree = art.tree.files
  /\ contract.mode = "edit" /\ worker.pc \in {"clean", "publish"} /\ ~work.committed
       /\ worker.outcome \in {"ok", "timeout"}
     => worker.sealed = Patch /\ art.patch = worker.sealed

ContextInv ==
  /\ ContextType /\ ProjectInv /\ AcceptorInv /\ RunInv /\ WorkerInv /\ WorkInv
  /\ PatchIsWork /\ LeftIsFound

(* What was read of some files. *)
LEMMA SeenIs ==
  /\ <<>> \in Seens /\ DOMAIN <<>> = {}
  /\ \A s \in Seens : DOMAIN s \subseteq FileSet /\ \A f \in DOMAIN s : s[f] \in Nat
<1>1. <<>> \in [{} -> Nat] /\ DOMAIN <<>> = {}
  OBVIOUS
<1> QED
  BY ZenonT(30), <1>1 DEF Seens

(* A reader reads one file more. *)
LEMMA OneMore ==
  ASSUME ProjectType, NEW seen \in Seens, NEW f \in FileSet,
         project.tree[f] \notin Denied \cup {Gone}
  PROVE  /\ With(seen, f) \in Seens
         /\ DOMAIN With(seen, f) = DOMAIN seen \cup {f}
         /\ \A g \in DOMAIN With(seen, f) :
              With(seen, f)[g] = IF g = f THEN project.tree[f] ELSE seen[g]
<1>1. project.tree[f] \in Nat
  BY DEF ProjectType, Trees
<1>2. DOMAIN seen \subseteq FileSet /\ \A g \in DOMAIN seen : seen[g] \in Nat
  BY SeenIs
<1>3. With(seen, f) \in [DOMAIN seen \cup {f} -> Nat] /\ DOMAIN seen \cup {f} \subseteq FileSet
  BY <1>1, <1>2 DEF With
<1>4. With(seen, f) \in Seens
  BY <1>3 DEF Seens
<1> QED
  BY <1>3, <1>4 DEF With

(* The types hold when a run is accepted. *)
LEMMA AcceptTypes == ASSUME ContextType, AcceptStep PROVE ContextType'
<1>1. UNCHANGED <<contract, project, commits, route, record, worker, art, spent, returned, work>>
  BY DEF AcceptStep
<1>2. ASSUME AcceptRead PROVE AcceptorType'
  <2>1. PICK i \in Foremost(acceptor) :
          acceptor' = IF Readable(i) THEN ReadNext(acceptor, i)
                      ELSE [NoRead EXCEPT !.pc = "refused"]
    BY <1>2 DEF AcceptRead
  <2>2. Files[i] \in FileSet /\ i \in acceptor.todo
    BY DEF Foremost, FileSet, ContextType, AcceptorType
  <2>3. Readable(i) => With(acceptor.seen, Files[i]) \in Seens
    BY <2>2, OneMore DEF Readable, ContextType, AcceptorType
  <2>4. CASE Readable(i)
    BY <2>1, <2>3, <2>4 DEF ReadNext, ContextType, AcceptorType
  <2>5. CASE ~Readable(i)
    BY <2>1, <2>5, SeenIs DEF NoRead, AcceptorType, AcceptorPcs
  <2> QED
    BY <2>4, <2>5
<1>3. ASSUME Expand PROVE AcceptorType'
  BY <1>3, SeenIs DEF Expand, NoRead, Matched, AcceptorType, AcceptorPcs
<1>4. ASSUME ReviewHead PROVE AcceptorType'
  BY <1>4 DEF ReviewHead, ContextType, ProjectType, AcceptorType, AcceptorPcs
<1>5. ASSUME ReviewStatus \/ ReviewAgain PROVE AcceptorType'
  BY <1>5 DEF ReviewStatus, ReviewAgain, ContextType, AcceptorType, AcceptorPcs
<1>6. AcceptorType'
  BY <1>2, <1>3, <1>4, <1>5 DEF AcceptStep, ContextType
<1> QED
  BY <1>1, <1>6 DEF ContextType, ProjectType, RecordType, WorkerType, ArtType, WorkType

(* They hold when a record changes, *)
LEMMA RecordTypes ==
  ASSUME ContextType, Create \/ RequestCancel \/ Reconcile \/ GcRecord
  PROVE  ContextType'
<1>1. UNCHANGED <<contract, project, commits, route, worker, art, spent, returned, work>>
  BY DEF Create, RequestCancel, Reconcile, GcRecord
<1>2. AcceptorType'
  BY DEF Create, RequestCancel, Reconcile, GcRecord, ContextType, AcceptorType, AcceptorPcs
<1>3. RecordType'
  <2>1. CASE Create
    BY <2>1 DEF Create, ContextType, AcceptorType, RecordType, ProjectType, Selected
  <2>2. CASE RequestCancel
    BY <2>2 DEF RequestCancel, ContextType, RecordType, Verdicts
  <2>3. CASE Reconcile
    BY <2>3 DEF Reconcile, ContextType, RecordType, Verdicts
  <2>4. CASE GcRecord
    BY <2>4 DEF GcRecord, ContextType, RecordType
  <2> QED
    BY <2>1, <2>2, <2>3, <2>4
<1> QED
  BY <1>1, <1>2, <1>3 DEF ContextType, ProjectType, WorkerType, ArtType, WorkType

(* when the worker looks at the project, *)
LEMMA LookTypes == ASSUME ContextType, WorkerLooks \/ Placed PROVE ContextType'
<1>1. UNCHANGED <<contract, project, commits, route, acceptor, record, art, returned, work>>
  BY DEF WorkerLooks, Placed
<1>2. spent' \in [edits : Nat, faults : Nat]
  BY DEF WorkerLooks, Placed, Start, WorkRead, Compare, Compared, Checked, Fault,
         ContextType, ProjectType
<1>3. ASSUME WorkRead PROVE WorkerType'
  <2>1. PICK i \in Foremost(worker) :
          IF Readable(i) THEN worker' = ReadNext(worker, i) ELSE Leave("raised")
    BY <1>3 DEF WorkRead
  <2>2. Files[i] \in FileSet
    BY DEF Foremost, FileSet, ContextType, WorkerType
  <2>3. Readable(i) => With(worker.seen, Files[i]) \in Seens
    BY <2>2, OneMore DEF Readable, ContextType, WorkerType
  <2> QED
    BY ZenonT(30), <2>1, <2>3 DEF ReadNext, Leave, ContextType, WorkerType, WorkerPcs, Answers
<1>4. ASSUME Start \/ Compared \/ Placed PROVE WorkerType'
  BY ZenonT(30), <1>4
  DEF Start, Compared, Placed, Checked, To, Leave, Matched, ContextType, WorkerType,
      WorkerPcs, Answers
<1>5. ASSUME Compare PROVE WorkerType'
  BY ZenonT(30), <1>5 DEF Compare, To, Leave, ContextType, WorkerType, WorkerPcs, Answers
<1>6. WorkerType'
  BY <1>3, <1>4, <1>5 DEF WorkerLooks
<1> QED
  BY <1>1, <1>2, <1>6
  DEF ContextType, AcceptorType, ProjectType, RecordType, ArtType, WorkType

(* when it starts, works and ends, *)
LEMMA RunTypes ==
  ASSUME ContextType,
         Spawn \/ ClaimRun \/ CleanUp \/ Publish \/ Die \/ \E o \in Answers : ProviderEnds(o)
  PROVE  ContextType'
<1>1. UNCHANGED <<contract, project, commits, route, acceptor, returned>>
  BY DEF Spawn, ClaimRun, ProviderEnds, CleanUp, Publish, Die
<1>2. spent' \in [edits : Nat, faults : Nat]
  <2>1. UNCHANGED spent \/ Fault
    BY DEF Spawn, ClaimRun, ProviderEnds, CleanUp, Publish, Die
  <2> QED
    BY <2>1 DEF Fault, ContextType, ProjectType
<1>3. RecordType'
  <2>1. CASE Publish
    <3>1. Verdict \in Verdicts /\ worker.sealed \in Maybe(Trees) /\ worker.warned \in BOOLEAN
      BY DEF Verdict, Verdicts, ContextType, WorkerType
    <3> QED
      BY <2>1, <3>1 DEF Publish, Maybe, ContextType, RecordType
  <2>2. CASE Spawn
    BY <2>2 DEF Spawn, Verdicts, ContextType, RecordType
  <2>3. CASE ClaimRun
    BY <2>3 DEF ClaimRun, ContextType, RecordType
  <2> QED
    BY <2>1, <2>2, <2>3 DEF ProviderEnds, CleanUp, Die, ContextType, RecordType
<1>4. WorkerType'
  <2>1. CASE \E o \in Answers : ProviderEnds(o)
    BY <2>1 DEF ProviderEnds, Answers, ContextType, WorkerType, WorkerPcs
  <2>2. CASE Spawn \/ ClaimRun \/ Publish \/ Die
    BY <2>2 DEF Spawn, ClaimRun, Publish, Die, To, ContextType, WorkerType, WorkerPcs
  <2>3. CASE CleanUp
    BY <2>3 DEF CleanUp, To, ContextType, WorkerType, WorkerPcs
  <2> QED
    BY <2>1, <2>2, <2>3
<1>5. ArtType'
  <2>1. CASE Spawn
    BY <2>1 DEF Spawn, HomeMade, ContextType, ArtType
  <2>2. CASE CleanUp
    BY <2>2 DEF CleanUp, Maybe, ContextType, ArtType
  <2> QED
    BY <2>1, <2>2 DEF ClaimRun, ProviderEnds, Publish, Die, ContextType, ArtType
<1>6. WorkType'
  <2>1. CASE \E o \in Answers : ProviderEnds(o)
    BY <2>1 DEF ProviderEnds, Maybe, ContextType, WorkType, ArtType
  <2> QED
    BY <2>1 DEF Spawn, ClaimRun, CleanUp, Publish, Die, ContextType, WorkType
<1> QED
  BY <1>1, <1>2, <1>3, <1>4, <1>5, <1>6 DEF ContextType, AcceptorType, ProjectType

(* and when it places, seals and removes what it keeps. *)
LEMMA PlaceTypes ==
  ASSUME ContextType, RunInv, AcceptorInv,
         \/ PlaceShadow \/ PlaceWorktree \/ ProviderCommits
         \/ \E f \in FileSet : ProviderEdits(f)
         \/ Seal \/ ReapHome \/ GcArtifact
  PROVE  ContextType'
<1>1. UNCHANGED <<contract, project, commits, route, acceptor, record, returned>>
  BY DEF PlaceShadow, PlaceWorktree, ProviderCommits, ProviderEdits, Seal, ReapHome,
         GcArtifact
<1>2. spent' \in [edits : Nat, faults : Nat]
  <2>1. CASE \E f \in FileSet : ProviderEdits(f)
    BY <2>1 DEF ProviderEdits, ContextType, ProjectType
  <2> QED
    BY <2>1
    DEF PlaceShadow, PlaceWorktree, ProviderCommits, Seal, Checked, Fault, ReapHome,
        GcArtifact, ContextType, ProjectType
<1>3. WorkerType'
  <2>1. CASE Seal
    <3>1. art.tree # Nothing => Sealed \in Maybe(Trees)
      BY DEF Sealed, Maybe, ContextType, ArtType
    <3> HIDE DEF Sealed
    <3>2. Nothing \in Maybe(Trees)
      BY DEF Maybe
    <3> QED
      BY ZenonT(30), <2>1, <3>1, <3>2
      DEF Seal, Checked, Leave, Answers, ContextType, WorkerType, WorkerPcs
  <2>2. CASE PlaceShadow \/ PlaceWorktree
    BY <2>2
    DEF PlaceShadow, PlaceWorktree, To, Leave, Answers, ContextType, WorkerType, WorkerPcs
  <2> QED
    BY <2>1, <2>2
    DEF ProviderCommits, ProviderEdits, ReapHome, GcArtifact, ContextType, WorkerType
<1>4. ArtType'
  <2>1. CASE PlaceWorktree
    <3>1. commits[record.base] \in Trees
      BY <2>1 DEF PlaceWorktree, RunInv, AcceptorInv, ContextType, ProjectType
    <3> DEFINE tree == [files |-> commits[record.base], head |-> commits[record.base]]
    <3>2. tree \in Maybe([files : Trees, head : Trees])
      BY <3>1 DEF Maybe
    <3>3. UNCHANGED art \/ art' = [art EXCEPT !.patchDir = TRUE, !.tree = tree]
      BY <2>1 DEF PlaceWorktree
    <3> HIDE DEF tree
    <3> QED
      BY <3>2, <3>3 DEF ContextType, ArtType
  <2>2. ASSUME NEW f \in FileSet, ProviderEdits(f) PROVE ArtType'
    <3> DEFINE new == [art.tree.files EXCEPT ![f] = spent.edits + 1]
    <3>1. art.tree \in [files : Trees, head : Trees]
      BY <2>2 DEF ProviderEdits, Maybe, ContextType, ArtType
    <3>2. new \in Trees
      BY <3>1 DEF Trees, ContextType, ProjectType
    <3>3. art' = [art EXCEPT !.tree = [@ EXCEPT !.files = new]]
      BY <2>2 DEF ProviderEdits
    <3> HIDE DEF new
    <3>4. [art.tree EXCEPT !.files = new] \in Maybe([files : Trees, head : Trees])
      BY <3>1, <3>2 DEF Maybe
    <3> QED
      BY <3>3, <3>4 DEF ContextType, ArtType
  <2>3. CASE ProviderCommits
    <3>1. art.tree \in [files : Trees, head : Trees]
      BY <2>3 DEF ProviderCommits, Maybe, ContextType, ArtType
    <3>2. [art.tree EXCEPT !.head = art.tree.files] \in Maybe([files : Trees, head : Trees])
      BY <3>1 DEF Maybe
    <3>3. art' = [art EXCEPT !.tree = [@ EXCEPT !.head = art.tree.files]]
      BY <2>3 DEF ProviderCommits
    <3> QED
      BY <3>2, <3>3 DEF ContextType, ArtType
  <2>4. CASE Seal
    <3>1. worker'.sealed \in Maybe(Trees)
      BY <1>3 DEF WorkerType
    <3> QED
      BY <2>4, <3>1 DEF Seal, ContextType, ArtType
  <2>5. CASE PlaceShadow
    BY <2>5 DEF PlaceShadow, Maybe, ContextType, ArtType, WorkerType
  <2>6. CASE ReapHome
    BY <2>6 DEF ReapHome, ContextType, ArtType
  <2>7. CASE GcArtifact
    BY <2>7
    DEF GcArtifact, GcTree, GcShadow, GcPatch, GcHome, SweepShadow, Maybe, ContextType,
        ArtType
  <2> QED
    BY <2>1, <2>2, <2>3, <2>4, <2>5, <2>6, <2>7
<1>5. WorkType'
  <2>1. CASE ProviderCommits
    BY <2>1 DEF ProviderCommits, ContextType, WorkType
  <2> QED
    BY <2>1
    DEF PlaceShadow, PlaceWorktree, ProviderEdits, Seal, ReapHome, GcArtifact, ContextType,
        WorkType
<1> QED
  BY <1>1, <1>2, <1>3, <1>4, <1>5 DEF ContextType, AcceptorType, ProjectType, RecordType

(* What changes in the project. *)
LEMMA ProjectTypes ==
  ASSUME ContextType, ProjectInv,
         \/ \E f \in FileSet : Edit(f) \/ Revert(f)
         \/ CommitAll \/ (\E c \in DOMAIN commits : Checkout(c)) \/ Reconfigure
  PROVE  /\ ContextType' /\ ProjectInv'
         /\ UNCHANGED <<contract, acceptor, record, worker, art, work>>
         /\ worker.pc \in {"idle", "spawned", "start", "read"}
         /\ spent'.edits >= spent.edits
         /\ Len(commits') >= Len(commits) /\ \A c \in DOMAIN commits : commits'[c] = commits[c]
<1>1. /\ UNCHANGED <<contract, acceptor, record, worker, art, work>>
      /\ worker.pc \in {"idle", "spawned", "start", "read"}
  BY DEF Edit, Revert, CommitAll, Checkout, Reconfigure, Elsewhere, Read
<1>2. /\ project \in [head : DOMAIN commits, tree : Trees] /\ commits \in Seq(Trees)
      /\ \A c \in DOMAIN commits : commits[c] \in Trees
  BY DEF ContextType, ProjectType, ProjectInv
<1>3. ASSUME NEW f \in FileSet, Edit(f)
      PROVE  ProjectType' /\ ProjectInv' /\ UNCHANGED commits /\ spent'.edits >= spent.edits
  <2>1. PICK v \in {spent.edits + 1, Gone} : project' = [project EXCEPT !.tree[f] = v]
    BY <1>3 DEF Edit
  <2>2. UNCHANGED <<commits, route, returned, contract>>
        /\ spent' = [spent EXCEPT !.edits = @ + 1] /\ spent \in [edits : Nat, faults : Nat]
    BY <1>1, <1>3 DEF Edit, ContextType, ProjectType
  <2> DEFINE new == [project.tree EXCEPT ![f] = v]
  <2>3. new \in Trees /\ new[f] = v /\ \A g \in FileSet \ {f} : new[g] = project.tree[g]
    BY <1>2, <2>2 DEF Trees
  <2>4. /\ project'.tree = new /\ project'.head = project.head
        /\ project' \in [head : Nat, tree : Trees]
    BY <1>2, <2>1, <2>3
  <2> HIDE DEF new
  <2>5. spent'.edits = spent.edits + 1 /\ spent' \in [edits : Nat, faults : Nat]
    BY <2>2
  <2>6. ProjectType'
    BY <2>2, <2>4, <2>5, <1>2 DEF ContextType, ProjectType
  <2>7. \A w : w = v \/ Written(w) => Written(w)'
    BY <2>2, <2>5 DEF Written
  <2> QED
    BY <2>2, <2>3, <2>4, <2>5, <2>6, <2>7 DEF ProjectInv
<1>4. ASSUME NEW f \in FileSet, Revert(f)
      PROVE  ProjectType' /\ ProjectInv' /\ UNCHANGED <<commits, spent>>
  <2>1. UNCHANGED <<commits, route, returned, contract, spent>>
    BY <1>1, <1>4 DEF Revert
  <2> DEFINE v == commits[project.head][f]
             new == [project.tree EXCEPT ![f] = v]
  <2>2. v \in Nat \cup {Gone}
    BY <1>2 DEF Trees
  <2>3. new \in Trees /\ new[f] = v /\ \A g \in FileSet \ {f} : new[g] = project.tree[g]
    BY <1>2, <2>2 DEF Trees
  <2>4. /\ project'.tree = new /\ project'.head = project.head
        /\ project' \in [head : Nat, tree : Trees]
    BY <1>2, <1>4, <2>3 DEF Revert
  <2> HIDE DEF new
  <2> QED
    BY <2>1, <2>3, <2>4 DEF ContextType, ProjectType, ProjectInv, Written
<1>5. ASSUME CommitAll
      PROVE  /\ ProjectType' /\ ProjectInv' /\ UNCHANGED spent
             /\ Len(commits') >= Len(commits)
             /\ \A c \in DOMAIN commits : commits'[c] = commits[c]
  <2>1. UNCHANGED <<route, returned, contract, spent>>
    BY <1>1, <1>5 DEF CommitAll
  <2>2. /\ commits' = Append(commits, project.tree)
        /\ project' = [project EXCEPT !.head = Len(commits) + 1]
    BY <1>5 DEF CommitAll
  <2>3. /\ commits' \in Seq(Trees) /\ Len(commits') = Len(commits) + 1 /\ Len(commits) \in Nat
        /\ \A c \in DOMAIN commits : c \in DOMAIN commits' /\ commits'[c] = commits[c]
        /\ commits'[Len(commits) + 1] = project.tree
        /\ DOMAIN commits' = DOMAIN commits \cup {Len(commits) + 1}
    BY <1>2, <2>2
  <2>4. project' \in [head : Nat, tree : Trees] /\ project'.head = Len(commits) + 1
        /\ project'.tree = project.tree
    BY <1>2, <2>2, <2>3
  <2> QED
    BY <2>1, <2>3, <2>4 DEF ContextType, ProjectType, ProjectInv, Written
<1>6. ASSUME NEW c \in DOMAIN commits, Checkout(c)
      PROVE  ProjectType' /\ ProjectInv' /\ UNCHANGED <<commits, spent>>
  <2>1. UNCHANGED <<commits, route, contract, spent>> /\ returned' \in BOOLEAN
    BY <1>1, <1>6 DEF Checkout, Begun, ContextType, ProjectType
  <2>2. project' = [head |-> c, tree |-> commits[c]] /\ c \in Nat
    BY <1>2, <1>6 DEF Checkout
  <2> QED
    BY <1>2, <2>1, <2>2 DEF ContextType, ProjectType, ProjectInv, Written
<1>7. ASSUME Reconfigure PROVE ProjectType' /\ ProjectInv' /\ UNCHANGED <<commits, spent>>
  BY <1>7 DEF Reconfigure, Elsewhere, ContextType, ProjectType, ProjectInv, Written
<1>8. Len(commits) \in Nat /\ spent.edits \in Nat
  BY <1>2 DEF ContextType, ProjectType
<1> QED
  BY <1>1, <1>3, <1>4, <1>5, <1>6, <1>7, <1>8
  DEF ContextType, AcceptorType, RecordType, WorkerType, ArtType, WorkType

(* The steps of the worker, of who cancels, reconciles and removes. *)
OfTheRun ==
  \/ RequestCancel \/ Spawn \/ ClaimRun \/ WorkerLooks \/ PlaceShadow \/ PlaceWorktree \/ Placed
  \/ \E f \in FileSet : ProviderEdits(f)
  \/ ProviderCommits
  \/ \E o \in Answers : ProviderEnds(o)
  \/ Seal \/ CleanUp \/ Publish \/ Die \/ Reconcile
  \/ ReapHome \/ GcArtifact \/ GcRecord

InTheProject ==
  \/ \E f \in FileSet : Edit(f) \/ Revert(f)
  \/ CommitAll \/ (\E c \in DOMAIN commits : Checkout(c)) \/ Reconfigure

(* They leave the project and its acceptor alone. *)
LEMMA RunFrame ==
  ASSUME ContextType, OfTheRun
  PROVE  /\ UNCHANGED <<contract, project, commits, acceptor, returned>>
         /\ spent'.edits >= spent.edits
<1>1. UNCHANGED <<contract, project, commits, acceptor, returned>>
  BY DEF OfTheRun, RequestCancel, Spawn, ClaimRun, WorkerLooks, PlaceShadow, PlaceWorktree,
         Placed, ProviderEdits, ProviderCommits, ProviderEnds, Seal, CleanUp, Publish, Die,
         Reconcile, ReapHome, GcArtifact, GcRecord
<1>2. UNCHANGED spent \/ Fault \/ spent' = [spent EXCEPT !.edits = @ + 1]
  BY DEF OfTheRun, RequestCancel, Spawn, ClaimRun, WorkerLooks, Start, WorkRead, Compare,
         Compared, Checked, PlaceShadow, PlaceWorktree, Placed, ProviderEdits,
         ProviderCommits, ProviderEnds, Seal, CleanUp, Publish, Die, Reconcile, ReapHome,
         GcArtifact, GcRecord
<1> QED
  BY <1>1, <1>2 DEF Fault, ContextType, ProjectType

(* What was written stays written. *)
LEMMA GuardStays ==
  ASSUME ContextType, spent'.edits \in Nat, spent'.edits >= spent.edits, NEW seen, Guarded(seen)
  PROVE  Guarded(seen)'
  BY DEF Guarded, ContextType, ProjectType

(* A file that the guard lets pass is read. *)
LEMMA OneMoreGuarded ==
  ASSUME ContextType, ProjectInv, NEW seen \in Seens, Guarded(seen), NEW f \in FileSet,
         project.tree[f] \notin Denied \cup {Gone}
  PROVE  Guarded(With(seen, f))
<1>1. /\ DOMAIN With(seen, f) = DOMAIN seen \cup {f}
      /\ \A g \in DOMAIN With(seen, f) :
           With(seen, f)[g] = IF g = f THEN project.tree[f] ELSE seen[g]
  BY OneMore DEF ContextType
<1>2. project.tree[f] \in 0..spent.edits /\ project.tree[f] \notin Denied \cup {Gone}
  BY DEF ProjectInv, Written
<1> QED
  BY <1>1, <1>2 DEF Guarded

(* Nothing was read. *)
LEMMA NothingGuarded == Guarded(<<>>)
  BY SeenIs DEF Guarded

(* What the command that accepts the run knows, when it takes a step. *)
LEMMA AcceptKeeps ==
  ASSUME ContextType, ContextType', ProjectInv, AcceptorInv, AcceptStep \/ Create
  PROVE  ProjectInv' /\ AcceptorInv'
<1>1. UNCHANGED <<contract, project, commits, spent, returned>>
  BY DEF AcceptStep, Create
<1>2. ProjectInv'
  BY <1>1 DEF ProjectInv, Written
<1>3. /\ project.head \in DOMAIN commits /\ DOMAIN commits \subseteq Nat
      /\ DOMAIN acceptor = {"pc", "todo", "seen", "head"}
  BY DEF ProjectInv, ContextType, ProjectType, AcceptorType
<1>4. ASSUME acceptor' = [NoRead EXCEPT !.pc = "refused"] PROVE AcceptorInv'
  <2>1. acceptor'.pc = "refused" /\ acceptor'.seen = <<>>
    BY <1>4 DEF NoRead
  <2> QED
    BY <1>1, <2>1, NothingGuarded DEF AcceptorInv, Guarded
<1>5. ASSUME Expand PROVE AcceptorInv'
  <2>1. acceptor'.pc \in {"refused", "read"} /\ acceptor'.seen = <<>>
    BY <1>5 DEF Expand, NoRead
  <2> QED
    BY <1>1, <2>1, NothingGuarded DEF AcceptorInv, Guarded
<1>6. ASSUME NEW i \in Foremost(acceptor), acceptor.pc = "read", Readable(i),
             acceptor' = ReadNext(acceptor, i)
      PROVE  AcceptorInv'
  <2>1. Files[i] \in FileSet
    BY DEF Foremost, FileSet, ContextType, AcceptorType
  <2>2. Guarded(With(acceptor.seen, Files[i]))
    BY <1>6, <2>1, OneMoreGuarded DEF Readable, AcceptorInv, ContextType, AcceptorType
  <2>3. acceptor'.pc = "read" /\ acceptor'.seen = With(acceptor.seen, Files[i])
    BY <1>3, <1>6 DEF ReadNext
  <2> QED
    BY <1>1, <2>2, <2>3 DEF AcceptorInv, Guarded
<1>7. ASSUME ReviewHead PROVE AcceptorInv'
  <2>1. acceptor'.seen = acceptor.seen
        /\ (contract.mode = "edit" => acceptor'.pc = "status" /\ acceptor'.head = project.head)
    BY <1>3, <1>7 DEF ReviewHead
  <2> QED
    BY <1>1, <1>3, <2>1 DEF AcceptorInv, Guarded
<1>8. ASSUME ReviewStatus PROVE AcceptorInv'
  <2>1. /\ acceptor'.seen = acceptor.seen /\ acceptor'.head = acceptor.head
        /\ acceptor.pc = "status" /\ acceptor'.pc \in {"head", "refused"}
        /\ acceptor'.pc = "head" => CleanAt(acceptor.seen, commits[project.head])
    BY <1>3, <1>8 DEF ReviewStatus
  <2>2. acceptor'.pc = "head" /\ acceptor'.head = project'.head => InBaseOrLost'
    BY <1>1, <2>1 DEF CleanAt, InBaseOrLost, Lost
  <2> QED
    BY <1>1, <2>1, <2>2 DEF AcceptorInv, Guarded
<1>9. ASSUME ReviewAgain PROVE AcceptorInv'
  <2>1. /\ acceptor'.seen = acceptor.seen /\ acceptor'.head = acceptor.head
        /\ acceptor.pc = "head" /\ acceptor'.pc \in {"create", "refused"}
        /\ acceptor'.pc = "create" => project.head = acceptor.head
    BY <1>3, <1>9 DEF ReviewAgain
  <2> QED
    BY <1>1, <2>1 DEF AcceptorInv, Guarded, InBaseOrLost, Lost
<1>10. ASSUME Create PROVE AcceptorInv'
  <2>1. /\ acceptor'.seen = acceptor.seen /\ acceptor'.head = acceptor.head
        /\ acceptor.pc = "create" /\ acceptor'.pc = "accepted"
    BY <1>3, <1>10 DEF Create
  <2> QED
    BY <1>1, <2>1 DEF AcceptorInv, Guarded, InBaseOrLost, Lost
<1> QED
  BY <1>2, <1>4, <1>5, <1>6, <1>7, <1>8, <1>9, <1>10 DEF AcceptStep, AcceptRead

(* What it knows, when the project changes: a content that was lost does not come back,
   and HEAD does not go back, without a return. *)
LEMMA ProjectKeeps ==
  ASSUME ContextType, ContextType', ProjectInv, ProjectInv', AcceptorInv, RunInv, InTheProject
  PROVE  AcceptorInv'
<1>1. /\ UNCHANGED <<contract, acceptor>> /\ spent'.edits >= spent.edits
      /\ Len(commits') >= Len(commits) /\ \A c \in DOMAIN commits : commits'[c] = commits[c]
  BY ProjectTypes DEF InTheProject
<1>2. /\ commits \in Seq(Trees) /\ commits' \in Seq(Trees) /\ spent'.edits \in Nat
      /\ DOMAIN commits \subseteq DOMAIN commits' /\ DOMAIN commits \subseteq Nat
      /\ project.head \in DOMAIN commits /\ acceptor.head \in Nat
  BY <1>1 DEF ContextType, ProjectType, ProjectInv, AcceptorType
<1>3. Guarded(acceptor.seen)'
  BY <1>1, <1>2, GuardStays DEF AcceptorInv
<1>4. ASSUME ~returned' PROVE ~returned
  BY <1>4
  DEF InTheProject, Edit, Revert, CommitAll, Checkout, Reconfigure, ContextType, ProjectType
<1>5. ASSUME ~returned', acceptor.pc # "idle",
             NEW f \in DOMAIN acceptor.seen, Lost(f)
      PROVE  Lost(f)'
  <2>1. f \in FileSet /\ acceptor.seen[f] \in 0..spent.edits /\ acceptor.seen[f] # Gone
        /\ spent.edits \in Nat
    BY SeenIs DEF AcceptorInv, Guarded, ContextType, AcceptorType, ProjectType
  <2>2. ASSUME NEW g \in FileSet, Edit(g) PROVE Lost(f)'
    <3>1. PICK v \in {spent.edits + 1, Gone} : project' = [project EXCEPT !.tree[g] = v]
      BY <2>2 DEF Edit
    <3>2. v # acceptor.seen[f]
      BY <2>1
    <3>3. /\ project'.head = project.head /\ UNCHANGED commits
          /\ project'.tree[f] = IF f = g THEN v ELSE project.tree[f]
      BY <2>1, <2>2, <3>1 DEF Edit, ContextType, ProjectType, Trees
    <3> QED
      BY <1>1, <1>5, <3>2, <3>3 DEF Lost
  <2>3. ASSUME NEW g \in FileSet, Revert(g) PROVE Lost(f)'
    <3>1. /\ project'.head = project.head /\ UNCHANGED commits
          /\ project'.tree[f] = IF f = g THEN commits[project.head][f] ELSE project.tree[f]
      BY <2>1, <2>3 DEF Revert, ContextType, ProjectType, Trees
    <3> QED
      BY <1>1, <1>5, <3>1 DEF Lost
  <2>4. ASSUME CommitAll PROVE Lost(f)'
    <3>1. /\ commits' = Append(commits, project.tree)
          /\ project' = [project EXCEPT !.head = Len(commits) + 1]
      BY <2>4 DEF CommitAll
    <3>2. project'.tree = project.tree /\ project'.head = Len(commits) + 1
      BY <3>1 DEF ContextType, ProjectType
    <3>3. commits'[Len(commits) + 1] = project.tree
      BY <1>2, <3>1 DEF ContextType, ProjectType
    <3> QED
      BY <1>1, <1>5, <3>2, <3>3 DEF Lost
  <2>5. ASSUME NEW c \in DOMAIN commits, Checkout(c) PROVE FALSE
    BY <1>5, <2>5 DEF Checkout, Begun
  <2>6. ASSUME Reconfigure PROVE Lost(f)'
    BY <1>1, <1>5, <2>6 DEF Reconfigure, Lost
  <2> QED
    BY <2>2, <2>3, <2>4, <2>5, <2>6 DEF InTheProject
<1>6. ASSUME ~returned', acceptor.pc # "idle"
      PROVE  project'.head = project.head \/ project'.head > Len(commits)
  BY <1>2, <1>6
  DEF InTheProject, Edit, Revert, CommitAll, Checkout, Reconfigure, Begun, ContextType,
      ProjectType
<1>7. ASSUME ~returned', contract.mode = "edit",
             acceptor.pc \in {"status", "head", "create", "accepted"}, InBaseOrLost
      PROVE  InBaseOrLost'
  <2>1. acceptor.head \in DOMAIN commits
    BY <1>7 DEF AcceptorInv
  <2> QED
    BY <1>1, <1>5, <1>7, <2>1 DEF InBaseOrLost
<1>8. ASSUME contract.mode = "edit", acceptor.pc \in {"status", "head", "create", "accepted"}
      PROVE  acceptor.head \in DOMAIN commits /\ acceptor.head <= Len(commits)
  BY <1>2, <1>8 DEF AcceptorInv
<1>9. ASSUME ~returned', contract.mode = "edit", acceptor.pc \in {"status", "head"}
      PROVE  /\ acceptor.head <= project'.head
             /\ acceptor.head = project'.head => project'.head = project.head
  <2>1. /\ acceptor.head <= project.head
        /\ {project.head, project'.head, Len(commits)} \subseteq Nat
    BY <1>2, <1>4, <1>9 DEF AcceptorInv, ContextType, ProjectType
  <2> QED
    BY <1>2, <1>6, <1>8, <1>9, <2>1
<1> QED
  BY <1>1, <1>2, <1>3, <1>4, <1>7, <1>8, <1>9 DEF AcceptorInv

(* What the record and the pcs say of each other, at each step. *)
LEMMA RunKeeps ==
  ASSUME ContextType, RunInv, AcceptStep \/ Create \/ OfTheRun \/ InTheProject
  PROVE  RunInv'
<1> DEFINE pcA == acceptor.pc
           pcW == worker.pc
<1>1. /\ DOMAIN record = {"status", "context", "base", "route", "cancel", "shadow", "patch",
                          "warned", "by"}
      /\ DOMAIN acceptor = {"pc", "todo", "seen", "head"}
      /\ DOMAIN worker = {"pc", "todo", "seen", "outcome", "warned", "sealed"}
  BY DEF ContextType, RecordType, AcceptorType, WorkerType
<1>2. CASE AcceptStep
  <2>1. UNCHANGED <<record, worker>>
    BY <1>2 DEF AcceptStep
  <2>2. acceptor.pc \in {"idle", "read", "status", "head"}
        /\ acceptor'.pc \in {"refused", "read", "status", "head", "create"}
    BY <1>1, <1>2
    DEF AcceptStep, Expand, AcceptRead, ReadNext, ReviewHead, ReviewStatus, ReviewAgain,
        NoRead
  <2> QED
    BY <2>1, <2>2 DEF RunInv
<1>3. CASE Create
  <2>1. /\ acceptor.pc = "create" /\ acceptor'.pc = "accepted" /\ UNCHANGED worker
        /\ acceptor'.seen = acceptor.seen /\ acceptor'.head = acceptor.head
        /\ record'.status = "accepted" /\ record'.context = acceptor.seen
        /\ record'.base = acceptor.head /\ record'.by = record.by
    BY <1>1, <1>3 DEF Create
  <2> QED
    BY <2>1 DEF RunInv
<1>4. ASSUME OfTheRun PROVE UNCHANGED acceptor
  BY <1>4, RunFrame
<1>5. CASE RequestCancel
  <2>1. /\ UNCHANGED worker /\ record'.context = record.context /\ record'.base = record.base
        /\ record'.by = record.by
        /\ record.status \in {"accepted", "running"}
        /\ record'.status = IF record.status = "accepted" THEN "cancelled" ELSE record.status
    BY <1>1, <1>5 DEF RequestCancel
  <2> QED
    BY <1>4, <1>5, <2>1 DEF OfTheRun, RunInv
<1>6. CASE Spawn
  <2>1. /\ worker.pc = "idle" /\ worker'.pc \in {"spawned", "done"}
        /\ record.status = "accepted"
        /\ record'.context = record.context /\ record'.base = record.base
        /\ record'.by = record.by
        /\ record'.status \in {"accepted", "failed"}
    BY <1>1, <1>6 DEF Spawn, To
  <2> QED
    BY <1>4, <1>6, <2>1 DEF OfTheRun, RunInv
<1>7. CASE ClaimRun
  <2>1. /\ worker.pc \in {"idle", "spawned"}
        /\ record'.context = record.context /\ record'.base = record.base
        /\ record'.by = record.by
        /\ \/ worker'.pc = "start" /\ record'.status = "running" /\ record.status = "accepted"
           \/ worker'.pc = "done" /\ UNCHANGED record /\ worker.pc = "spawned"
    BY <1>1, <1>7 DEF ClaimRun, To
  <2> QED
    BY <1>4, <1>7, <2>1 DEF OfTheRun, RunInv
<1>8. CASE \/ WorkerLooks \/ PlaceShadow \/ PlaceWorktree \/ Placed \/ Seal \/ CleanUp
           \/ \E o \in Answers : ProviderEnds(o)
  <2>1. /\ worker.pc \notin {"idle", "spawned", "done", "dead"} /\ UNCHANGED record
        /\ worker'.pc \notin {"idle", "spawned", "done", "dead"}
    <3>1. UNCHANGED record
      BY <1>8
      DEF WorkerLooks, PlaceShadow, PlaceWorktree, Placed, Seal, CleanUp, ProviderEnds
    <3>2. ASSUME WorkRead \/ Compare
          PROVE  worker.pc = "read" /\ worker'.pc \in {"read", "clean", "compared"}
      BY <1>1, <3>2 DEF WorkRead, Compare, ReadNext, To, Leave
    <3>3. ASSUME Start \/ Compared \/ Placed
          PROVE  worker.pc \in {"start", "compared", "placed"}
                 /\ worker'.pc \in {"read", "place", "running", "clean"}
      BY <1>1, <3>3 DEF Start, Compared, Placed, Checked, To, Leave
    <3>4. ASSUME PlaceShadow \/ PlaceWorktree \/ CleanUp
          PROVE  worker.pc \in {"place", "clean"} /\ worker'.pc \in {"placed", "clean", "publish"}
      BY <1>1, <3>4 DEF To, Leave, PlaceShadow, PlaceWorktree, CleanUp
    <3>5. ASSUME Seal PROVE worker.pc = "ran" /\ worker'.pc = "clean"
      BY <1>1, <3>5 DEF Seal, Checked, Leave
    <3>6. ASSUME NEW o \in Answers, ProviderEnds(o)
          PROVE  worker.pc = "running" /\ worker'.pc \in {"ran", "clean"}
      BY <1>1, <3>6 DEF ProviderEnds
    <3> QED
      BY <1>8, <3>1, <3>2, <3>3, <3>4, <3>5, <3>6 DEF WorkerLooks
  <2> QED
    BY <1>4, <1>8, <2>1 DEF OfTheRun, RunInv
<1>9. CASE (\E f \in FileSet : ProviderEdits(f)) \/ ProviderCommits \/ ReapHome \/ GcArtifact
  BY <1>4, <1>9 DEF OfTheRun, RunInv, ProviderEdits, ProviderCommits, ReapHome, GcArtifact
<1>10. CASE Publish
  <2>1. /\ worker.pc = "publish" /\ worker'.pc = "done"
        /\ record'.status \in Verdicts /\ record'.context = record.context
        /\ record'.base = record.base
    BY <1>1, <1>10 DEF Publish, To, Verdict, Verdicts
  <2> QED
    BY <1>4, <1>10, <2>1 DEF OfTheRun, RunInv, Verdicts
<1>11. CASE Die
  <2>1. /\ worker.pc \notin {"idle", "done", "dead"} /\ worker'.pc = "dead" /\ UNCHANGED record
    BY <1>1, <1>11 DEF Die, To
  <2> QED
    BY <1>4, <1>11, <2>1 DEF OfTheRun, RunInv
<1>12. CASE Reconcile
  <2>1. /\ worker.pc = "dead" /\ UNCHANGED worker /\ record.status \in {"accepted", "running"}
        /\ record'.status \in {"cancelled", "failed"} /\ record'.by = "reconciler"
        /\ record'.context = record.context /\ record'.base = record.base
    BY <1>1, <1>12 DEF Reconcile
  <2> QED
    BY <1>4, <1>12, <2>1 DEF OfTheRun, RunInv
<1>13. CASE GcRecord
  <2>1. /\ worker.pc \in {"idle", "done", "dead"} /\ UNCHANGED worker
        /\ record.status \in Verdicts
        /\ record'.status = "deleted" /\ record'.by = record.by
        /\ record'.context = record.context /\ record'.base = record.base
    BY <1>1, <1>13 DEF GcRecord, Aged
  <2> QED
    BY <1>4, <1>13, <2>1 DEF OfTheRun, RunInv, Verdicts
<1>14. CASE InTheProject
  BY <1>14
  DEF InTheProject, Edit, Revert, CommitAll, Checkout, Reconfigure, Elsewhere, RunInv
<1> QED
  BY <1>2, <1>3, <1>5, <1>6, <1>7, <1>8, <1>9, <1>10, <1>11, <1>12, <1>13, <1>14
  DEF OfTheRun

(* What the worker has read, at each step. *)
LEMMA WorkerKeeps ==
  ASSUME ContextType, ContextType', ProjectInv, AcceptorInv, RunInv, WorkerInv,
         AcceptStep \/ Create \/ OfTheRun \/ InTheProject
  PROVE  WorkerInv'
<1>1. /\ DOMAIN record = {"status", "context", "base", "route", "cancel", "shadow", "patch",
                          "warned", "by"}
      /\ DOMAIN worker = {"pc", "todo", "seen", "outcome", "warned", "sealed"}
  BY DEF ContextType, RecordType, WorkerType
<1>2. ASSUME contract.mode = "edit", acceptor.pc = "accepted"
      PROVE  record.base \in DOMAIN commits /\ record.context = acceptor.seen
             /\ record.base = acceptor.head
  BY <1>2 DEF AcceptorInv, RunInv
<1>3. CASE AcceptStep
  BY <1>3 DEF AcceptStep, WorkerInv, Guarded
<1>4. CASE Create
  <2>1. worker.pc = "idle" /\ UNCHANGED <<contract, worker, returned, commits, spent>>
    BY <1>4 DEF Create, RunInv
  <2> QED
    BY <2>1, SeenIs DEF WorkerInv, Guarded
<1>5. CASE InTheProject
  <2>1. /\ UNCHANGED <<contract, record, worker>> /\ spent'.edits >= spent.edits
        /\ \A c \in DOMAIN commits : commits'[c] = commits[c]
        /\ spent'.edits \in Nat
    BY <1>5, ProjectTypes DEF InTheProject, ContextType, ProjectType
  <2>2. ~returned' => ~returned
    BY <1>5
    DEF InTheProject, Edit, Revert, CommitAll, Checkout, Reconfigure, ContextType,
        ProjectType
  <2>3. Guarded(worker.seen)'
    BY <2>1, GuardStays DEF WorkerInv
  <2>4. worker.seen # <<>> => acceptor.pc = "accepted"
    BY DEF WorkerInv, RunInv
  <2> QED
    BY <1>2, <2>1, <2>2, <2>3, <2>4, SeenIs DEF WorkerInv
<1>6. CASE OfTheRun
  <2>1. /\ UNCHANGED <<contract, project, commits, acceptor, returned>>
        /\ spent'.edits >= spent.edits /\ spent'.edits \in Nat
    BY <1>6, RunFrame DEF ContextType, ProjectType
  <2>2. record'.context = record.context /\ record'.base = record.base
    BY <1>1, <1>6
    DEF OfTheRun, RequestCancel, Spawn, ClaimRun, WorkerLooks, PlaceShadow, PlaceWorktree,
        Placed, ProviderEdits, ProviderCommits, ProviderEnds, Seal, CleanUp, Publish, Die,
        Reconcile, ReapHome, GcArtifact, GcRecord
  <2>3. ASSUME worker'.seen = worker.seen,
               worker'.pc \in {"idle", "spawned", "start"} =>
                 worker.pc \in {"idle", "spawned", "start"},
               worker'.pc \in {"compared", "place", "placed", "running"} =>
                 worker.seen = record.context
        PROVE  WorkerInv'
    BY <2>1, <2>2, <2>3, GuardStays DEF WorkerInv
  <2>4. ASSUME NEW i \in Foremost(worker), worker.pc = "read", Readable(i),
              worker' = ReadNext(worker, i)
        PROVE  WorkerInv'
    <3>1. Files[i] \in FileSet
      BY DEF Foremost, FileSet, ContextType, WorkerType
    <3> DEFINE f == Files[i]
    <3>2. worker'.pc = "read" /\ worker'.seen = With(worker.seen, f)
      BY <1>1, <2>4 DEF ReadNext
    <3>3. Guarded(worker'.seen)
      BY <2>4, <3>1, <3>2, OneMoreGuarded DEF Readable, WorkerInv, ContextType, WorkerType
    <3>4. Guarded(worker.seen)'
      BY <2>1, <3>3 DEF Guarded, ContextType, ProjectType
    <3>5. /\ DOMAIN worker'.seen = DOMAIN worker.seen \cup {f}
          /\ \A g \in DOMAIN worker'.seen :
               worker'.seen[g] = IF g = f THEN project.tree[f] ELSE worker.seen[g]
      BY <2>4, <3>1, <3>2, OneMore DEF Readable, ContextType, WorkerType
    <3>6. ASSUME contract.mode = "edit", ~returned, f \in DOMAIN record.context,
                 project.tree[f] = record.context[f]
          PROVE  commits[record.base][f] = project.tree[f]
      <4>1. acceptor.pc = "accepted"
        BY <2>4 DEF RunInv
      <4> QED
        BY <1>2, <3>6, <4>1 DEF AcceptorInv, InBaseOrLost, Lost
    <3> HIDE DEF f
    <3> QED
      BY <2>1, <2>2, <3>2, <3>4, <3>5, <3>6 DEF WorkerInv
  <2>5. ASSUME Compare PROVE WorkerInv'
    <3>1. worker'.seen = worker.seen /\ worker'.pc \in {"compared", "clean"}
          /\ (worker'.pc = "compared" => worker.seen = record.context)
      BY <1>1, <2>5 DEF Compare, To, Leave
    <3> QED
      BY <2>3, <3>1
  <2>6. ASSUME WorkRead PROVE WorkerInv'
    <3>1. ASSUME Leave("raised") PROVE worker'.seen = worker.seen /\ worker'.pc = "clean"
      BY <1>1, <3>1 DEF Leave
    <3> QED
      BY <2>3, <2>4, <2>6, <3>1 DEF WorkRead
  <2>7. ASSUME Start \/ Compared \/ Placed PROVE WorkerInv'
    <3>1. worker'.seen = worker.seen
          /\ \/ worker'.pc \in {"read", "clean"}
             \/ worker.pc = "compared" /\ worker'.pc = "place"
             \/ worker.pc = "placed" /\ worker'.pc = "running"
      BY <1>1, <2>7 DEF Start, Compared, Placed, Checked, Leave, To
    <3> QED
      BY <2>3, <3>1 DEF WorkerInv
  <2>8. ASSUME Spawn \/ ClaimRun PROVE WorkerInv'
    <3>1. worker'.seen = worker.seen
          /\ \/ worker'.pc \in {"done"}
             \/ worker.pc \in {"idle", "spawned"} /\ worker'.pc \in {"spawned", "start"}
      BY <1>1, <2>8 DEF Spawn, ClaimRun, To
    <3> QED
      BY <2>3, <3>1
  <2>9. ASSUME \/ PlaceShadow \/ PlaceWorktree \/ Seal \/ CleanUp \/ Publish \/ Die
               \/ \E o \in Answers : ProviderEnds(o)
        PROVE  WorkerInv'
    <3>1. worker'.seen = worker.seen
          /\ \/ worker'.pc \in {"clean", "ran", "publish", "done", "dead"}
             \/ worker.pc = "place" /\ worker'.pc = "placed"
      BY <1>1, <2>9
      DEF PlaceShadow, PlaceWorktree, Seal, Checked, CleanUp, Publish, Die, ProviderEnds,
          To, Leave
    <3> QED
      BY <2>3, <3>1 DEF WorkerInv
  <2>10. ASSUME UNCHANGED worker PROVE WorkerInv'
    BY <2>3, <2>10 DEF WorkerInv
  <2> QED
    BY <1>6, <2>5, <2>6, <2>7, <2>8, <2>9, <2>10
    DEF OfTheRun, RequestCancel, WorkerLooks, ProviderEdits, ProviderCommits, Reconcile,
        ReapHome, GcArtifact, GcRecord
<1> QED
  BY <1>3, <1>4, <1>5, <1>6

(* The base of an edit run, once it is accepted, is the same commit. *)
LEMMA BaseStays ==
  ASSUME ContextType, ProjectInv, AcceptorInv, RunInv, OfTheRun \/ InTheProject,
         contract.mode = "edit", acceptor.pc = "accepted"
  PROVE  record'.base = record.base /\ commits'[record.base] = commits[record.base]
<1>1. record.base \in DOMAIN commits
  BY DEF AcceptorInv, RunInv
<1>2. CASE OfTheRun
  <2>1. record'.base = record.base
    BY <1>2
    DEF OfTheRun, RequestCancel, Spawn, ClaimRun, WorkerLooks, PlaceShadow, PlaceWorktree,
        Placed, ProviderEdits, ProviderCommits, ProviderEnds, Seal, CleanUp, Publish, Die,
        Reconcile, ReapHome, GcArtifact, GcRecord, ContextType, RecordType
  <2> QED
    BY <1>2, <2>1, RunFrame
<1>3. CASE InTheProject
  BY <1>1, <1>3, ProjectTypes DEF InTheProject
<1> QED
  BY <1>2, <1>3

(* What the worker keeps of the work of the provider, at each step. *)
LEMMA WorkKeeps ==
  ASSUME ContextType, ContextType', ProjectInv, AcceptorInv, RunInv, WorkInv,
         AcceptStep \/ Create \/ OfTheRun \/ InTheProject
  PROVE  WorkInv'
<1>1. /\ DOMAIN art = {"shadow", "tree", "patchDir", "patch", "home"}
      /\ DOMAIN worker = {"pc", "todo", "seen", "outcome", "warned", "sealed"}
      /\ DOMAIN work = {"tree", "committed"}
  BY DEF ContextType, ArtType, WorkerType, WorkType
<1>2. CASE AcceptStep
  BY <1>2 DEF AcceptStep, WorkInv, Patch
<1>3. CASE Create
  <2>1. worker.pc = "idle" /\ UNCHANGED <<contract, worker, art, work>>
    BY <1>3 DEF Create, RunInv
  <2> QED
    BY <2>1 DEF WorkInv
<1>4. ASSUME OfTheRun \/ InTheProject, contract.mode = "edit", worker.pc # "idle"
      PROVE  record'.base = record.base /\ commits'[record.base] = commits[record.base]
  BY <1>4, BaseStays DEF RunInv
<1>5. CASE InTheProject
  <2>1. UNCHANGED <<contract, worker, art, work>>
    BY <1>5, ProjectTypes DEF InTheProject
  <2> QED
    BY <1>4, <1>5, <2>1 DEF WorkInv, Patch
<1>6. ASSUME OfTheRun PROVE UNCHANGED contract
  BY <1>6, RunFrame
<1>7. CASE RequestCancel \/ Reconcile \/ GcRecord
  <2>1. UNCHANGED <<worker, art, work>>
    BY <1>7 DEF RequestCancel, Reconcile, GcRecord
  <2> QED
    BY <1>4, <1>6, <1>7, <2>1 DEF OfTheRun, WorkInv, Patch
<1>8. CASE Spawn \/ ClaimRun
  <2>1. /\ worker.pc \in {"idle", "spawned"} /\ worker'.pc \in {"spawned", "start", "done"}
        /\ art'.tree = art.tree
    BY <1>1, <1>8 DEF Spawn, HomeMade, ClaimRun, To
  <2> QED
    BY <1>6, <1>8, <2>1 DEF OfTheRun, WorkInv
<1>9. CASE WorkerLooks
  <2>1. UNCHANGED <<art, work>> /\ worker.pc \in {"start", "read", "compared"}
    BY <1>9 DEF WorkerLooks, Start, WorkRead, Compare, Compared, Checked
  <2>2. \/ worker'.pc \in {"read", "compared", "place"}
        \/ worker'.pc = "clean" /\ worker'.outcome \in {"cancelled", "raised"}
    <3>1. CASE WorkRead \/ Compare
      BY <1>1, <3>1 DEF WorkRead, Compare, ReadNext, To, Leave
    <3>2. CASE Start \/ Compared
      BY <1>1, <3>2 DEF Start, Compared, Checked, To, Leave
    <3> QED
      BY <1>9, <3>1, <3>2 DEF WorkerLooks
  <2> QED
    BY <1>6, <1>9, <2>1, <2>2 DEF OfTheRun, WorkInv
<1>10. CASE PlaceShadow
  <2>1. /\ contract.mode # "edit" /\ worker'.pc = "placed"
        /\ art'.tree = art.tree
    BY <1>1, <1>10 DEF PlaceShadow, To
  <2> QED
    BY <1>6, <1>10, <2>1 DEF OfTheRun, WorkInv
<1>11. CASE PlaceWorktree
  <2>1. contract.mode = "edit" /\ worker.pc = "place" /\ UNCHANGED work
    BY <1>11 DEF PlaceWorktree
  <2>2. CASE UNCHANGED art /\ worker'.pc = "clean" /\ worker'.outcome = "raised"
    BY <1>6, <1>11, <2>1, <2>2 DEF OfTheRun, WorkInv
  <2>3. CASE /\ worker'.pc = "placed"
             /\ art'.tree = [files |-> commits[record.base], head |-> commits[record.base]]
    <3>1. commits[record.base] \in Trees
      BY <2>1 DEF RunInv, AcceptorInv, ContextType, ProjectType
    <3>2. art'.tree # Nothing
      BY <2>3, <3>1, ContextAssumption
    <3> QED
      BY <1>4, <1>6, <1>11, <2>1, <2>3, <3>2 DEF OfTheRun, WorkInv
  <2> QED
    BY <1>1, <1>11, <2>2, <2>3 DEF PlaceWorktree, To, Leave
<1>12. CASE Placed
  <2>1. /\ UNCHANGED <<art, work>> /\ worker.pc = "placed"
        /\ \/ worker'.pc = "running"
           \/ worker'.pc = "clean" /\ worker'.outcome \in {"cancelled", "raised"}
    BY <1>1, <1>12 DEF Placed, Checked, To, Leave
  <2> QED
    BY <1>4, <1>6, <1>12, <2>1 DEF OfTheRun, WorkInv
<1>13. ASSUME NEW f \in FileSet, ProviderEdits(f) PROVE WorkInv'
  <2>1. /\ UNCHANGED <<worker, work>> /\ worker.pc = "running" /\ art.tree # Nothing
        /\ art.tree \in [files : Trees, head : Trees]
    BY <1>13 DEF ProviderEdits, Maybe, ContextType, ArtType
  <2>2. art'.tree = [art.tree EXCEPT !.files = [@ EXCEPT ![f] = spent.edits + 1]]
    BY <1>1, <1>13 DEF ProviderEdits
  <2>3. art'.tree.head = art.tree.head /\ art'.tree # Nothing
    <3>1. [art.tree.files EXCEPT ![f] = spent.edits + 1] \in Trees
      BY <2>1 DEF Trees, ContextType, ProjectType
    <3> QED
      BY <2>1, <2>2, <3>1, ContextAssumption
  <2> QED
    BY <1>4, <1>6, <1>13, <2>1, <2>3 DEF OfTheRun, WorkInv
<1>14. CASE ProviderCommits
  <2>1. /\ UNCHANGED worker /\ worker.pc = "running" /\ art.tree # Nothing
        /\ art.tree \in [files : Trees, head : Trees] /\ work'.committed
    BY <1>1, <1>14 DEF ProviderCommits, Maybe, ContextType, ArtType
  <2>2. art'.tree # Nothing
    BY <1>1, <1>14, <2>1, ContextAssumption DEF ProviderCommits
  <2> QED
    BY <1>6, <1>14, <2>1, <2>2 DEF OfTheRun, WorkInv
<1>15. ASSUME NEW o \in Answers, ProviderEnds(o) PROVE WorkInv'
  <2>1. /\ UNCHANGED art /\ worker.pc = "running" /\ worker'.outcome = o
        /\ worker'.pc = IF o = "raised" THEN "clean" ELSE "ran"
        /\ work'.committed = work.committed
        /\ art.tree # Nothing => work'.tree = art.tree.files
    BY <1>1, <1>15 DEF ProviderEnds
  <2> QED
    BY <1>4, <1>6, <1>15, <2>1 DEF OfTheRun, WorkInv
<1>16. CASE Seal
  <2>1. /\ UNCHANGED work /\ worker.pc = "ran" /\ worker'.pc = "clean"
        /\ art'.tree = art.tree /\ art'.patch = worker'.sealed
        /\ \/ worker'.outcome \in {"cancelled", "raised"}
           \/ worker'.sealed = IF art.tree = Nothing THEN Nothing ELSE Sealed
    BY <1>1, <1>16 DEF Seal, Checked, Leave
  <2>2. ASSUME contract.mode = "edit", ~work.committed, worker'.outcome \in {"ok", "timeout"}
        PROVE  worker'.sealed = Patch'
    <3>1. /\ art.tree # Nothing /\ art.tree.head = commits[record.base]
          /\ work.tree = art.tree.files
      BY <2>1, <2>2 DEF WorkInv
    <3> QED
      BY <1>4, <1>16, <2>1, <2>2, <3>1 DEF OfTheRun, Sealed, Patch
  <2> QED
    BY <1>6, <1>16, <2>1, <2>2 DEF OfTheRun, WorkInv
<1>17. CASE CleanUp
  <2>1. /\ UNCHANGED work /\ worker.pc = "clean" /\ worker'.pc = "publish"
        /\ worker'.outcome = worker.outcome /\ worker'.sealed = worker.sealed
        /\ art'.patch = art.patch
        /\ \/ art'.tree = Nothing
           \/ art'.tree = art.tree /\ worker'.warned
    BY <1>1, <1>17 DEF CleanUp, To
  <2> QED
    BY <1>4, <1>6, <1>17, <2>1 DEF OfTheRun, WorkInv, Patch
<1>18. CASE Publish \/ Die
  <2>1. UNCHANGED <<art, work>> /\ worker'.pc \in {"done", "dead"}
    BY <1>1, <1>18 DEF Publish, Die, To
  <2> QED
    BY <1>6, <1>18, <2>1 DEF OfTheRun, WorkInv
<1>19. CASE ReapHome \/ GcArtifact
  <2>1. /\ UNCHANGED <<worker, work>> /\ art'.tree \in {art.tree, Nothing}
        /\ worker.pc \in {"idle", "done", "dead"}
    BY <1>1, <1>19
    DEF ReapHome, GcArtifact, Aged, GcTree, GcShadow, GcPatch, GcHome, SweepShadow, RunInv
  <2> QED
    BY <1>6, <1>19, <2>1 DEF OfTheRun, WorkInv
<1> QED
  BY <1>2, <1>3, <1>5, <1>7, <1>8, <1>9, <1>10, <1>11, <1>12, <1>13, <1>14, <1>15, <1>16,
     <1>17,
     <1>18, <1>19 DEF OfTheRun

(* The patch of a run is the work of its provider, at each step. *)
LEMMA PatchKeeps ==
  ASSUME ContextType, ContextType', ProjectInv, AcceptorInv, RunInv, RunInv', WorkInv,
         PatchIsWork,
         AcceptStep \/ Create \/ OfTheRun \/ InTheProject
  PROVE  PatchIsWork'
<1>1. /\ DOMAIN art = {"shadow", "tree", "patchDir", "patch", "home"}
      /\ DOMAIN record = {"status", "context", "base", "route", "cancel", "shadow", "patch",
                          "warned", "by"}
  BY DEF ContextType, ArtType, RecordType
<1> SUFFICES ASSUME (/\ contract.mode = "edit" /\ record.by = "worker" /\ ~work.committed
                     /\ record.status \in {"completed", "timeout"})'
             PROVE  /\ record'.patch = Patch'
                    /\ art'.patchDir => art'.patch = record'.patch
  BY DEF PatchIsWork, Patch
<1>2. worker'.pc = "done"
  BY DEF RunInv
<1>3. CASE Publish
  <2>1. /\ UNCHANGED <<art, work, contract>> /\ worker.pc = "publish"
        /\ record'.status = Verdict
        /\ record'.patch = IF record.cancel \/ worker.outcome = "raised" THEN Nothing
                           ELSE worker.sealed
    BY <1>1, <1>3 DEF Publish
  <2>2. ~record.cancel /\ worker.outcome \in {"ok", "timeout"}
    BY <2>1 DEF Verdict
  <2>3. record'.patch = Patch /\ art.patch = record'.patch
    BY <2>1, <2>2 DEF WorkInv
  <2>4. record'.base = record.base /\ commits'[record.base] = commits[record.base]
    BY <1>3, <2>1, BaseStays DEF OfTheRun, RunInv
  <2> QED
    BY <2>1, <2>3, <2>4 DEF Patch
<1>4. CASE \/ RequestCancel \/ Spawn \/ Reconcile \/ GcRecord \/ Create
  <2>1. ~(record'.by = "worker" /\ record'.status \in {"completed", "timeout"})
        \/ Spawn
    BY <1>1, <1>4 DEF RequestCancel, Spawn, Reconcile, GcRecord, Create
  <2>2. CASE Spawn
    BY <1>1, <2>2 DEF Spawn, RunInv
  <2> QED
    BY <2>1, <2>2
<1>5. ASSUME (OfTheRun /\ UNCHANGED <<contract, record>>) \/ InTheProject,
             UNCHANGED work, art'.patchDir => art.patchDir /\ art'.patch = art.patch
      PROVE  /\ record'.patch = Patch'
             /\ art'.patchDir => art'.patch = record'.patch
  <2>1. UNCHANGED <<contract, record>>
    BY <1>5, ProjectTypes DEF InTheProject
  <2>2. worker.pc = "done"
    BY <2>1 DEF RunInv
  <2>3. commits'[record.base] = commits[record.base]
    BY <1>5, <2>1, <2>2, BaseStays DEF RunInv
  <2> QED
    BY <1>5, <2>1, <2>3 DEF PatchIsWork, Patch
<1>6. CASE InTheProject
  BY <1>5, <1>6, ProjectTypes DEF InTheProject
<1>7. CASE AcceptStep
  BY <1>7 DEF AcceptStep, PatchIsWork, Patch
<1>8. CASE ReapHome \/ GcArtifact
  <2>1. /\ UNCHANGED <<contract, record, work>>
        /\ art'.patchDir => art.patchDir /\ art'.patch = art.patch
    BY <1>1, <1>8 DEF ReapHome, GcArtifact, GcTree, GcShadow, GcPatch, GcHome, SweepShadow
  <2> QED
    BY <1>5, <1>8, <2>1 DEF OfTheRun
<1>9. CASE \/ WorkerLooks \/ PlaceShadow \/ PlaceWorktree \/ Placed \/ Seal \/ CleanUp \/ Die
           \/ ClaimRun
           \/ \E f \in FileSet : ProviderEdits(f)
           \/ ProviderCommits
           \/ \E o \in Answers : ProviderEnds(o)
  <2>1. record'.by = record.by /\ worker.pc # "done"
    BY <1>1, <1>9
    DEF WorkerLooks, Start, WorkRead, Compare, Compared, Checked, PlaceShadow,
        PlaceWorktree, Placed, Seal, CleanUp, Die, ClaimRun, ProviderEdits, ProviderCommits,
        ProviderEnds
  <2> QED
    BY <2>1 DEF RunInv
<1> QED
  BY <1>3, <1>4, <1>6, <1>7, <1>8, <1>9 DEF OfTheRun

(* What is left of a run can be found, at each step. *)
LEMMA LeftKeeps ==
  ASSUME ContextType, ContextType', ProjectInv, RunInv, RunInv', WorkInv, LeftIsFound,
         AcceptStep \/ Create \/ OfTheRun \/ InTheProject
  PROVE  LeftIsFound'
<1>1. /\ DOMAIN art = {"shadow", "tree", "patchDir", "patch", "home"}
      /\ DOMAIN record = {"status", "context", "base", "route", "cancel", "shadow", "patch",
                          "warned", "by"}
  BY DEF ContextType, ArtType, RecordType
<1>2. "deleted" \notin Verdicts /\ "accepted" \notin Verdicts /\ "running" \notin Verdicts
  BY DEF Verdicts
<1>3. CASE InTheProject
  BY <1>3, ProjectTypes DEF InTheProject, LeftIsFound
<1>4. CASE AcceptStep
  BY <1>4 DEF AcceptStep, LeftIsFound
<1>5. CASE Create \/ RequestCancel \/ Reconcile
  <2>1. /\ record'.status # "deleted"
        /\ record'.by = "worker" => record.by = "worker"
        /\ Create => acceptor.pc = "create"
        /\ RequestCancel => record'.cancel
        /\ Reconcile => record'.by = "reconciler"
        /\ Create => record'.status = "accepted"
    BY <1>1, <1>5 DEF Create, RequestCancel, Reconcile
  <2> QED
    BY <1>2, <1>5, <2>1 DEF LeftIsFound
<1>6. CASE GcRecord
  <2>1. /\ UNCHANGED art /\ record'.status = "deleted" /\ ~art.patchDir /\ ~art.home
        /\ contract.mode = "edit" => art.tree = Nothing
    BY <1>1, <1>6 DEF GcRecord, NoTree
  <2> QED
    BY <1>2, <2>1 DEF LeftIsFound, WorkInv
<1>7. CASE Publish
  <2>1. /\ UNCHANGED art /\ worker.pc = "publish" /\ record'.status \in Verdicts
        /\ record'.warned = (worker.warned /\ ~record.cancel) /\ record'.cancel = record.cancel
    BY <1>1, <1>7 DEF Publish, Verdict, Verdicts
  <2> QED
    BY <1>2, <2>1 DEF LeftIsFound, WorkInv
<1>8. CASE ReapHome \/ GcArtifact
  <2>1. /\ UNCHANGED record /\ art'.tree \in {art.tree, Nothing}
        /\ art'.patchDir => art.patchDir
        /\ art'.home => art.home
    BY <1>1, <1>8
    DEF ReapHome, GcArtifact, GcTree, GcShadow, GcPatch, GcHome, SweepShadow, ContextType,
        ArtType
  <2> QED
    BY <2>1 DEF LeftIsFound, ContextType, ArtType
<1>9. CASE Spawn \/ ClaimRun
  <2>1. /\ worker.pc \in {"idle", "spawned"}
        /\ record'.by = record.by
        /\ record.status = "accepted" \/ UNCHANGED <<record, art>>
        /\ record'.status \in {record.status, "failed", "running"}
    BY <1>1, <1>9 DEF Spawn, ClaimRun
  <2>2. record'.by # "worker"
    BY <2>1 DEF RunInv
  <2> QED
    BY <1>2, <2>1, <2>2 DEF LeftIsFound, RunInv
<1>10. CASE \/ WorkerLooks \/ PlaceShadow \/ PlaceWorktree \/ Placed \/ Seal \/ CleanUp
            \/ \E f \in FileSet : ProviderEdits(f)
            \/ ProviderCommits
            \/ \E o \in Answers : ProviderEnds(o)
  <2>1. UNCHANGED record /\ worker.pc \notin {"idle", "spawned", "done", "dead"}
    BY <1>10
    DEF WorkerLooks, Start, WorkRead, Compare, Compared, Checked, PlaceShadow,
        PlaceWorktree, Placed, Seal, CleanUp, ProviderEdits, ProviderCommits, ProviderEnds
  <2> QED
    BY <1>2, <2>1 DEF LeftIsFound, RunInv
<1>11. CASE Die
  BY <1>11 DEF Die, LeftIsFound
<1> QED
  BY <1>3, <1>4, <1>5, <1>6, <1>7, <1>8, <1>9, <1>10, <1>11 DEF OfTheRun

(* All of it holds at first, *)
LEMMA ContextStarts == ContextInit => ContextInv
<1> SUFFICES ASSUME ContextInit PROVE ContextInv
  OBVIOUS
<1> DEFINE tree == [f \in FileSet |-> 0]
<1>1. tree \in Trees /\ \A f \in FileSet : tree[f] = 0
  BY DEF Trees
<1> HIDE DEF tree
<1>2. commits = <<tree>> /\ project = [head |-> 1, tree |-> tree]
  BY DEF ContextInit, tree
<1>3. commits \in Seq(Trees) /\ DOMAIN commits = {1} /\ commits[1] = tree
  BY <1>1, <1>2
<1>4. ProjectType
  <2>1. project \in [head : Nat, tree : Trees]
    BY <1>1, <1>2
  <2>2. spent \in [edits : Nat, faults : Nat] /\ route \in Nat /\ returned \in BOOLEAN
        /\ contract \in [mode : {"read-only", "edit"}, async : BOOLEAN]
    BY DEF ContextInit
  <2> QED
    BY <1>3, <2>1, <2>2 DEF ProjectType
<1>5. AcceptorType /\ WorkerType
  BY SeenIs
  DEF ContextInit, AcceptorType, WorkerType, NoRead, NoWork, AcceptorPcs, WorkerPcs, Maybe
<1>6. RecordType /\ ArtType /\ WorkType
  BY SeenIs DEF ContextInit, RecordType, ArtType, WorkType, Maybe
<1>7. ProjectInv
  BY <1>1, <1>2, <1>3 DEF ContextInit, ProjectInv, Written
<1>8. AcceptorInv /\ RunInv /\ WorkerInv /\ WorkInv /\ PatchIsWork /\ LeftIsFound
  BY SeenIs, NothingGuarded
  DEF ContextInit, NoRead, NoWork, AcceptorInv, RunInv, WorkerInv, WorkInv, PatchIsWork,
      LeftIsFound, Verdicts
<1> QED
  BY <1>4, <1>5, <1>6, <1>7, <1>8 DEF ContextInv, ContextType

(* and at each step. *)
LEMMA ContextKeeps == ASSUME ContextInv, [ContextNext]_contextVars PROVE ContextInv'
<1>1. CASE AcceptStep \/ Create \/ OfTheRun \/ InTheProject
  <2>1. ContextType'
    BY <1>1, AcceptTypes, RecordTypes, LookTypes, RunTypes, PlaceTypes, ProjectTypes
    DEF ContextInv, OfTheRun, InTheProject
  <2>2. ProjectInv' /\ AcceptorInv'
    <3>1. CASE AcceptStep \/ Create
      BY <2>1, <3>1, AcceptKeeps DEF ContextInv
    <3>2. CASE OfTheRun
      <4>1. UNCHANGED <<contract, project, commits, acceptor, returned>>
            /\ spent'.edits >= spent.edits /\ spent.edits \in Nat /\ spent'.edits \in Nat
        BY <2>1, <3>2, RunFrame DEF ContextInv, ContextType, ProjectType
      <4>2. \A v : Written(v) => Written(v)'
        BY <4>1 DEF Written
      <4>3. Guarded(acceptor.seen)'
        BY <4>1, GuardStays DEF ContextInv, AcceptorInv
      <4> QED
        BY <4>1, <4>2, <4>3 DEF ContextInv, ProjectInv, AcceptorInv, InBaseOrLost, Lost
    <3>3. CASE InTheProject
      BY <2>1, <3>3, ProjectTypes, ProjectKeeps DEF ContextInv, InTheProject
    <3> QED
      BY <1>1, <3>1, <3>2, <3>3
  <2>3. RunInv'
    BY <1>1, RunKeeps DEF ContextInv
  <2>4. WorkerInv' /\ WorkInv'
    BY <1>1, <2>1, WorkerKeeps, WorkKeeps DEF ContextInv
  <2>5. PatchIsWork' /\ LeftIsFound'
    BY <1>1, <2>1, <2>3, PatchKeeps, LeftKeeps DEF ContextInv
  <2> QED
    BY <2>1, <2>2, <2>3, <2>4, <2>5 DEF ContextInv
<1>2. CASE UNCHANGED contextVars
  BY <1>2
  DEF contextVars, ContextInv, ContextType, ProjectType, AcceptorType, RecordType,
      WorkerType, ArtType, WorkType, ProjectInv, Written, AcceptorInv, Guarded,
      InBaseOrLost, Lost, RunInv, WorkerInv, WorkInv, Patch, PatchIsWork, LeftIsFound
<1> QED
  BY <1>1, <1>2 DEF ContextNext, OfTheRun, InTheProject

(* Whatever people and other runs do while an edit run is accepted and starts, a
   provider is told of the files what they are in its worktree, unless the project went
   back, and its patch is all it did, unless it committed. *)
THEOREM ContextsHonest == ContextSpec => []ContextsHold
<1>1. ContextInv => ContextsHold
  BY DEF ContextInv, ContextsHold, PromptIsBase, WorkerInv, Guarded, RunInv
<1> QED
  BY <1>1, ContextStarts, ContextKeeps, PTL DEF ContextSpec

(* A worktree that a worker could not remove is told of, and a record is deleted after
   all that the run kept. *)
THEOREM LeftIsKnown == ContextSpec => []LeftIsFound
<1>1. ContextInv => LeftIsFound
  BY DEF ContextInv
<1> QED
  BY <1>1, ContextStarts, ContextKeeps, PTL DEF ContextSpec

-----------------------------------------------------------------------------
(* Updates, whose file is read again under the lock before it is written, and
   managed Skills.                                                           *)

(* However many checks and updates overlap with it, and wherever they die, what the user
   asked for stays in the file. *)
THEOREM WishesStay == UpdateSpec => []PreferenceKept
<1>1. UpdateInit => PreferenceKept
  BY DEF UpdateInit, PreferenceKept
<1>2. ASSUME PreferenceKept, [UpdateNext]_updateVars PROVE PreferenceKept'
  <2>1. CASE \E wish : Prefer(wish)
    BY <2>1 DEF Prefer, PreferenceKept
  <2>2. CASE \E p \in Processes : Save(p)
    BY <1>2, <2>2 DEF Save, Saved, PreferenceKept
  <2>3. CASE UNCHANGED <<preference, asked>>
    BY <1>2, <2>3 DEF PreferenceKept
  <2>4. ASSUME NEW p \in Processes, NEW how,
               Open(p, how) \/ Claim(p) \/ Fetch(p) \/ Decide(p) \/ Install(p) \/ Abandon(p)
        PROVE  UNCHANGED <<preference, asked>>
    BY <2>4 DEF Open, Claim, Fetch, Decide, Install, Abandon, StateKept
  <2>5. ASSUME NEW on \in BOOLEAN, SetEnabled(on) \/ SetAuto(on)
        PROVE  \E wish : Prefer(wish)
    BY <2>5 DEF SetEnabled, SetAuto
  <2>6. CASE Release \/ Morning \/ UNCHANGED updateVars
    BY <2>6, <2>3 DEF Release, Morning, StateKept, updateVars
  <2> QED
    BY <1>2, <2>1, <2>2, <2>3, <2>4, <2>5, <2>6 DEF UpdateNext
<1> QED
  BY <1>1, <1>2, PTL DEF UpdateSpec

AvatarType == DOMAIN avatar = Hosts

(* The steps of a command, on the avatars. *)
LEMMA AvatarSteps ==
  ASSUME AvatarType, Step
  PROVE  AvatarType' /\ \A h \in Hosts : avatar[h] \in {"dir", "other"} => avatar'[h] = avatar[h]
<1>1. CASE \E g \in Hosts : LinkAvatar(g)
  BY <1>1 DEF AvatarType, LinkAvatar, Taken, Migrates
<1>2. CASE \E g \in Hosts : UnlinkAvatar(g)
  BY <1>2 DEF AvatarType, UnlinkAvatar
<1>3. CASE MoveTree
  BY <1>3 DEF AvatarType, MoveTree
<1>4. CASE UndoAvatars \/ UndoLinks
  BY <1>4 DEF AvatarType, UndoAvatars, UndoLinks
<1>5. CASE UNCHANGED avatar
  BY <1>5 DEF AvatarType
<1> QED
  BY <1>1, <1>2, <1>3, <1>4, <1>5
  DEF Step, files, StartInstall, StartUninstall, Prepare, Swap, Activate, AvatarsDone,
      WriteManifest, DropManifest, DropLegacy, Commit, Complete, Refuse, Error, Raise, Crash,
      UndoTree, UndoManifest, UndoEnd

(* Whatever fails, dies or is undone, and whatever the user does meanwhile: no command
   removes or replaces what somebody else put in the place of an avatar. *)
THEOREM ForeignStays == InstallSpec => ForeignKept
<1>1. InstallInit => AvatarType
  BY DEF InstallInit, AvatarType
<1>2. ASSUME AvatarType, [InstallNext]_installVars PROVE AvatarType'
  <2>1. CASE Step
    BY <1>2, <2>1, AvatarSteps
  <2>2. CASE Touch
    BY <1>2, <2>2 DEF AvatarType, Touch, EditMirror, EditAvatar
  <2>3. CASE UNCHANGED installVars
    BY <1>2, <2>3 DEF AvatarType, installVars, files
  <2> QED
    BY <1>2, <2>1, <2>2, <2>3 DEF InstallNext
<1>3. AvatarType /\ [InstallNext]_installVars =>
        [Step => \A h \in Hosts : avatar[h] \in {"dir", "other"}
                                    => avatar'[h] = avatar[h]]_installVars
  BY AvatarSteps
<1> QED
  BY <1>1, <1>2, <1>3, PTL DEF InstallSpec, ForeignKept

(* What holds of an installation that nobody edited: its files between commands, and at
   each step of one what it has done and can undo. *)
Pcs == {"prepare", "swap", "activate", "avatars", "unlink", "manifest", "legacy", "commit",
        "complete"} \cup Undoing
Manifest == [files : Versions, hosts : SUBSET Hosts]
OpType == [kind : Both, version : Versions, pc : Pcs, todo : SUBSET Hosts,
           linked : SUBSET Hosts, made : SUBSET Hosts, saved : SUBSET Hosts,
           backup : Versions \cup {None}, active : BOOLEAN, old : Manifest \cup {None},
           replaced : BOOLEAN, target : Hosts \cup {None}]

FilesType ==
  /\ mirror \in Versions \cup {None} /\ manifest \in Manifest \cup {None}
  /\ avatar \in [Hosts -> {"none", "link", "copy"}] /\ legacy \in Hosts \cup {None}
  /\ op # NoOp => op \in OpType

Unlinked == \A h \in Always : avatar[h] # "link"

(* An installation that a command can go on from. *)
Rest ==
  /\ mirror = IF manifest = None THEN None ELSE manifest.files
  /\ manifest # None => legacy = None
  /\ mirror = None => Unlinked

(* What the command found. *)
OldMirror == IF op.old = None THEN None ELSE op.old.files
AsFound == mirror = OldMirror /\ manifest = op.old
Fixed == op.kind = "install" \/ op.old # None
SetAside == op.backup = OldMirror \/ ~Fixed

(* The trees and the manifest at each of its steps. *)
OpFiles ==
  /\ op.pc \in {"swap", "activate", "avatars", "undo_avatars"} => op.kind = "install"
  /\ op.pc \in {"unlink", "undo_links"} => op.kind = "uninstall"
  /\ op.kind = "uninstall" => ~op.active
  /\ op.pc \in {"prepare", "swap", "unlink"} =>
       AsFound /\ op.backup = None /\ ~op.active /\ ~op.replaced
  /\ op.pc = "activate" =>
       /\ mirror = None /\ op.backup = OldMirror /\ manifest = op.old
       /\ ~op.active /\ ~op.replaced
  /\ op.kind = "install" /\ op.pc \in {"avatars", "manifest"} =>
       /\ mirror = op.version /\ op.backup = OldMirror /\ manifest = op.old
       /\ op.active /\ ~op.replaced
  /\ op.kind = "install" /\ op.pc \in {"legacy", "commit", "complete"} =>
       /\ mirror = op.version /\ op.backup = OldMirror
       /\ manifest # None /\ manifest.files = op.version
       /\ op.active /\ op.replaced
  /\ op.kind = "uninstall" /\ op.pc \in {"manifest", "legacy", "commit", "complete"} =>
       mirror = None /\ SetAside
  /\ op.kind = "uninstall" /\ op.pc = "manifest" => manifest = op.old /\ ~op.replaced
  /\ op.kind = "uninstall" /\ op.pc \in {"legacy", "commit", "complete"} =>
       manifest = None /\ (op.replaced <=> op.old # None)
  /\ op.pc \in {"undo_avatars", "undo_tree"} =>
       IF op.active THEN op.backup = OldMirror
       ELSE (op.backup = None /\ mirror = OldMirror) \/ (SetAside /\ mirror = None)
  /\ op.pc \in {"undo_links", "undo_manifest", "undo_end"} /\ Fixed => mirror = OldMirror
  /\ op.pc \in Undoing \ {"undo_end"} /\ Fixed /\ ~op.replaced => manifest = op.old
  /\ op.pc = "undo_end" /\ Fixed => manifest = op.old
  /\ op.old # None \/ op.pc \in {"commit", "complete"} => legacy = None

(* It has its marker from its first change to its last. *)
OpMarker ==
  /\ op.pc = "prepare" => marker = None
  /\ marker = None /\ op.pc # "prepare" =>
       /\ op.pc \in Undoing /\ op.kind = "install"
       /\ op.backup = None /\ ~op.active /\ ~op.replaced

(* The links that are there although there was nothing are its own. *)
OpLinks ==
  /\ op.kind = "install" /\ op.pc \notin Undoing => op.made \subseteq op.linked
  /\ op.kind = "install" /\ op.old = None =>
       /\ op.pc \in {"prepare", "swap", "activate", "undo_tree", "undo_manifest", "undo_end"}
            => Unlinked
       /\ op.pc = "avatars" => \A h \in Always : avatar[h] = "link" => h \in op.made
       /\ op.pc \in {"manifest", "legacy", "commit", "complete", "undo_avatars"}
            => \A h \in Always : avatar[h] = "link" => h \in op.linked
  /\ op.kind = "uninstall" =>
       /\ op.pc \in {"prepare", "unlink"} => \A h \in Always : avatar[h] = "link" => h \in op.todo
       /\ op.pc \in {"manifest", "legacy", "commit", "complete"} => Unlinked

Untouched ==
  /\ FilesType
  /\ marker = None => Rest
  /\ op # NoOp => OpFiles /\ OpMarker /\ OpLinks

InstallInv == touches \in Nat /\ (touches = 0 => Untouched)

(* The steps of an installation, *)
LEMMA InstallSteps ==
  ASSUME Untouched,
         \/ Swap \/ Activate \/ AvatarsDone \/ WriteManifest
         \/ \E h \in Hosts : LinkAvatar(h)
  PROVE  Untouched'
<1>1. CASE Swap
  BY <1>1, HostsAssumption
  DEF Swap, At, Go, Quiet, files,
      Untouched, FilesType, OpType, Pcs, Undoing, Both, Rest, Unlinked, OldMirror, AsFound,
      Fixed, SetAside, OpFiles, OpMarker, OpLinks
<1>2. CASE Activate
  <2>1. op \in OpType /\ op # NoOp
    BY <1>2 DEF Activate, At, Quiet, Untouched, FilesType
  <2>2. /\ op.pc = "activate" /\ op.kind = "install" /\ mirror' = op.version
        /\ op' = [op EXCEPT !.active = TRUE, !.pc = "avatars"]
        /\ UNCHANGED <<manifest, avatar, legacy, marker>>
    BY <1>2 DEF Activate, At, Quiet
  <2>3. op' \in OpType
    BY <2>1, <2>2, HostsAssumption DEF OpType, Pcs, Undoing, Both
  <2>4. /\ op'.pc = "avatars" /\ op'.active = TRUE /\ op'.kind = op.kind
        /\ op'.version = op.version /\ op'.todo = op.todo /\ op'.linked = op.linked
        /\ op'.made = op.made /\ op'.saved = op.saved /\ op'.backup = op.backup
        /\ op'.old = op.old /\ op'.replaced = op.replaced /\ op'.target = op.target
    BY <2>1, <2>2 DEF OpType
  <2>5. FilesType'
    BY <2>1, <2>2, <2>3, HostsAssumption DEF Untouched, FilesType, OpFiles, OpType
  <2>6. marker' = None => Rest'
    BY <2>1, <2>2, <2>4, HostsAssumption DEF Untouched, FilesType, Rest, Unlinked, OpMarker,
      OpFiles, OpLinks, Undoing, Pcs, OpType,
      AsFound, OldMirror, Fixed
  <2>7. OpFiles'
    BY <2>1, <2>2, <2>4 DEF Untouched, FilesType, OpFiles, OpMarker, OldMirror, AsFound, Fixed,
      SetAside, Undoing, OpType,
      Both, Pcs
  <2>8. OpMarker'
    BY <2>1, <2>2, <2>4, HostsAssumption DEF Untouched, OpFiles, OpMarker, Undoing, OpType, Both,
      Pcs
  <2>9. OpLinks'
    BY <2>1, <2>2, <2>4 DEF Untouched, FilesType, OpFiles, OpLinks, Unlinked, Undoing, OpType,
      Both, Always
  <2> QED
    BY <2>3, <2>5, <2>6, <2>7, <2>8, <2>9 DEF Untouched
<1>3. CASE \E h \in Hosts : LinkAvatar(h)
  <2>1. PICK h \in Hosts : LinkAvatar(h)
    BY <1>3
  <2>2. op \in OpType /\ op # NoOp
    BY <2>1 DEF LinkAvatar, At, Untouched, FilesType
  <2>3. /\ op.pc = "avatars" /\ op.kind = "install" /\ h \in op.todo
        /\ UNCHANGED <<mirror, manifest, legacy, marker>>
    BY <2>1 DEF LinkAvatar, At
  <2>4. /\ op' \in OpType /\ op'.pc = op.pc /\ op'.kind = op.kind /\ op'.version = op.version
        /\ op'.backup = op.backup /\ op'.active = op.active /\ op'.old = op.old
        /\ op'.replaced = op.replaced
        /\ op'.linked = (IF Taken(h) THEN op.linked ELSE op.linked \cup {h})
        /\ op'.made = (IF Taken(h) \/ avatar[h] = "link" THEN op.made ELSE op.made \cup {h})
    <3>1. op' = [op EXCEPT !.todo = @ \ {h},
                   !.linked = IF Taken(h) THEN @ ELSE @ \cup {h},
                   !.made = IF Taken(h) \/ avatar[h] = "link" THEN @ ELSE @ \cup {h},
                   !.saved = IF Migrates(h) THEN @ \cup {h} ELSE @]
      BY <2>1 DEF LinkAvatar
    <3>2. /\ (IF Taken(h) THEN op.linked ELSE op.linked \cup {h}) \in SUBSET Hosts
          /\ (IF Taken(h) \/ avatar[h] = "link" THEN op.made ELSE op.made \cup {h}) \in SUBSET Hosts
          /\ (IF Migrates(h) THEN op.saved \cup {h} ELSE op.saved) \in SUBSET Hosts
          /\ op.todo \ {h} \in SUBSET Hosts
      BY <2>2 DEF OpType
    <3> QED
      BY <2>2, <3>1, <3>2 DEF OpType
  <2>5. /\ avatar' \in [Hosts -> {"none", "link", "copy"}]
        /\ \A g \in Hosts : avatar'[g] = IF g = h /\ ~Taken(h) THEN "link" ELSE avatar[g]
    BY <2>1 DEF LinkAvatar, Untouched, FilesType
  <2>6. FilesType'
    BY <2>3, <2>4, <2>5 DEF Untouched, FilesType
  <2>7. OpFiles' /\ OpMarker'
    BY <2>2, <2>3, <2>4 DEF Untouched, OpFiles, OpMarker, OldMirror, AsFound, Fixed, SetAside
  <2>8. marker' # None
    BY <2>2, <2>3 DEF Untouched, OpMarker, Undoing
  <2>9. OpLinks'
    <3>1. op'.made \subseteq op'.linked
      BY <2>2, <2>3, <2>4 DEF Untouched, OpLinks, Undoing
    <3>2. op.old = None => \A g \in Always : avatar'[g] = "link" => g \in op'.made
      BY <2>2, <2>3, <2>4, <2>5 DEF Untouched, OpLinks, Always
    <3> QED
      BY <2>3, <2>4, <3>1, <3>2 DEF OpLinks
  <2> QED
    BY <2>6, <2>7, <2>8, <2>9 DEF Untouched
<1>4. CASE AvatarsDone
  BY <1>4, HostsAssumption
  DEF AvatarsDone, At, Go, Quiet, files,
      Untouched, FilesType, OpType, Pcs, Undoing, Both, Rest, Unlinked, OldMirror, AsFound,
      Fixed, SetAside, OpFiles, OpMarker, OpLinks
<1>5. CASE WriteManifest
  <2>1. op \in OpType /\ op # NoOp
    BY <1>5 DEF WriteManifest, At, Quiet, Untouched, FilesType
  <2>2. /\ op.pc = "manifest" /\ op.kind = "install"
        /\ manifest' = [files |-> op.version, hosts |-> op.linked]
        /\ op' = [op EXCEPT !.replaced = TRUE, !.pc = "legacy"]
        /\ UNCHANGED <<mirror, avatar, legacy, marker>>
    BY <1>5 DEF WriteManifest, At, Quiet
  <2>3. op' \in OpType
    BY <2>1, <2>2, HostsAssumption DEF OpType, Pcs, Undoing, Both
  <2>4. /\ op'.pc = "legacy" /\ op'.replaced = TRUE /\ op'.kind = op.kind
        /\ op'.version = op.version /\ op'.todo = op.todo /\ op'.linked = op.linked
        /\ op'.made = op.made /\ op'.saved = op.saved /\ op'.backup = op.backup
        /\ op'.active = op.active /\ op'.old = op.old /\ op'.target = op.target
    BY <2>1, <2>2 DEF OpType
  <2>5. FilesType'
    BY <2>1, <2>2, <2>3, HostsAssumption DEF Untouched, FilesType, OpFiles, OpType, Manifest
  <2>6. marker' = None => Rest'
    BY <2>1, <2>2, <2>4, HostsAssumption DEF Untouched, FilesType, Rest, Unlinked, OpMarker,
      OpFiles, OpLinks, Undoing, Pcs, OpType,
      AsFound, OldMirror, Fixed
  <2>7. OpFiles'
    <3>1. manifest' \in Manifest /\ manifest' # None /\ manifest'.files = op.version
      BY <2>1, <2>2, HostsAssumption DEF OpType, Manifest
    <3> QED
      BY <2>1, <2>2, <2>4, <3>1 DEF Untouched, FilesType, OpFiles, OpMarker, OldMirror, AsFound,
        Fixed, SetAside, Undoing, OpType,
      Both, Pcs
  <2>8. OpMarker'
    BY <2>1, <2>2, <2>4, HostsAssumption DEF Untouched, OpFiles, OpMarker, Undoing, OpType, Both,
      Pcs
  <2>9. OpLinks'
    BY <2>1, <2>2, <2>4 DEF Untouched, FilesType, OpFiles, OpLinks, Unlinked, Undoing, OpType,
      Both, Always
  <2> QED
    BY <2>3, <2>5, <2>6, <2>7, <2>8, <2>9 DEF Untouched
<1> QED
  BY <1>1, <1>2, <1>3, <1>4, <1>5

(* of a removal, *)
LEMMA UninstallSteps ==
  ASSUME Untouched, MoveTree \/ DropManifest \/ \E h \in Hosts : UnlinkAvatar(h)
  PROVE  Untouched'
<1>1. CASE \E h \in Hosts : UnlinkAvatar(h)
  <2>1. PICK h \in Hosts : UnlinkAvatar(h)
    BY <1>1
  <2>2. op \in OpType /\ op # NoOp
    BY <2>1 DEF UnlinkAvatar, At, Untouched, FilesType
  <2>3. /\ op.pc = "unlink" /\ op.kind = "uninstall" /\ h \in op.todo
        /\ UNCHANGED <<mirror, manifest, legacy, marker>>
    BY <2>1 DEF UnlinkAvatar, At
  <2>4. /\ op' \in OpType /\ op'.pc = op.pc /\ op'.kind = op.kind /\ op'.version = op.version
        /\ op'.backup = op.backup /\ op'.active = op.active /\ op'.old = op.old
        /\ op'.replaced = op.replaced /\ op'.todo = op.todo \ {h}
    <3>1. op' = [op EXCEPT !.todo = @ \ {h},
                           !.made = IF avatar[h] = "link" THEN @ \cup {h} ELSE @]
      BY <2>1 DEF UnlinkAvatar
    <3>2. /\ (IF avatar[h] = "link" THEN op.made \cup {h} ELSE op.made) \in SUBSET Hosts
          /\ op.todo \ {h} \in SUBSET Hosts
      BY <2>2 DEF OpType
    <3> QED
      BY <2>2, <3>1, <3>2 DEF OpType
  <2>5. /\ avatar' \in [Hosts -> {"none", "link", "copy"}] /\ avatar'[h] # "link"
        /\ \A g \in Hosts : avatar'[g] = "link" => avatar[g] = "link"
    BY <2>1 DEF UnlinkAvatar, Untouched, FilesType
  <2>6. FilesType'
    BY <2>3, <2>4, <2>5 DEF Untouched, FilesType
  <2>7. OpFiles' /\ OpMarker'
    BY <2>2, <2>3, <2>4 DEF Untouched, OpFiles, OpMarker, OldMirror, AsFound, Fixed, SetAside
  <2>8. marker' # None
    BY <2>2, <2>3 DEF Untouched, OpMarker, Undoing
  <2>9. OpLinks'
    BY <2>2, <2>3, <2>4, <2>5 DEF Untouched, OpLinks, Always
  <2> QED
    BY <2>6, <2>7, <2>8, <2>9 DEF Untouched
<1>2. CASE MoveTree
  <2>1. op \in OpType /\ op # NoOp /\ op.pc = "unlink" /\ op.kind = "uninstall" /\ op.todo = {}
    BY <1>2 DEF MoveTree, At, Untouched, FilesType
  <2> DEFINE copy == mirror = None /\ op.target # None /\ avatar[op.target] = "copy"
  <2>2. /\ op' = [op EXCEPT !.pc = "manifest",
                            !.backup = IF copy THEN LegacyVersion ELSE mirror]
        /\ mirror' = None
        /\ avatar' = IF copy THEN [avatar EXCEPT ![op.target] = "none"] ELSE avatar
        /\ UNCHANGED <<manifest, legacy, marker>>
    BY <1>2 DEF MoveTree
  <2>3. /\ op' \in OpType /\ op'.pc = "manifest" /\ op'.kind = op.kind /\ op'.old = op.old
        /\ op'.active = op.active /\ op'.replaced = op.replaced
        /\ op'.backup = IF copy THEN LegacyVersion ELSE mirror
    <3>1. (IF copy THEN LegacyVersion ELSE mirror) \in Versions \cup {None}
      BY HostsAssumption DEF Untouched, FilesType
    <3> QED
      BY <2>1, <2>2, <3>1 DEF OpType, Pcs
  <2>4. /\ avatar' \in [Hosts -> {"none", "link", "copy"}]
        /\ \A g \in Hosts : avatar'[g] = "link" => avatar[g] = "link"
    BY <2>2 DEF Untouched, FilesType
  <2>5. FilesType'
    BY <2>2, <2>3, <2>4 DEF Untouched, FilesType
  <2>6. AsFound /\ ~op.active /\ ~op.replaced /\ (op.old # None => legacy = None)
    BY <2>1 DEF Untouched, OpFiles
  <2>7. copy => op.old = None
    BY <2>1, <2>6, HostsAssumption DEF AsFound, OldMirror, OpType, Manifest
  <2> HIDE DEF copy
  <2>8. OpFiles'
    <3>1. SetAside'
      BY <2>1, <2>3, <2>6, <2>7 DEF AsFound, SetAside, OldMirror, Fixed
    <3> QED
      BY <2>1, <2>2, <2>3, <2>6, <3>1 DEF OpFiles, AsFound, Undoing
  <2>9. OpMarker' /\ marker' # None
    BY <2>1, <2>2, <2>3 DEF Untouched, OpMarker, Undoing
  <2>10. OpLinks'
    BY <2>1, <2>3, <2>4 DEF Untouched, OpLinks, Always, Unlinked
  <2> QED
    BY <2>5, <2>8, <2>9, <2>10 DEF Untouched
<1>3. CASE DropManifest
  BY <1>3, HostsAssumption
  DEF DropManifest, At, Go, Quiet, files,
      Untouched, FilesType, OpType, Pcs, Undoing, Both, Rest, Unlinked, OldMirror, AsFound,
      Fixed, SetAside, OpFiles, OpMarker, OpLinks
<1> QED
  BY <1>1, <1>2, <1>3

(* and of both. *)
LEMMA SharedSteps ==
  ASSUME Untouched, Prepare \/ DropLegacy \/ Commit \/ Complete
  PROVE  Untouched'
<1>1. CASE Prepare
  <2>1. op \in OpType /\ op # NoOp
    BY <1>1 DEF Prepare, At, Go, Quiet, Untouched, FilesType
  <2>2. /\ op.pc = "prepare" /\ marker' = "prepared"
        /\ op' = [op EXCEPT !.pc = IF op.kind = "install" THEN "swap" ELSE "unlink"]
        /\ UNCHANGED <<mirror, manifest, avatar, legacy>>
    BY <1>1 DEF Prepare, At, Go, Quiet
  <2>3. op' \in OpType
    BY <2>1, <2>2, HostsAssumption DEF OpType, Pcs, Undoing, Both
  <2>4. /\ op'.pc = IF op.kind = "install" THEN "swap" ELSE "unlink"
        /\ op'.kind = op.kind /\ op'.version = op.version /\ op'.todo = op.todo
        /\ op'.linked = op.linked /\ op'.made = op.made /\ op'.saved = op.saved
        /\ op'.backup = op.backup /\ op'.active = op.active /\ op'.old = op.old
        /\ op'.replaced = op.replaced /\ op'.target = op.target
    BY <2>1, <2>2 DEF OpType
  <2>5. FilesType'
    BY <2>1, <2>2, <2>3, HostsAssumption DEF Untouched, FilesType, OpFiles, OpType
  <2>6. marker' = None => Rest'
    BY <2>1, <2>2, <2>4, HostsAssumption DEF Untouched, FilesType, Rest, Unlinked, OpMarker,
      OpFiles, OpLinks, Undoing, Pcs, OpType,
      AsFound, OldMirror, Fixed
  <2>7. OpFiles'
    BY <2>1, <2>2, <2>4 DEF Untouched, FilesType, OpFiles, OpMarker, OldMirror, AsFound, Fixed,
      SetAside, Undoing, OpType,
      Both, Pcs
  <2>8. OpMarker'
    BY <2>1, <2>2, <2>4, HostsAssumption DEF Untouched, OpFiles, OpMarker, Undoing, OpType, Both,
      Pcs
  <2>9. OpLinks'
    BY <2>1, <2>2, <2>4 DEF Untouched, FilesType, OpFiles, OpLinks, Unlinked, Undoing, OpType,
      Both, Always
  <2> QED
    BY <2>3, <2>5, <2>6, <2>7, <2>8, <2>9 DEF Untouched
<1>2. CASE DropLegacy
  BY <1>2, HostsAssumption
  DEF DropLegacy, At, Go, Quiet, files,
      Untouched, FilesType, OpType, Pcs, Undoing, Both, Rest, Unlinked, OldMirror, AsFound,
      Fixed, SetAside, OpFiles, OpMarker, OpLinks
<1>3. CASE Commit
  <2>1. op \in OpType /\ op # NoOp
    BY <1>3 DEF Commit, At, Go, Quiet, Untouched, FilesType
  <2>2. /\ op.pc = "commit" /\ marker' = "committed"
        /\ op' = [op EXCEPT !.pc = "complete"]
        /\ UNCHANGED <<mirror, manifest, avatar, legacy>>
    BY <1>3 DEF Commit, At, Go, Quiet
  <2>3. op' \in OpType
    BY <2>1, <2>2, HostsAssumption DEF OpType, Pcs, Undoing, Both
  <2>4. /\ op'.pc = "complete" /\ op'.kind = op.kind /\ op'.version = op.version
        /\ op'.todo = op.todo /\ op'.linked = op.linked /\ op'.made = op.made
        /\ op'.saved = op.saved /\ op'.backup = op.backup /\ op'.active = op.active
        /\ op'.old = op.old /\ op'.replaced = op.replaced /\ op'.target = op.target
    BY <2>1, <2>2 DEF OpType
  <2>5. FilesType'
    BY <2>1, <2>2, <2>3, HostsAssumption DEF Untouched, FilesType, OpFiles, OpType
  <2>6. marker' = None => Rest'
    BY <2>1, <2>2, <2>4, HostsAssumption DEF Untouched, FilesType, Rest, Unlinked, OpMarker,
      OpFiles, OpLinks, Undoing, Pcs, OpType,
      AsFound, OldMirror, Fixed
  <2>7. OpFiles'
    BY <2>1, <2>2, <2>4 DEF Untouched, FilesType, OpFiles, OpMarker, OldMirror, AsFound, Fixed,
      SetAside, Undoing, OpType,
      Both, Pcs
  <2>8. OpMarker'
    BY <2>1, <2>2, <2>4, HostsAssumption DEF Untouched, OpFiles, OpMarker, Undoing, OpType, Both,
      Pcs
  <2>9. OpLinks'
    BY <2>1, <2>2, <2>4 DEF Untouched, FilesType, OpFiles, OpLinks, Unlinked, Undoing, OpType,
      Both, Always
  <2> QED
    BY <2>3, <2>5, <2>6, <2>7, <2>8, <2>9 DEF Untouched
<1>4. CASE Complete
  BY <1>4, HostsAssumption
  DEF Complete, At, Go, Quiet, files,
      Untouched, FilesType, OpType, Pcs, Undoing, Both, Rest, Unlinked, OldMirror, AsFound,
      Fixed, SetAside, OpFiles, OpMarker, OpLinks
<1> QED
  BY <1>1, <1>2, <1>3, <1>4

(* What is undone. *)
LEMMA Undo ==
  ASSUME Untouched, UndoAvatars \/ UndoTree \/ UndoLinks \/ UndoManifest \/ UndoEnd
  PROVE  Untouched'
<1>1. CASE UndoAvatars
  <2>1. op \in OpType /\ op # NoOp /\ op.pc = "undo_avatars" /\ op.kind = "install"
    BY <1>1 DEF UndoAvatars, At, Untouched, FilesType
  <2>2. /\ op' = [op EXCEPT !.pc = "undo_tree"]
        /\ UNCHANGED <<mirror, manifest, legacy, marker>>
    BY <1>1 DEF UndoAvatars, Go
  <2>3. /\ op' \in OpType /\ op'.pc = "undo_tree" /\ op'.kind = op.kind /\ op'.old = op.old
        /\ op'.active = op.active /\ op'.replaced = op.replaced /\ op'.backup = op.backup
        /\ op'.linked = op.linked
    BY <2>1, <2>2 DEF OpType, Pcs, Undoing
  <2>4. /\ avatar' \in [Hosts -> {"none", "link", "copy"}]
        /\ \A g \in Hosts : avatar'[g] = "link" => avatar[g] = "link" /\ g \notin op.linked
    BY <1>1 DEF UndoAvatars, Untouched, FilesType
  <2>5. FilesType'
    BY <2>2, <2>3, <2>4 DEF Untouched, FilesType
  <2>6. OpFiles'
    BY <2>1, <2>2, <2>3 DEF Untouched, OpFiles, OldMirror, Fixed, SetAside, Undoing
  <2>7. OpMarker'
    BY <2>1, <2>2, <2>3 DEF Untouched, OpMarker, Undoing
  <2>8. OpLinks'
    BY <2>1, <2>3, <2>4 DEF Untouched, OpLinks, Always, Unlinked, Undoing
  <2>9. marker' = None => Rest'
    BY <2>2, <2>4 DEF Untouched, Rest, Unlinked, Always
  <2> QED
    BY <2>3, <2>5, <2>6, <2>7, <2>8, <2>9 DEF Untouched
<1>2. CASE UndoTree
  BY <1>2, HostsAssumption
  DEF UndoTree, At, Go, Quiet, files,
      Untouched, FilesType, OpType, Pcs, Undoing, Both, Rest, Unlinked, OldMirror, AsFound,
      Fixed, SetAside, OpFiles, OpMarker, OpLinks
<1>3. CASE UndoLinks
  BY <1>3, HostsAssumption
  DEF UndoLinks, At, Go, Quiet, files,
      Untouched, FilesType, OpType, Pcs, Undoing, Both, Rest, Unlinked, OldMirror, AsFound,
      Fixed, SetAside, OpFiles, OpMarker, OpLinks
<1>4. CASE UndoManifest
  <2>1. op \in OpType /\ op # NoOp
    BY <1>4 DEF UndoManifest, At, Go, Quiet, Untouched, FilesType
  <2>2. /\ op.pc = "undo_manifest"
        /\ manifest' = IF op.replaced /\ (op.kind = "install" \/ mirror # None)
                       THEN op.old ELSE manifest
        /\ op' = [op EXCEPT !.pc = "undo_end"]
        /\ UNCHANGED <<mirror, avatar, legacy, marker>>
    BY <1>4 DEF UndoManifest, At, Go, Quiet
  <2>3. op' \in OpType
    BY <2>1, <2>2, HostsAssumption DEF OpType, Pcs, Undoing, Both
  <2>4. /\ op'.pc = "undo_end" /\ op'.kind = op.kind /\ op'.version = op.version
        /\ op'.todo = op.todo /\ op'.linked = op.linked /\ op'.made = op.made
        /\ op'.saved = op.saved /\ op'.backup = op.backup /\ op'.active = op.active
        /\ op'.old = op.old /\ op'.replaced = op.replaced /\ op'.target = op.target
    BY <2>1, <2>2 DEF OpType
  <2>5. FilesType'
    BY <2>1, <2>2, <2>3, HostsAssumption DEF Untouched, FilesType, OpFiles, OpType
  <2>6. marker' = None => Rest'
    BY <2>1, <2>2, <2>4, HostsAssumption DEF Untouched, FilesType, Rest, Unlinked, OpMarker,
      OpFiles, OpLinks, Undoing, Pcs, OpType,
      AsFound, OldMirror, Fixed
  <2>7. OpFiles'
    <3>1. Fixed => mirror = OldMirror /\ (~op.replaced => manifest = op.old)
      BY <2>1, <2>2 DEF Untouched, OpFiles, Undoing
    <3>2. op.old # None => OldMirror # None
      BY <2>1, HostsAssumption DEF OldMirror, OpType, Manifest
    <3>3. Fixed => manifest' = op.old
      BY <2>2, <3>1, <3>2 DEF Fixed
    <3> QED
      BY <2>1, <2>2, <2>4, <3>1, <3>3 DEF Untouched, OpFiles, OldMirror, Fixed, Undoing
  <2>8. OpMarker'
    BY <2>1, <2>2, <2>4, HostsAssumption DEF Untouched, OpFiles, OpMarker, Undoing, OpType, Both,
      Pcs
  <2>9. OpLinks'
    BY <2>1, <2>2, <2>4 DEF Untouched, FilesType, OpFiles, OpLinks, Unlinked, Undoing, OpType,
      Both, Always
  <2> QED
    BY <2>3, <2>5, <2>6, <2>7, <2>8, <2>9 DEF Untouched
<1>5. CASE UndoEnd
  <2>1. op \in OpType /\ op # NoOp /\ op.pc = "undo_end" /\ OpFiles /\ OpMarker /\ OpLinks
    BY <1>5 DEF UndoEnd, At, Untouched, FilesType
  <2>2. /\ op' = NoOp /\ UNCHANGED <<mirror, manifest, avatar, legacy>>
        /\ marker' = IF Restored THEN None ELSE marker
    BY <1>5 DEF UndoEnd
  <2>3. Restored => Rest
    <3>1. CASE op.old = None
      BY <2>1, <3>1 DEF Restored, Rest, OpLinks
    <3>2. CASE op.old # None
      BY <2>1, <3>2, HostsAssumption DEF Restored, Rest, OpFiles, OpType, Manifest
    <3> QED
      BY <3>1, <3>2
  <2> QED
    BY <2>2, <2>3 DEF Untouched, FilesType, Rest, Unlinked
<1> QED
  BY <1>1, <1>2, <1>3, <1>4, <1>5

(* A failure and a death. *)
LEMMA Failing ==
  ASSUME Untouched, op # NoOp, (op.pc \notin Undoing /\ Raise) \/ Crash
  PROVE  Untouched'
<1>1. CASE op.pc \notin Undoing /\ Raise
  <2>1. op \in OpType /\ UNCHANGED <<mirror, manifest, avatar, legacy, marker>>
    BY <1>1 DEF Untouched, FilesType, Raise, files
  <2>2. CASE op' = NoOp
    BY <2>1, <2>2 DEF Untouched, FilesType, Rest, Unlinked
  <2>3. CASE op.kind = "install" /\ op.pc # "complete"
    <3>1. op' = [op EXCEPT !.linked = Undone, !.pc = "undo_avatars"]
      BY <1>1, <2>3 DEF Raise
    <3>2. Undone \in SUBSET Hosts
      BY <2>1 DEF Undone, OpType
    <3>3. /\ op' \in OpType /\ op'.pc = "undo_avatars" /\ op'.kind = op.kind
          /\ op'.old = op.old /\ op'.active = op.active /\ op'.replaced = op.replaced
          /\ op'.backup = op.backup /\ op'.linked = Undone
      BY <2>1, <3>1, <3>2 DEF OpType, Pcs, Undoing
    <3>4. OpFiles' /\ OpMarker'
      BY <1>1, <2>1, <2>3, <3>3
      DEF Untouched, OpFiles, OpMarker, OldMirror, Fixed, SetAside, AsFound, Undoing, Pcs, OpType
    <3>5. OpLinks'
      <4>1. ASSUME op.old = None, NEW h \in Always, avatar[h] = "link" PROVE h \in Undone
        <5>1. CASE op.pc = "avatars"
          BY <2>3, <4>1, <5>1 DEF Untouched, OpLinks, Undone
        <5>2. CASE op.pc \in {"manifest", "legacy", "commit"}
          BY <2>3, <4>1, <5>2 DEF Untouched, OpLinks, Undone
        <5>3. op.pc \notin {"prepare", "swap", "activate"}
          BY <2>3, <4>1 DEF Untouched, OpLinks, Unlinked
        <5>4. op.pc # "unlink"
          BY <2>3 DEF Untouched, OpFiles
        <5> QED
          BY <1>1, <2>1, <2>3, <5>1, <5>2, <5>3, <5>4 DEF OpType, Pcs
      <4> QED
        BY <2>1, <2>3, <3>3, <4>1 DEF OpLinks, Undoing
    <3> QED
      BY <2>1, <3>3, <3>4, <3>5 DEF Untouched, FilesType, Rest, Unlinked
  <2>4. CASE op.kind = "uninstall" /\ op.pc \notin {"complete", "prepare"}
    <3>1. op' = [op EXCEPT !.pc = "undo_tree"]
      BY <1>1, <2>4 DEF Raise
    <3>3. /\ op' \in OpType /\ op'.pc = "undo_tree" /\ op'.kind = op.kind
          /\ op'.old = op.old /\ op'.active = op.active /\ op'.replaced = op.replaced
          /\ op'.backup = op.backup
      BY <2>1, <3>1 DEF OpType, Pcs, Undoing
    <3>4. OpFiles' /\ OpMarker'
      BY <1>1, <2>1, <2>4, <3>3
      DEF Untouched, OpFiles, OpMarker, OldMirror, Fixed, SetAside, AsFound, Undoing, Pcs, OpType
    <3>5. OpLinks'
      BY <2>4, <3>3 DEF OpLinks
    <3> QED
      BY <2>1, <3>3, <3>4, <3>5 DEF Untouched, FilesType, Rest, Unlinked
  <2> QED
    BY <1>1, <2>1, <2>2, <2>3, <2>4 DEF Raise, OpType, Both
<1>2. CASE Crash
  BY <1>2, HostsAssumption
  DEF Crash, At, Go, Quiet, files,
      Untouched, FilesType, OpType, Pcs, Undoing, Both, Rest, Unlinked, OldMirror, AsFound,
      Fixed, SetAside, OpFiles, OpMarker, OpLinks
<1> QED
  BY <1>1, <1>2

(* A command starts from an installation it can go on from. *)
LEMMA Starting ==
  ASSUME Untouched, NEW v \in Versions, NEW d \in Detections,
         StartInstall(v, d) \/ StartUninstall(v, d)
  PROVE  Untouched'
<1>1. PICK kind \in Both : op' = NewOp(kind, v, d)
  BY DEF StartInstall, StartUninstall, Both
<1>2. UNCHANGED <<mirror, manifest, avatar, legacy, marker>> /\ Status(v, d) \in Mutable
  BY DEF StartInstall, StartUninstall, files
<1>3. marker = None
  BY <1>2 DEF Status, Mutable
<1>4. Rest
  BY <1>3 DEF Untouched
<1>5. d \subseteq Hosts /\ Always \subseteq d
  BY HostsAssumption DEF Always
<1>6. (IF LegacyOwned(v, d) THEN legacy ELSE None) \in Hosts \cup {None}
  BY DEF Untouched, FilesType
<1>7. /\ op' \in OpType /\ op'.pc = "prepare" /\ op'.todo = d /\ op'.linked = {} /\ op'.made = {}
      /\ op'.backup = None /\ ~op'.active /\ op'.old = manifest /\ ~op'.replaced
  BY <1>1, <1>5, <1>6 DEF NewOp, OpType, Pcs, Untouched, FilesType
<1>8. OpFiles'
  BY <1>2, <1>4, <1>7 DEF OpFiles, AsFound, OldMirror, Rest, Undoing
<1>9. OpMarker'
  BY <1>2, <1>3, <1>7 DEF OpMarker
<1>10. OpLinks'
  BY <1>2, <1>4, <1>5, <1>7 DEF OpLinks, Rest, Unlinked, Undoing
<1> QED
  BY <1>2, <1>4, <1>7, <1>8, <1>9, <1>10 DEF Untouched, FilesType, Rest, Unlinked

(* All steps of the commands. *)
LEMMA StepKeeps == ASSUME Untouched, Step PROVE Untouched'
<1>1. CASE \E v \in Versions, d \in Detections : StartInstall(v, d) \/ StartUninstall(v, d)
  BY <1>1, Starting
<1>2. CASE Refuse
  BY <1>2, Failing DEF Refuse, At, Undoing
<1>3. CASE Error
  <2>1. CASE op.pc \in Undoing
    BY <1>3, <2>1 DEF Error, Untouched, FilesType, files, Rest, Unlinked
  <2>2. CASE op.pc \notin Undoing
    <3>1. op # NoOp /\ Raise
      BY <1>3, <2>2 DEF Error
    <3> QED
      BY <2>2, <3>1, Failing
  <2> QED
    BY <2>1, <2>2
<1>4. CASE Crash
  BY <1>4, Failing DEF Crash
<1>5. CASE \/ Prepare \/ Swap \/ Activate \/ AvatarsDone \/ WriteManifest
           \/ MoveTree \/ DropManifest \/ DropLegacy \/ Commit \/ Complete
  BY <1>5, InstallSteps, UninstallSteps, SharedSteps
<1>7. CASE \E h \in Hosts : LinkAvatar(h) \/ UnlinkAvatar(h)
  <2>1. (\E h \in Hosts : LinkAvatar(h)) \/ (\E h \in Hosts : UnlinkAvatar(h))
    BY <1>7
  <2> QED
    BY <2>1, InstallSteps, UninstallSteps
<1>6. CASE UndoAvatars \/ UndoTree \/ UndoLinks \/ UndoManifest \/ UndoEnd
  BY <1>6, Undo
<1> QED
  BY <1>1, <1>2, <1>3, <1>4, <1>5, <1>6, <1>7 DEF Step

(* The steps of a command are no edits. *)
LEMMA StepTouches == ASSUME Step PROVE touches' = touches
BY DEF Step, Quiet, StartInstall, StartUninstall, Prepare, Swap, Activate, AvatarsDone,
  WriteManifest,
   MoveTree, DropManifest, DropLegacy, Commit, Complete, LinkAvatar, UnlinkAvatar, Refuse, Error,
   Crash, UndoAvatars, UndoTree, UndoLinks, UndoManifest, UndoEnd

(* No half without its marker. *)
LEMMA RestIsGood ==
  ASSUME Untouched, touches = 0
  PROVE  HalfIsMarked
<1> SUFFICES ASSUME op = NoOp, marker = None
             PROVE  /\ Orphaned \/ \A v \in Versions : Status(v, Hosts) \in Mutable \cup
                                     (IF legacy # None THEN {"conflict"} ELSE {})
                    /\ mirror = None => \A h \in Always : avatar[h] # "link"
  BY DEF HalfIsMarked
<1>1. Rest /\ FilesType
  BY DEF Untouched
<1>2. ASSUME ~Orphaned, NEW v \in Versions
      PROVE  Status(v, Hosts) \in Mutable \cup (IF legacy # None THEN {"conflict"} ELSE {})
  <2>1. CASE manifest = None
    <3>1. Status(v, Hosts) = Unowned(v, Hosts)
      BY <2>1 DEF Status
    <3>2. CASE legacy # None
      BY <3>1, <3>2 DEF Unowned, Mutable
    <3>3. CASE legacy = None
      <4>1. \A h \in Hosts : avatar[h] \in {"none", "link"}
        BY <1>1, <1>2, <3>3, HostsAssumption DEF FilesType, Orphaned
      <4>2. Blocking(Hosts) = {} /\ mirror = None
        BY <1>1, <2>1, <4>1 DEF Blocking, Rest
      <4> QED
        BY <3>1, <4>2 DEF Unowned, Mutable
    <3> QED
      BY <3>2, <3>3
  <2>2. CASE manifest # None
    <3>1. Status(v, Hosts) = Owned(v, Hosts)
      BY <2>2 DEF Status
    <3>2. mirror = manifest.files /\ mirror # None /\ legacy = None
      BY <1>1, <2>2, HostsAssumption DEF Rest, FilesType, Manifest
    <3>3. \A h \in Hosts : avatar[h] \in {"none", "link"}
      BY <1>1, <1>2, <3>2, HostsAssumption DEF FilesType, Orphaned
    <3> QED
      BY <3>1, <3>2, <3>3 DEF Owned, Mutable
  <2> QED
    BY <2>1, <2>2
<1>3. mirror = None => \A h \in Always : avatar[h] # "link"
  BY <1>1 DEF Rest, Unlinked
<1> QED
  BY <1>2, <1>3

(* A command that ends without a marker did all of it or nothing. *)
LEMMA EndsWhole ==
  ASSUME Untouched, [InstallNext]_installVars,
         op # NoOp, op' = NoOp, marker' = None, touches = 0
  PROVE  \/ manifest' = op.old /\ mirror' = (IF op.old = None THEN None ELSE op.old.files)
         \/ /\ op.pc = "complete"
            /\ IF op.kind = "install"
               THEN manifest'.files = op.version /\ mirror' = op.version
               ELSE manifest' = None /\ mirror' = None
<1>1. OpFiles /\ OpMarker /\ op \in OpType
  BY DEF Untouched, FilesType
<1>2. CASE Complete
  BY <1>1, <1>2 DEF Complete, At, OpFiles, Both
<1>3. CASE UndoEnd
  <2>1. CASE Restored
    BY <1>1, <1>3, <2>1 DEF UndoEnd, At, Restored, OpFiles, Fixed, OldMirror
  <2>2. CASE ~Restored
    BY <1>1, <1>3, <2>2 DEF UndoEnd, At, OpMarker, OpFiles, Fixed, OldMirror
  <2> QED
    BY <2>1, <2>2
<1>4. ASSUME marker' = marker, UNCHANGED <<mirror, manifest>>
      PROVE  manifest' = op.old /\ mirror' = OldMirror
  BY <1>1, <1>4 DEF OpFiles, OpMarker, AsFound, Fixed, SetAside, Undoing, OpType
<1>5. CASE marker' = marker
  <2>1. /\ op.pc \in {"prepare"} \cup Undoing
        /\ op.pc \in Undoing => op.backup = None /\ ~op.active /\ ~op.replaced
    BY <1>1, <1>5 DEF OpMarker, Undoing
  <2>2. ~Touch /\ ~UNCHANGED installVars
    BY DEF Touch, EditMirror, EditAvatar, installVars
  <2>3. CASE UndoTree \/ UndoManifest
    BY <1>1, <1>4, <1>5, <2>1, <2>3
    DEF UndoTree, UndoManifest, At, Undoing, OldMirror
  <2>4. CASE UNCHANGED <<mirror, manifest>>
    BY <1>4, <1>5, <2>4 DEF OldMirror
  <2> QED
    BY <1>2, <1>3, <2>1, <2>2, <2>3, <2>4
    DEF InstallNext, Step, StartInstall, StartUninstall, Prepare, Swap, Activate, AvatarsDone,
        WriteManifest, MoveTree, DropManifest, DropLegacy, Commit, LinkAvatar, UnlinkAvatar,
        Refuse, Error, Raise, Crash, UndoAvatars, UndoLinks, At, Undoing, files
<1>6. marker' = marker \/ Complete \/ UndoEnd
  <2>1. ~Prepare /\ ~Commit
    BY HostsAssumption DEF Prepare, Commit
  <2> QED
    BY <2>1
    DEF InstallNext, Step, Touch, EditMirror, EditAvatar, installVars, StartInstall,
        StartUninstall, Swap, Activate, AvatarsDone, WriteManifest, MoveTree, DropManifest,
        DropLegacy, LinkAvatar, UnlinkAvatar, Refuse, Error, Raise, Crash, UndoAvatars, UndoTree,
        UndoLinks, UndoManifest, files
<1> QED
  BY <1>2, <1>3, <1>5, <1>6

(* Wherever commands fail and die: a command did all of its work or nothing, or its marker
   is there, and the installation it leaves is one that every command can go on from. *)
THEOREM InstallsAreWhole == InstallSpec => InstallsSettle
<1>1. InstallInit => InstallInv
  <2> SUFFICES ASSUME InstallInit PROVE touches \in Nat /\ Untouched
    BY DEF InstallInv
  <2>1. FilesType /\ op = NoOp /\ touches = 0 /\ Rest
    BY DEF InstallInit, FilesType, Rest, Unlinked, Always
  <2> QED
    BY <2>1 DEF Untouched
<1>2. ASSUME InstallInv, [InstallNext]_installVars PROVE InstallInv'
  <2>1. CASE Step
    BY <1>2, <2>1, StepKeeps, StepTouches DEF InstallInv
  <2>2. CASE Touch
    BY <1>2, <2>2 DEF InstallInv, Touch, EditMirror, EditAvatar
  <2>3. CASE UNCHANGED installVars
    BY <1>2, <2>3
    DEF InstallInv, installVars, files, Untouched, FilesType, Rest, Unlinked, OpFiles, OpMarker,
        OpLinks, AsFound, OldMirror, Fixed, SetAside
  <2> QED
    BY <1>2, <2>1, <2>2, <2>3 DEF InstallNext
<1>3. InstallInv => HalfIsMarked
  BY RestIsGood DEF InstallInv, HalfIsMarked
<1>4. InstallInv /\ [InstallNext]_installVars =>
        [op # NoOp /\ op' = NoOp /\ marker' = None /\ touches = 0 =>
           \/ manifest' = op.old /\ mirror' = (IF op.old = None THEN None ELSE op.old.files)
           \/ /\ op.pc = "complete"
              /\ IF op.kind = "install"
                 THEN manifest'.files = op.version /\ mirror' = op.version
                 ELSE manifest' = None /\ mirror' = None]_installVars
  BY EndsWhole DEF InstallInv
<1>5. InstallInv' => HalfIsMarked'
  BY <1>3, PTL
<1> QED
  BY <1>1, <1>2, <1>4, <1>5, PTL DEF InstallSpec, InstallsSettle, AllOrNothing

-----------------------------------------------------------------------------
(* The Console: its listener.                                               *)

ConnType == [at : {"none", "reading", "body", "authorize", "start", "reads", "answer", "over"},
             kind : Kinds, genuine : BOOLEAN, open : BOOLEAN,
             worker : {"none", "runs", "ended"},
             reply : {"none", "closed", "error", "bearer", "data"}, wrote : BOOLEAN]

ServerType ==
  /\ conn \in [Conns -> ConnType]
  /\ free \in Int /\ lost \in Int /\ now \in Nat
  /\ uses \in Seq(Seq(Nat))

(* The bearer that was used serves within its two lives. *)
InTime(used) ==
  \A k \in 2 .. Len(used) : /\ used[k] < used[k - 1] + IdleLife
                            /\ used[k] < used[1] + SessionLife

(* There is one bearer at most: none while the secret can be exchanged, and the
   deadlines there are are those of the one there is. *)
OneBearer ==
  /\ Len(uses) <= 1
  /\ secret => uses = <<>>
  /\ uses # <<>> => Len(uses[1]) > 0 /\ InTime(uses[1])
  /\ session # NoSession =>
       /\ session \in [idle : Int, end : Int] /\ uses # <<>>
       /\ session.idle <= uses[1][Len(uses[1])] + IdleLife
       /\ session.end = uses[1][1] + SessionLife

Entered == Len(uses) = 1 /\ Len(uses[1]) > 1

(* Whatever is at work behind the bearer, or was, has shown it. *)
Inside(c) ==
  \/ conn[c].at \in {"start", "reads"}
  \/ conn[c].at = "body" /\ conn[c].kind = "post"
  \/ conn[c].wrote \/ conn[c].worker # "none" \/ conn[c].reply = "data"
Admitted == \A c \in Conns : Inside(c) => conn[c].genuine /\ Entered

ServerInv == ServerType /\ SlotsReturn /\ OneBearer /\ Admitted

(* A connection that goes on, or is taken up, or comes to its end. *)
LEMMA FlightStays ==
  ASSUME ServerType, NEW c \in Conns, NEW f \in ConnType, Set(c, f),
         (conn[c].at \in {"none", "over"} <=> f.at \in {"none", "over"})
  PROVE  InFlight' = InFlight
BY DEF InFlight, Set, ServerType, ConnType

LEMMA FlightFinite ==
  ASSUME NEW S \in SUBSET Conns
  PROVE  IsFiniteSet(S) /\ Cardinality(S) \in Nat
BY FS_Subset, FS_CardinalityType, ServerAssumption

LEMMA FlightStarts ==
  ASSUME ServerType, NEW c \in Conns, NEW f \in ConnType, Set(c, f),
         conn[c].at = "none", f.at = "reading"
  PROVE  Cardinality(InFlight') = Cardinality(InFlight) + 1 /\ Cardinality(InFlight) \in Nat
<1>1. InFlight' = InFlight \cup {c} /\ c \notin InFlight /\ InFlight \subseteq Conns
  BY DEF InFlight, Set, ServerType, ConnType
<1> QED
  BY <1>1, FlightFinite, FS_AddElement

LEMMA FlightEnds ==
  ASSUME ServerType, NEW c \in Conns, NEW f \in ConnType, Set(c, f),
         conn[c].at = "answer", f.at = "over"
  PROVE  Cardinality(InFlight') = Cardinality(InFlight) - 1 /\ Cardinality(InFlight) \in Nat
<1>1. InFlight' = InFlight \ {c} /\ c \in InFlight /\ InFlight \subseteq Conns
  BY DEF InFlight, Set, ServerType, ConnType
<1> QED
  BY <1>1, FlightFinite, FS_RemoveElement

(* What a thread does with its own connection. *)
OfAThread(c) ==
  \/ Parse(c) \/ Exchange(c) \/ Authorize(c) \/ StartWorker(c) \/ WorkerEnds(c)
  \/ Collect(c) \/ WorkerTimeout(c) \/ Post(c) \/ Deadline(c)

LEMMA ThreadStep ==
  ASSUME ServerInv, NEW c \in Conns, OfAThread(c)
  PROVE  /\ conn'[c] \in ConnType /\ Set(c, conn'[c])
         /\ (conn[c].at \in {"none", "over"} <=> conn'[c].at \in {"none", "over"})
         /\ conn'[c].genuine = conn[c].genuine
         /\ UNCHANGED <<free, lost, now>>
<1>1. conn[c] \in ConnType /\ conn \in [Conns -> ConnType]
  BY DEF ServerInv, ServerType
<1> DEFINE on(pc) == [conn[c] EXCEPT !.at = pc]
           answered(r) == [conn[c] EXCEPT !.at = "answer", !.reply = r]
<1>2. \A pc \in {"body", "authorize", "start"} :
        on(pc) \in ConnType /\ on(pc).at = pc /\ on(pc).genuine = conn[c].genuine
  BY <1>1 DEF ConnType
<1>3. \A r \in {"error", "bearer", "data"} :
        /\ answered(r) \in ConnType /\ answered(r).at = "answer"
        /\ answered(r).genuine = conn[c].genuine
  BY <1>1 DEF ConnType
<1>4. \A f : Set(c, f) => conn'[c] = f /\ Set(c, conn'[c])
  BY <1>1 DEF Set
<1>5. CASE Parse(c) \/ Exchange(c) \/ Authorize(c) \/ StartWorker(c) \/ Collect(c) \/ Post(c)
  <2> DEFINE reads == [conn[c] EXCEPT !.at = "reads", !.worker = "runs"]
             wrote == [conn[c] EXCEPT !.at = "answer", !.reply = "data", !.wrote = TRUE]
             next == {on("body"), on("authorize"), on("start"), reads, wrote, answered("error"),
                      answered("bearer"), answered("data")}
  <2>0. \A f \in next : /\ f \in ConnType /\ f.at \notin {"none", "over"}
                         /\ f.genuine = conn[c].genuine
    <3>1. \A f \in {reads, wrote} : /\ f \in ConnType /\ f.at \notin {"none", "over"}
                                    /\ f.genuine = conn[c].genuine
      BY <1>1 DEF ConnType
    <3> HIDE DEF on, answered, reads, wrote
    <3> QED
      BY <1>2, <1>3, <3>1
  <2> SUFFICES /\ \E f \in next : Set(c, f)
               /\ conn[c].at \notin {"none", "over"} /\ UNCHANGED <<free, lost, now>>
    <3> HIDE DEF next
    <3> QED
      BY <1>4, <2>0
  <2>1. CASE Parse(c)
    <3>1. PICK well \in BOOLEAN :
            Set(c, IF conn[c].open /\ well
                     THEN [conn[c] EXCEPT !.at = IF conn[c].kind = "exchange" THEN "body"
                                                 ELSE "authorize"]
                     ELSE [conn[c] EXCEPT !.at = "answer", !.reply = "error"])
      BY <2>1 DEF Parse
    <3>2. Set(c, on("body")) \/ Set(c, on("authorize")) \/ Set(c, answered("error"))
      <4>1. CASE conn[c].open /\ well /\ conn[c].kind = "exchange"
        BY <3>1, <4>1
      <4>2. CASE conn[c].open /\ well /\ conn[c].kind # "exchange"
        BY <3>1, <4>2
      <4>3. CASE ~(conn[c].open /\ well)
        BY <3>1, <4>3
      <4> QED
        BY <4>1, <4>2, <4>3
    <3> QED
      BY <2>1, <3>2 DEF Parse, Thread, HostKept
  <2>2. CASE Exchange(c)
    BY <2>2 DEF Exchange, Thread, HostKept
  <2>3. CASE Authorize(c)
    <3>1. CASE ~(conn[c].genuine /\ Alive)
      BY <2>3, <3>1 DEF Authorize, Thread, HostKept
    <3>2. CASE conn[c].genuine /\ Alive
      <4>1. Set(c, [conn[c] EXCEPT !.at = IF conn[c].kind = "post" THEN "body" ELSE "start"])
        BY <2>3, <3>2 DEF Authorize
      <4>2. Set(c, on("body")) \/ Set(c, on("start"))
        <5>1. CASE conn[c].kind = "post"
          BY <4>1, <5>1
        <5>2. CASE conn[c].kind # "post"
          BY <4>1, <5>2
        <5> QED
          BY <5>1, <5>2
      <4> QED
        BY <2>3, <4>2 DEF Authorize, Thread, HostKept
    <3> QED
      BY <3>1, <3>2
  <2>4. CASE StartWorker(c)
    BY <2>4 DEF StartWorker, Thread, HostKept
  <2>5. CASE Collect(c)
    BY <2>5 DEF Collect, Thread, HostKept
  <2>6. CASE Post(c)
    BY <2>6 DEF Post, Thread, HostKept
  <2> QED
    BY <1>5, <2>1, <2>2, <2>3, <2>4, <2>5, <2>6
<1>6. CASE WorkerEnds(c)
  BY <1>1, <1>6 DEF WorkerEnds, HostKept, ConnType, Set
<1>7. CASE WorkerTimeout(c)
  BY <1>1, <1>7 DEF WorkerTimeout, Thread, HostKept, ConnType, Set
<1>8. CASE Deadline(c)
  BY <1>1, <1>8 DEF Deadline, HostKept, ConnType, Set
<1> QED
  BY <1>5, <1>6, <1>7, <1>8 DEF OfAThread

(* One more use of a bearer, in time. *)
LEMMA UsedInTime ==
  ASSUME NEW used \in Seq(Nat), Len(used) > 0, InTime(used), NEW t \in Nat,
         t < used[Len(used)] + IdleLife, t < used[1] + SessionLife
  PROVE  /\ Append(used, t) \in Seq(Nat) /\ Len(Append(used, t)) = Len(used) + 1
         /\ InTime(Append(used, t)) /\ Append(used, t)[1] = used[1]
         /\ Append(used, t)[Len(used) + 1] = t
<1>1. /\ Append(used, t) \in Seq(Nat) /\ Len(Append(used, t)) = Len(used) + 1
      /\ \A k \in 1 .. Len(used) : Append(used, t)[k] = used[k]
      /\ Append(used, t)[Len(used) + 1] = t /\ Len(used) \in Nat
  BY AppendProperties
<1>2. ASSUME NEW k \in 2 .. (Len(used) + 1)
      PROVE  /\ Append(used, t)[k] < Append(used, t)[k - 1] + IdleLife
             /\ Append(used, t)[k] < Append(used, t)[1] + SessionLife
  <2>1. k - 1 \in 1 .. Len(used) /\ 1 \in 1 .. Len(used)
    BY <1>1
  <2>2. Append(used, t)[k - 1] = used[k - 1] /\ Append(used, t)[1] = used[1]
    BY <1>1, <2>1
  <2>3. CASE k = Len(used) + 1
    BY <1>1, <2>2, <2>3
  <2>4. CASE k # Len(used) + 1
    <3>1. k \in 2 .. Len(used) /\ k \in 1 .. Len(used)
      BY <1>1, <2>4
    <3> QED
      BY <1>1, <2>2, <3>1 DEF InTime
  <2> QED
    BY <2>3, <2>4
<1> QED
  BY <1>1, <1>2 DEF InTime

LEMMA TheBearer ==
  ASSUME uses \in Seq(Seq(Nat)), Len(uses) <= 1, uses # <<>>
  PROVE  Len(uses) = 1 /\ uses[1] \in Seq(Nat) /\ uses = <<uses[1]>>
<1>1. Len(uses) \in Nat /\ Len(uses) # 0
  BY EmptySeq
<1>2. \A n \in Nat : n <= 1 /\ n # 0 => n = 1
  OBVIOUS
<1>3. Len(uses) = 1
  BY <1>1, <1>2, Zenon
<1> QED
  BY <1>3

(* A bearer is issued once, and used by those that show it in time. *)
LEMMA BearerKeeps ==
  ASSUME ServerInv, NEW c \in Conns, Exchange(c) \/ Authorize(c)
  PROVE  uses' \in Seq(Seq(Nat)) /\ OneBearer' /\ (Entered => Entered')
<1>0. /\ uses \in Seq(Seq(Nat)) /\ now \in Nat /\ now' = now /\ OneBearer
      /\ IdleLife \in Nat /\ SessionLife \in Nat
  BY ServerAssumption DEF ServerInv, ServerType, Exchange, Authorize, HostKept
<1>1. CASE Exchange(c) /\ uses' # uses
  <2>1. /\ secret /\ secret' = FALSE /\ uses' = Append(uses, <<now>>)
        /\ session' = [idle |-> now + IdleLife, end |-> now + SessionLife]
    BY <1>1 DEF Exchange, KeepSessions, Exchangeable
  <2>2. uses' = << <<now>> >> /\ uses = <<>> /\ uses' \in Seq(Seq(Nat))
    BY <1>0, <2>1 DEF OneBearer
  <2>3. /\ Len(uses') = 1 /\ uses'[1] = <<now>> /\ Len(uses'[1]) = 1 /\ uses'[1][1] = now
        /\ uses' # <<>>
    BY <2>2
  <2>4. InTime(uses'[1])
    BY <2>3 DEF InTime
  <2>5. session' \in [idle : Int, end : Int]
    BY <1>0, <2>1
  <2>6. Len(uses) # 1
    BY <2>2
  <2> QED
    BY <1>0, <2>1, <2>2, <2>3, <2>4, <2>5, <2>6 DEF OneBearer, InTime, Entered
<1>2. CASE Exchange(c) /\ uses' = uses
  <2>1. session' = session /\ (secret' => secret)
    <3>1. Append(uses, <<now>>) # uses
      BY <1>0, AppendProperties
    <3> QED
      BY <1>2, <3>1 DEF Exchange, KeepSessions
  <2> QED
    BY <1>0, <1>2, <2>1 DEF OneBearer, InTime, Entered
<1>3. CASE Authorize(c) /\ conn[c].genuine /\ Alive
  <2>1. /\ session' = [session EXCEPT !.idle = Min2(now + IdleLife, session.end)]
        /\ uses' = [uses EXCEPT ![Len(uses)] = Append(@, now)] /\ secret' = secret
    BY <1>3 DEF Authorize
  <2>2. /\ session # NoSession /\ session \in [idle : Int, end : Int] /\ uses # <<>>
        /\ now < session.idle /\ now < session.end
        /\ session.idle <= uses[1][Len(uses[1])] + IdleLife
        /\ session.end = uses[1][1] + SessionLife
        /\ Len(uses[1]) > 0 /\ InTime(uses[1])
    BY <1>0, <1>3 DEF Alive, OneBearer
  <2>3. Len(uses) = 1 /\ uses[1] \in Seq(Nat)
    BY <1>0, <2>2, TheBearer DEF OneBearer
  <2>4. /\ uses[1][1] \in Nat /\ uses[1][Len(uses[1])] \in Nat /\ Len(uses[1]) \in Nat
    BY <2>2, <2>3
  <2> DEFINE longer == Append(uses[1], now)
  <2>5. uses' = <<longer>> /\ longer \in Seq(Nat)
    BY <1>0, <2>1, <2>3
  <2>6. /\ Len(longer) = Len(uses[1]) + 1 /\ InTime(longer) /\ longer[1] = uses[1][1]
        /\ longer[Len(longer)] = now
    BY <1>0, <2>2, <2>3, <2>4, UsedInTime
  <2>7. uses' \in Seq(Seq(Nat)) /\ Len(uses') = 1 /\ uses'[1] = longer /\ uses' # <<>>
    BY <2>5
  <2>8. /\ session' \in [idle : Int, end : Int] /\ session'.end = session.end
        /\ session'.idle <= now + IdleLife
    <3>1. Min2(now + IdleLife, session.end) \in Int /\ Min2(now + IdleLife, session.end) <= now + IdleLife
      BY <1>0, <2>2 DEF Min2
    <3> QED
      BY <2>1, <2>2, <3>1
  <2>9. ~secret'
    BY <1>0, <2>1, <2>2 DEF OneBearer
  <2> HIDE DEF longer
  <2>10. Len(uses'[1]) > 1 /\ InTime(uses'[1])
    BY <2>2, <2>4, <2>6, <2>7
  <2>11. /\ session'.idle <= uses'[1][Len(uses'[1])] + IdleLife
         /\ session'.end = uses'[1][1] + SessionLife
    BY <2>2, <2>6, <2>7, <2>8
  <2>12. OneBearer'
    BY <2>7, <2>8, <2>9, <2>10, <2>11 DEF OneBearer, InTime
  <2> QED
    BY <2>7, <2>10, <2>12 DEF Entered
<1>4. CASE Authorize(c) /\ ~(conn[c].genuine /\ Alive)
  <2>1. uses' = uses /\ secret' = secret /\ session' \in {NoSession, session}
    BY <1>4 DEF Authorize
  <2> QED
    BY <1>0, <2>1 DEF OneBearer, InTime, Entered
<1> QED
  BY <1>1, <1>2, <1>3, <1>4

(* Who is inside has shown the bearer. *)
LEMMA AdmittedKeeps ==
  ASSUME ServerInv, NEW c \in Conns, OfAThread(c)
  PROVE  Admitted'
<1>1. conn[c] \in ConnType /\ conn \in [Conns -> ConnType]
  BY DEF ServerInv, ServerType
<1>2. Set(c, conn'[c]) /\ conn'[c].genuine = conn[c].genuine
  BY ThreadStep
<1>3. /\ conn' = [conn EXCEPT ![c] = conn'[c]]
      /\ \A f : Set(c, f) => conn'[c] = f
  BY <1>1, <1>2 DEF Set
<1>4. Entered => Entered'
  <2>1. CASE Exchange(c) \/ Authorize(c)
    BY <2>1, BearerKeeps
  <2>2. CASE uses' = uses
    BY <2>2 DEF Entered
  <2> QED
    BY <2>1, <2>2
    DEF OfAThread, KeepSessions, Parse, StartWorker, WorkerEnds, Collect, WorkerTimeout, Post,
        Deadline
<1>5. Inside(c)' => Inside(c) \/ (conn[c].genuine /\ Entered')
  <2>1. CASE Authorize(c)
    <3>1. CASE conn[c].genuine /\ Alive
      <4>1. /\ uses' = [uses EXCEPT ![Len(uses)] = Append(@, now)] /\ session # NoSession
            /\ OneBearer /\ uses \in Seq(Seq(Nat)) /\ uses # <<>> /\ now \in Nat
        BY <2>1, <3>1 DEF Authorize, Alive, ServerInv, ServerType, OneBearer
      <4>2. Len(uses) = 1 /\ uses[1] \in Seq(Nat) /\ Len(uses[1]) > 0
        BY <4>1, TheBearer DEF OneBearer, ServerInv
      <4>3. uses' = <<Append(uses[1], now)>> /\ Len(Append(uses[1], now)) = Len(uses[1]) + 1
        BY <4>1, <4>2, AppendProperties
      <4>4. Entered'
        BY <4>2, <4>3 DEF Entered
      <4> QED
        BY <3>1, <4>4
    <3>2. CASE ~(conn[c].genuine /\ Alive)
      <4>1. conn'[c] = [conn[c] EXCEPT !.at = "answer", !.reply = "error"]
        BY <1>3, <2>1, <3>2 DEF Authorize
      <4> QED
        BY <1>1, <4>1 DEF Inside, ConnType
    <3> QED
      BY <3>1, <3>2
  <2>2. CASE Parse(c)
    <3>1. /\ conn'[c].at \in {"body", "authorize", "answer"}
          /\ conn'[c].at = "body" => conn[c].kind = "exchange"
          /\ conn'[c].kind = conn[c].kind /\ conn'[c].wrote = conn[c].wrote
          /\ conn'[c].worker = conn[c].worker /\ conn'[c].reply \in {"error", conn[c].reply}
      <4>1. PICK well \in BOOLEAN :
              conn'[c] = IF conn[c].open /\ well
                           THEN [conn[c] EXCEPT !.at = IF conn[c].kind = "exchange" THEN "body"
                                                       ELSE "authorize"]
                           ELSE [conn[c] EXCEPT !.at = "answer", !.reply = "error"]
        BY <1>3, <2>2 DEF Parse
      <4>2. CASE conn[c].open /\ well /\ conn[c].kind = "exchange"
        BY <1>1, <4>1, <4>2 DEF ConnType
      <4>3. CASE conn[c].open /\ well /\ conn[c].kind # "exchange"
        BY <1>1, <4>1, <4>3 DEF ConnType
      <4>4. CASE ~(conn[c].open /\ well)
        BY <1>1, <4>1, <4>4 DEF ConnType
      <4> QED
        BY <4>2, <4>3, <4>4
    <3> QED
      BY <3>1 DEF Inside
  <2>3. CASE Exchange(c)
    <3>1. conn[c].at = "body" /\ conn[c].kind = "exchange"
      BY <2>3 DEF Exchange, Thread
    <3>2. \/ conn'[c] = [conn[c] EXCEPT !.at = "answer", !.reply = "error"]
          \/ conn'[c] = [conn[c] EXCEPT !.at = "answer", !.reply = "bearer"]
      BY <1>3, <2>3 DEF Exchange
    <3>3. /\ conn'[c].at = "answer" /\ conn'[c].wrote = conn[c].wrote
          /\ conn'[c].worker = conn[c].worker /\ conn'[c].reply \in {"error", "bearer"}
      BY <1>1, <3>2 DEF ConnType
    <3> QED
      BY <3>3 DEF Inside
  <2>4. CASE StartWorker(c)
    BY <1>1, <1>3, <2>4 DEF StartWorker, Thread, Set, Inside, ConnType
  <2>5. CASE WorkerEnds(c)
    BY <1>1, <1>3, <2>5 DEF WorkerEnds, Set, Inside, ConnType
  <2>6. CASE Collect(c) \/ WorkerTimeout(c)
    BY <1>1, <1>3, <2>6 DEF Collect, WorkerTimeout, Thread, Set, Inside, ConnType
  <2>7. CASE Post(c)
    BY <1>1, <1>3, <2>7 DEF Post, Thread, Set, Inside, ConnType
  <2>8. CASE Deadline(c)
    BY <1>1, <1>3, <2>8 DEF Deadline, Set, Inside, ConnType
  <2> QED
    BY <2>1, <2>2, <2>3, <2>4, <2>5, <2>6, <2>7, <2>8 DEF OfAThread
<1>6. ASSUME NEW d \in Conns, d # c PROVE conn'[d] = conn[d]
  BY <1>1, <1>3, <1>6
<1> QED
  BY <1>2, <1>3, <1>4, <1>5, <1>6 DEF ServerInv, Admitted, Inside

(* Connections come, are turned away and end. *)
LEMMA ArrivalKeeps ==
  ASSUME ServerInv, NEW c \in Conns,
         \/ \E kind \in Kinds, genuine \in BOOLEAN : Accept(c, kind, genuine)
         \/ TurnAway(c) \/ NoThread(c) \/ EndRequest(c)
  PROVE  ServerInv'
<1>1. conn[c] \in ConnType /\ conn \in [Conns -> ConnType] /\ free \in Int /\ lost \in Int
  BY DEF ServerInv, ServerType
<1>2. UNCHANGED <<secret, failures, session, uses, now>>
  BY DEF Accept, TurnAway, NoThread, EndRequest, KeepSessions, HostKept
<1>3. Cardinality(InFlight) \in Nat
  BY FlightFinite DEF InFlight
<1> DEFINE Arrives ==
        \E f \in ConnType :
          /\ Set(c, f) /\ free' \in Int /\ lost' \in Int
          /\ f.at \in {"reading", "over"} /\ ~(f.wrote /\ ~conn[c].wrote)
          /\ f.worker # "none" => conn[c].worker # "none"
          /\ f.reply = "data" => conn[c].reply = "data"
          /\ f.at = "over" /\ conn[c].at # "none" => f.genuine = conn[c].genuine
          /\ f.at = "reading" \/ conn[c].at = "none" => ~f.wrote /\ f.worker = "none" /\ f.reply # "data"
          /\ SlotsReturn'
<1>4. Arrives
  <2>1. ASSUME NEW kind \in Kinds, NEW genuine \in BOOLEAN, Accept(c, kind, genuine)
        PROVE  Arrives
    <3> DEFINE f == [Idle EXCEPT !.at = "reading", !.kind = kind, !.genuine = genuine,
                                 !.open = TRUE]
    <3>1. f \in ConnType /\ f.at = "reading" /\ ~f.wrote /\ f.worker = "none" /\ f.reply = "none"
      BY DEF ConnType, Idle
    <3>2. Set(c, f) /\ conn[c].at = "none" /\ free' = free - 1 /\ lost' = lost
      BY <2>1 DEF Accept, HostKept
    <3> HIDE DEF f
    <3>3. SlotsReturn'
      BY <1>1, <1>3, <3>1, <3>2, FlightStarts DEF ServerInv, SlotsReturn
    <3> QED
      BY <1>1, <3>1, <3>2, <3>3
  <2>2. CASE TurnAway(c) \/ NoThread(c)
    <3> DEFINE f == [Idle EXCEPT !.at = "over", !.reply = "closed"]
    <3>1. f \in ConnType /\ f.at = "over" /\ ~f.wrote /\ f.worker = "none" /\ f.reply = "closed"
      BY DEF ConnType, Idle, Kinds
    <3>2. /\ Set(c, f) /\ conn[c].at = "none"
          /\ free' + lost' = free + lost /\ free' \in Int /\ lost' \in Int
      BY <1>1, <2>2 DEF TurnAway, NoThread, HostKept
    <3> HIDE DEF f
    <3>3. InFlight' = InFlight
      BY <3>1, <3>2, FlightStays DEF ServerInv
    <3>4. SlotsReturn'
      BY <1>1, <1>3, <3>2, <3>3 DEF ServerInv, SlotsReturn
    <3> QED
      BY <3>1, <3>2, <3>4
  <2>3. CASE EndRequest(c)
    <3> DEFINE f == [conn[c] EXCEPT !.at = "over", !.reply = Sent(c), !.open = FALSE]
    <3>1. /\ f \in ConnType /\ f.at = "over" /\ f.wrote = conn[c].wrote
          /\ f.worker = conn[c].worker /\ f.genuine = conn[c].genuine
          /\ f.reply = "data" => conn[c].reply = "data"
      BY <1>1 DEF ConnType, Sent
    <3>2. Set(c, f) /\ conn[c].at = "answer" /\ free' = free + 1 /\ lost' = lost
      BY <2>3 DEF EndRequest, Thread, HostKept
    <3> HIDE DEF f
    <3>3. SlotsReturn'
      BY <1>1, <1>3, <3>1, <3>2, FlightEnds DEF ServerInv, SlotsReturn
    <3> QED
      BY <1>1, <3>1, <3>2, <3>3
  <2> QED
    BY <2>1, <2>2, <2>3
<1>5. ServerType' /\ SlotsReturn'
  BY <1>1, <1>2, <1>4 DEF ServerInv, ServerType, Set
<1>6. OneBearer'
  BY <1>2 DEF ServerInv, OneBearer, InTime
<1>7. Admitted'
  BY <1>1, <1>2, <1>4 DEF ServerInv, Admitted, Inside, Entered, Set, ConnType
<1> QED
  BY <1>5, <1>6, <1>7 DEF ServerInv

(* However requests end, race and are cut off: no slot is lost but with a thread that never
   started, one bearer is ever issued, and nothing is served without it or after its time. *)
THEOREM ListenerBounded == ServerSpec => []ListenerHolds
<1>1. ServerInit => ServerInv
  <2> SUFFICES ASSUME ServerInit PROVE ServerInv
    OBVIOUS
  <2>1. ServerType /\ InFlight = {}
    BY ServerAssumption DEF ServerInit, ServerType, ConnType, Idle, Kinds, InFlight
  <2>2. SlotsReturn
    BY <2>1, FS_EmptySet, ServerAssumption DEF ServerInit, SlotsReturn
  <2>3. OneBearer /\ Admitted
    BY DEF ServerInit, OneBearer, Admitted, Inside, Idle
  <2> QED
    BY <2>1, <2>2, <2>3 DEF ServerInv
<1>2. ASSUME ServerInv, [ServerNext]_serverVars PROVE ServerInv'
  <2>1. ASSUME NEW c \in Conns, OfAThread(c) PROVE ServerInv'
    <3>1. UNCHANGED <<free, lost, now>> /\ conn' \in [Conns -> ConnType] /\ InFlight' = InFlight
      BY <1>2, <2>1, ThreadStep, FlightStays DEF ServerInv, ServerType, Set
    <3>2. SlotsReturn'
      BY <1>2, <3>1 DEF ServerInv, SlotsReturn
    <3>3. uses' \in Seq(Seq(Nat)) /\ OneBearer'
      <4>1. CASE Exchange(c) \/ Authorize(c)
        BY <1>2, <4>1, BearerKeeps
      <4>2. CASE KeepSessions
        BY <1>2, <4>2 DEF KeepSessions, ServerInv, ServerType, OneBearer, InTime
      <4> QED
        BY <2>1, <4>1, <4>2
        DEF OfAThread, Parse, StartWorker, WorkerEnds, Collect, WorkerTimeout, Post, Deadline
    <3> QED
      BY <1>2, <2>1, <3>1, <3>2, <3>3, AdmittedKeeps DEF ServerInv, ServerType
  <2>2. CASE Stop \/ Exit \/ Tick \/ UNCHANGED serverVars
    <3>1. /\ conn' \in [Conns -> ConnType] /\ UNCHANGED <<free, lost, uses>> /\ now' \in Nat
          /\ \A c \in Conns : /\ conn'[c].at = conn[c].at /\ conn'[c].kind = conn[c].kind
                              /\ conn'[c].wrote = conn[c].wrote
                              /\ conn'[c].worker = conn[c].worker
                              /\ conn'[c].reply = conn[c].reply
                              /\ conn'[c].genuine = conn[c].genuine
      <4>1. CASE Exit
        BY <1>2, <4>1 DEF ServerInv, ServerType, ConnType, Exit
      <4>2. CASE conn' = conn
        BY <1>2, <2>2, <4>2 DEF ServerInv, ServerType, Stop, Exit, Tick, serverVars
      <4> QED
        BY <2>2, <4>1, <4>2 DEF Stop, Tick, serverVars
    <3>2. InFlight' = InFlight
      BY <3>1 DEF InFlight
    <3>3. (secret' => secret) /\ session' \in {NoSession, session}
      BY <2>2 DEF Stop, Exit, Tick, serverVars
    <3>4. ServerType' /\ SlotsReturn'
      BY <1>2, <3>1, <3>2 DEF ServerInv, ServerType, SlotsReturn
    <3>5. OneBearer'
      BY <1>2, <3>1, <3>3 DEF ServerInv, OneBearer, InTime
    <3>6. Admitted'
      BY <1>2, <3>1 DEF ServerInv, Admitted, Inside, Entered
    <3> QED
      BY <3>4, <3>5, <3>6 DEF ServerInv
  <2> QED
    BY <1>2, <2>1, <2>2, ArrivalKeeps DEF ServerNext, OfAThread
<1>3. ServerInv => ListenerHolds
  <2> SUFFICES ASSUME ServerInv PROVE SlotsReturn /\ EnteredOnce
    BY DEF ListenerHolds
  <2>1. \A i \in DOMAIN uses : i = 1 /\ uses # <<>>
    BY DEF ServerInv, ServerType, OneBearer
  <2> QED
    BY <2>1 DEF ServerInv, OneBearer, InTime, Admitted, Inside, Entered, EnteredOnce
<1> QED
  BY <1>1, <1>2, <1>3, PTL DEF ServerSpec

-----------------------------------------------------------------------------
(* The Console: the page of one workspace.                                  *)

PageAts == {"idle", "tasks", "lines", "objectives", "doctor", "unread_marks", "twin",
            "ledger", "answer", "shown", "refused", "failed"}
TasksRead == PageAts \ {"idle", "tasks", "failed"}
LinesRead == TasksRead \ {"lines"}
ObjectivesRead == LinesRead \ {"objectives"}

WorldType ==
  /\ DOMAIN board \subseteq Tasks /\ lines \subseteq Lines /\ DOMAIN scopes \subseteq Objectives
  /\ request.op \in Ops /\ request.at \in PageAts
  /\ DOMAIN request = DOMAIN NoRequest

(* What was read is named as it is in the workspace. *)
ReadNames ==
  /\ request.at \in TasksRead => DOMAIN request.tasks \subseteq Tasks
  /\ request.at \in LinesRead => request.lines \subseteq Lines
  /\ request.at \in ObjectivesRead => DOMAIN request.objectives \subseteq Objectives

(* What was read is what was there at some moment, or is marked. *)
ReadThen ==
  /\ request.at # "idle" => World \in moments
  /\ request.at \in TasksRead =>
       "tasks" \in request.warnings \/ \E w \in moments : request.tasks = w.tasks
  /\ request.at \in LinesRead =>
       "lines" \in request.warnings \/ \E w \in moments : request.lines = w.lines
  /\ request.at \in ObjectivesRead =>
       \/ "objectives" \in request.warnings
       \/ \E w \in moments : DOMAIN request.objectives = DOMAIN w.scopes
  /\ request.events = Empty \/ \E w \in moments : request.events = w.overlay

PageInv ==
  /\ WorldType /\ ReadNames /\ ReadThen
  /\ request.at = "refused" => Captured \cap Odd # {} \/ TooMuch

(* An answer that the listener refuses has a name that may not be displayed, or is
   more than a page may hold. *)
LEMMA RefusedForCause ==
  ASSUME PageInv, request.at = "answer", Captured \cap Odd = {}, ~TooMuch
  PROVE  ValidAnswer
<1>1. /\ DOMAIN request.tasks \subseteq Tasks \ Odd /\ request.lines \subseteq Lines \ Odd
      /\ DOMAIN request.objectives \subseteq Objectives \ Odd
  BY DEF PageInv, ReadNames, TasksRead, LinesRead, ObjectivesRead, PageAts, Captured
<1>2. /\ \A x \in Captured : safe_id(x) = x /\ Known(x)
      /\ Captured = DOMAIN request.tasks \cup request.lines \cup DOMAIN request.objectives
  BY <1>1, PageAssumption DEF safe_id, Known, Captured
<1>3. \A c \in Inventory.tasks : \E t \in DOMAIN request.tasks : c = <<t, request.tasks[t]>>
  BY <1>2 DEF Inventory
<1>4. \A t \in DOMAIN request.tasks : <<t, request.tasks[t]>> \in Inventory.tasks
  BY <1>2 DEF Inventory
<1>5. Inventory.lines = request.lines
  BY <1>2 DEF Inventory
<1>6. \A o \in Inventory.objectives : o.id \in DOMAIN request.objectives /\ o.selected = Undecayed(request.objectives[o.id].selected)
  BY <1>2 DEF Inventory
<1>7. ValidTasks /\ ValidLines /\ ValidObjectives
  <2>1. \A o \in Inventory.objectives : /\ Known(o.id) /\ Short(o.selected)
                                        /\ \A a \in o.selected : a[2] # "PROOF_DECAYED"
    BY <1>2, <1>6 DEF TooMuch, Undecayed
  <2> QED
    BY <1>2, <1>3, <1>5, <2>1 DEF ValidTasks, ValidLines, ValidObjectives, TooMuch
<1>8. ValidTwinPlan
  <2>1. ASSUME NEW row \in Plan
        PROVE  row.id \in {o.id : o \in Inventory.objectives} /\ row.tasks \subseteq DOMAIN request.tasks
    BY <2>1 DEF Plan, safe_token
  <2>2. DOMAIN request.tasks \subseteq {t[1] : t \in Inventory.tasks}
    <3> SUFFICES ASSUME NEW t \in DOMAIN request.tasks
                 PROVE  \E c \in Inventory.tasks : c[1] = t
      OBVIOUS
    <3>1. <<t, request.tasks[t]>> \in Inventory.tasks /\ <<t, request.tasks[t]>>[1] = t
      BY <1>4
    <3> QED
      BY <3>1
  <2> QED
    BY <2>1, <2>2 DEF ValidTwinPlan
<1>9. ValidTwinRunning
  <2>1. \A c \in Inventory.tasks : c = <<c[1], c[2]>>
    BY <1>3
  <2>2. \A r \in Running : \E c \in Phases : c[2] = "in_progress" /\ r.id = c[1]
    <3> SUFFICES ASSUME NEW r \in Running
                 PROVE  \E c \in Phases : c[2] = "in_progress" /\ r.id = c[1]
      OBVIOUS
    <3>1. PICK c \in {p \in Phases : p[2] = "in_progress"} :
            r = [id |-> c[1], dispatched |-> About(EventsRead, c[1], "dispatch") # {},
                 landed |-> About(EventsRead, c[1], "board") # {},
                 wordy |-> LastIsWordy(EventsRead, c[1])]
      BY Zenon DEF Running
    <3>2. r.id = c[1]
      BY <3>1, Zenon
    <3> QED
      BY <3>1, <3>2
  <2> QED
    BY <2>1, <2>2 DEF ValidTwinRunning, Phases, TooMuch
<1>10. ValidTwinLedger
  BY PageAssumption DEF ValidTwinLedger, LatestLedger, TooMuch
<1>11. ValidFamilies /\ ValidProofs
  <2>1. safe_token(request.lines) = request.lines /\ ProofRows = DOMAIN request.objectives
    BY <1>1 DEF safe_token, ProofRows
  <2>2. \A c \in FamilyCards : c.parent \in request.lines
    BY <2>1 DEF FamilyCards
  <2>3. \A l \in request.lines : [parent |-> l] \in FamilyCards /\ [parent |-> l].parent = l
    BY <2>1 DEF FamilyCards
  <2>4. {c.parent : c \in FamilyCards} = request.lines
    <3>1. {c.parent : c \in FamilyCards} \subseteq request.lines
      BY <2>2
    <3>2. request.lines \subseteq {c.parent : c \in FamilyCards}
      <4> SUFFICES ASSUME NEW l \in request.lines PROVE \E c \in FamilyCards : c.parent = l
        OBVIOUS
      <4> QED
        BY <2>3
    <3> QED
      BY <3>1, <3>2
  <2> QED
    BY <1>2, <2>1, <2>2, <2>4 DEF ValidFamilies, ValidProofs, TooMuch, Fits
<1> QED
  BY <1>7, <1>8, <1>9, <1>10, <1>11 DEF ValidAnswer, PageInv, WorldType, Ops

(* What was read is all that says whether it is too much. *)
LEMMA SameReading ==
  ASSUME request'.tasks = request.tasks, request'.lines = request.lines,
         request'.objectives = request.objectives, request'.events = request.events,
         request'.row = request.row
  PROVE  Captured' = Captured /\ (TooMuch <=> TooMuch')
<1>1. Captured' = Captured
  BY DEF Captured
<1>2. LatestLedger' = LatestLedger
  BY DEF LatestLedger
<1>3. Inventory' = Inventory
  BY DEF Inventory
<1>4. EventsRead' = EventsRead
  BY DEF EventsRead
<1>5. Running' = Running
  BY <1>3, <1>4 DEF Running, Phases
<1> QED
  BY <1>1, <1>2, <1>5 DEF TooMuch

LEMMA RequestKeeps ==
  ASSUME PageInv,
         \/ \E op0 \in Ops : AskWorkspace(op0)
         \/ CaptureTasks \/ CaptureLines \/ CaptureObjectives \/ Doctor \/ ReadOverlay
         \/ ReadLedger \/ UnreadMarks \/ AnswerWorkspace \/ Forget
  PROVE  PageInv'
<1> USE DEF PageAts, TasksRead, LinesRead, ObjectivesRead
<1>1. CASE \E op0 \in Ops : AskWorkspace(op0)
  <2>1. /\ request'.at \in {"tasks", "failed"} /\ request'.op \in Ops
        /\ request'.events = Empty /\ DOMAIN request' = DOMAIN NoRequest
    BY <1>1 DEF AskWorkspace, NoRequest
  <2>2. moments' = {World} /\ UNCHANGED <<board, lines, scopes, overlay>>
    BY <1>1 DEF AskWorkspace, Workspace
  <2>3. World' \in moments' /\ World' = World
    BY <2>2 DEF World
  <2> QED
    BY <2>1, <2>2, <2>3 DEF PageInv, WorldType, ReadNames, ReadThen
<1>2. CASE CaptureTasks
  BY <1>2 DEF CaptureTasks, Reads, Workspace, PageInv, WorldType, ReadNames, ReadThen, World, Captured
<1>3. CASE CaptureLines
  BY <1>3 DEF CaptureLines, Reads, Workspace, PageInv, WorldType, ReadNames, ReadThen, World, Captured
<1>4. CASE CaptureObjectives
  BY <1>4 DEF CaptureObjectives, Reads, Workspace, PageInv, WorldType, ReadNames, ReadThen, World, Captured
<1>5. CASE Doctor \/ ReadLedger \/ UnreadMarks
  <2>1. /\ request'.at \in {"unread_marks", "twin", "answer", "failed"}
        /\ request.at \in {"doctor", "ledger", "unread_marks"}
        /\ request'.op = request.op /\ request'.tasks = request.tasks
        /\ request'.lines = request.lines /\ request'.objectives = request.objectives
        /\ request'.events = request.events
        /\ request.warnings \subseteq request'.warnings
        /\ DOMAIN request' = DOMAIN request
    <3>1. CASE Doctor
      BY <3>1 DEF Doctor, Reads
    <3>2. CASE ReadLedger
      BY <3>2 DEF ReadLedger, Reads
    <3>3. CASE UnreadMarks
      BY <3>3 DEF UnreadMarks, Reads
    <3> QED
      BY <1>5, <3>1, <3>2, <3>3
  <2>2. UNCHANGED <<board, lines, scopes, overlay, moments>>
    BY <1>5 DEF Doctor, ReadLedger, UnreadMarks, Reads, Workspace
  <2> QED
    BY <2>1, <2>2 DEF PageInv, WorldType, ReadNames, ReadThen, World
<1>6. CASE ReadOverlay
  BY <1>6 DEF ReadOverlay, Reads, Workspace, PageInv, WorldType, ReadNames, ReadThen, World, Captured
<1>7. CASE AnswerWorkspace
  BY <1>7, RefusedForCause, SameReading DEF AnswerWorkspace, Reads, Workspace, PageInv, WorldType, ReadNames, ReadThen, World, Captured
<1>8. CASE Forget
  BY <1>8 DEF Forget, NoRequest, Workspace, PageInv, WorldType, ReadNames, ReadThen, World, Captured, Ops
<1> QED
  BY <1>1, <1>2, <1>3, <1>4, <1>5, <1>6, <1>7, <1>8

LEMMA ChangeKeeps ==
  ASSUME PageInv,
         \/ \E t \in Tasks : AddTask(t) \/ SetStatus(t) \/ Dispatch(t) \/ WriteByHand(t) \/ Decay(t)
         \/ \E l \in Lines : AddLine(l)
         \/ \E o \in Objectives : AddObjective(o)
         \/ \E part \in Parts : Break(part) \/ Mend(part)
         \/ UNCHANGED pageVars
  PROVE  PageInv'
<1> USE DEF PageAts, TasksRead, LinesRead, ObjectivesRead
<1>1. /\ request' = request /\ moments \subseteq moments'
      /\ DOMAIN board' \subseteq Tasks /\ lines' \subseteq Lines
      /\ DOMAIN scopes' \subseteq Objectives
      /\ request.at # "idle" => World' \in moments'
  <2>1. CASE \E t \in Tasks : AddTask(t)
    BY <2>1 DEF PageInv, WorldType, AddTask, Changes, World
  <2>2. CASE \E t \in Tasks : SetStatus(t)
    BY <2>2 DEF PageInv, WorldType, SetStatus, Changes, World
  <2>3. CASE \E t \in Tasks : Dispatch(t) \/ WriteByHand(t) \/ Decay(t)
    BY <2>3 DEF PageInv, WorldType, Dispatch, WriteByHand, Decay, Changes, World
  <2>4. CASE \E l \in Lines : AddLine(l)
    BY <2>4 DEF PageInv, WorldType, AddLine, Changes, World
  <2>5. CASE \E o \in Objectives : AddObjective(o)
    BY <2>5 DEF PageInv, WorldType, AddObjective, Changes, World
  <2>6. CASE (\E part \in Parts : Break(part) \/ Mend(part)) \/ UNCHANGED pageVars
    BY <2>6 DEF PageInv, WorldType, ReadThen, Break, Mend, pageVars, World
  <2> QED
    BY <2>1, <2>2, <2>3, <2>4, <2>5, <2>6
<1> QED
  BY <1>1, SameReading DEF PageInv, WorldType, ReadNames, ReadThen, Captured

(* Whatever changes or cannot be read while a workspace is looked at: a page is only
   refused for a name that may not be displayed or for holding too much, never because
   its parts are of different moments, and each part that is shown is what it was at some
   moment, or is marked. *)
THEOREM PagesAreHonest == PageSpec => []PageHonest
<1>1. PageInit => PageInv
  BY DEF PageInit, PageInv, WorldType, ReadNames, ReadThen, NoRequest, PageAts, TasksRead,
     LinesRead, ObjectivesRead, Ops
<1>2. PageInv /\ [PageNext]_pageVars => PageInv'
  BY RequestKeeps, ChangeKeeps DEF PageNext
<1>3. PageInv => PageHonest
  BY DEF PageInv, ReadThen, PageHonest, TasksRead, LinesRead, ObjectivesRead, PageAts
<1> QED
  BY <1>1, <1>2, <1>3, PTL DEF PageSpec

=============================================================================
