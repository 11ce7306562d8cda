--------------------------- MODULE ConsoleOverview ---------------------------
(***************************************************************************)
(* The overview page of the Console.  One worker process per request reads *)
(* the registry and samples every registered workspace in child processes, *)
(* a few at a time, each and all of them against a deadline; it orders the *)
(* cards, cuts a page out of them and hands it to the listener, which      *)
(* checks it again.  A client walks through the pages with a cursor while  *)
(* workspaces and the registry change.                                     *)
(*                                                                         *)
(* A deadline may pass at any point after what it limits has begun.        *)
(***************************************************************************)
EXTENDS Integers, FiniteSets, SequencesExt

CONSTANTS
  Spaces,        \* the aliases of workspaces, numbered in their order
  Credentials,   \* those among them that look like a credential
  Workers,       \* _MAX_WORKERS
  Limit,         \* how many cards make a page
  MaxMoves,      \* changes made to workspaces and to the registry
  MaxRestarts,   \* how often the Console is started again
  NoPage         \* no cursor, nothing shown

\* What a card may say of its workspace.
Shows == {"urgent", "calm", "other", "read_timeout", "missing_root"}
Cards == [alias : Spaces, shows : Shows]
Cursors == [secret : Nat, offset : Nat, of : Seq(Cards)]

ASSUME OverviewAssumption ==
  /\ IsFiniteSet(Spaces) /\ Spaces \subseteq Nat
  /\ Limit \in Nat \ {0}
  /\ NoPage \notin Cursors

VARIABLES
  registry,  \* the aliases registered
  content,   \* per workspace, what its card would show
  changes,
  epoch,     \* the start of the Console: each has a cursor secret of its own
  sampler,   \* the worker of the request under way
  caller     \* the client: its cursor, the pages it was given and whether that is all

overviewVars == <<registry, content, changes, epoch, sampler, caller>>

Resting == [at |-> "idle", names |-> {}, pending |-> {}, reading |-> {},
            cards |-> {}]
NewClient == [cursor |-> NoPage, pages |-> <<>>, all |-> FALSE]

OverviewInit ==
  /\ registry \in (SUBSET Spaces) \ {{}}
  /\ content = [w \in Spaces |-> "calm"]
  /\ changes = 0 /\ epoch = 0
  /\ sampler = Resting
  /\ caller = NewClient

(***************************************************************************)
(* Cards.  What cannot be read in time, or at all, still has its card.     *)
(***************************************************************************)
Card(w, shows) == [alias |-> w, shows |-> shows]
Late(w) == Card(w, "read_timeout")

\* What a child can make of its workspace.
Sampled(w) == {content[w], "other"}

\* What needs the operator comes first and what could not be read comes last.
Rank(card) == CASE card.shows = "urgent"       -> 0
                [] card.shows = "calm"         -> 5
                [] card.shows = "other"        -> 6
                [] card.shows = "read_timeout" -> 7
                [] card.shows = "missing_root" -> 8

Before(a, b) ==
  Rank(a) < Rank(b) \/ (Rank(a) = Rank(b) /\ a.alias < b.alias)

Ordered(cards) ==
  CHOOSE s \in SetToSeqs(cards) :
    \A i, j \in DOMAIN s : i < j => Before(s[i], s[j])

(***************************************************************************)
(* The worker of one request.                                              *)
(***************************************************************************)
Unchanged == UNCHANGED <<registry, content, changes, epoch>>

AskPage ==
  /\ sampler.at = "idle" /\ ~caller.all
  /\ sampler' = [Resting EXCEPT !.at = "sampling", !.names = registry,
                               !.pending = registry]
  /\ UNCHANGED caller /\ Unchanged

\* Workers are started in the order of the registry, as many as may run.
StartChild ==
  /\ sampler.at = "sampling" /\ sampler.pending # {}
  /\ Cardinality(sampler.reading) < Workers
  /\ LET w == CHOOSE p \in sampler.pending : \A q \in sampler.pending : p <= q
     IN sampler' = [sampler EXCEPT !.pending = @ \ {w}, !.reading = @ \cup {w}]
  /\ UNCHANGED caller /\ Unchanged

\* A child looks at its workspace and hands over a card; a child that fails,
\* dies or is too slow has one made for it.
ChildEnds(w) ==
  /\ sampler.at = "sampling" /\ w \in sampler.reading
  /\ \E card \in {Card(w, shows) : shows \in Sampled(w)} \cup {Late(w)} :
       sampler' = [sampler EXCEPT !.reading = @ \ {w}, !.cards = @ \cup {card}]
  /\ UNCHANGED caller /\ Unchanged

\* The deadline of the whole page: whoever has not been heard is late, even
\* with a card already in its queue.
TotalDeadline ==
  /\ sampler.at = "sampling" /\ sampler.pending \cup sampler.reading # {}
  /\ sampler' = [sampler EXCEPT !.pending = {}, !.reading = {},
                  !.cards = @ \cup {Late(w) : w \in sampler.pending \cup sampler.reading}]
  /\ UNCHANGED caller /\ Unchanged

(***************************************************************************)
(* The page and its cursor, signed with the secret of this Console and     *)
(* bound to all the cards.                                                 *)
(***************************************************************************)
Cursor(offset, cards) == [secret |-> epoch, offset |-> offset, of |-> cards]

\* MUTANT for PagesAreOne: a cursor is an offset and nothing more.
AcceptedOffset(cursor, cards) == cursor.secret = epoch

Accepted(cursor, cards) == cursor.secret = epoch /\ cursor.of = cards

Offset == IF caller.cursor = NoPage THEN 0 ELSE caller.cursor.offset

\* The listener refuses a card whose alias its own rule would redact.
ValidPage(items) == \A i \in DOMAIN items : items[i].alias \notin Credentials

OverviewPage ==
  LET cards  == Ordered(sampler.cards)
      last   == Min({Offset + Limit, Len(cards)})
  IN [items |-> SubSeq(cards, Offset + 1, last), last |-> last,
      more |-> last < Len(cards), of |-> cards, names |-> sampler.names]

AnswerPage ==
  /\ sampler.at = "sampling" /\ sampler.pending \cup sampler.reading = {}
  /\ sampler' = Resting
  /\ IF \/ caller.cursor # NoPage /\ ~Accepted(caller.cursor, Ordered(sampler.cards))
        \/ Offset > Cardinality(sampler.cards)
        \/ ~ValidPage(OverviewPage.items)
       THEN caller' = NewClient
       ELSE LET page == OverviewPage
            IN caller' = [cursor |-> IF page.more THEN Cursor(page.last, page.of)
                                     ELSE NoPage,
                          pages |-> Append(caller.pages, page), all |-> ~page.more]
  /\ Unchanged

\* The worker fails, answers too much or is killed after eight seconds: the
\* client asks for the same page again.
WorkerFails ==
  /\ sampler.at = "sampling"
  /\ sampler' = Resting
  /\ UNCHANGED caller /\ Unchanged

(***************************************************************************)
(* Meanwhile.                                                              *)
(***************************************************************************)
Change(w) ==
  /\ changes < MaxMoves
  /\ changes' = changes + 1
  /\ \/ /\ \E shows \in {"calm", "urgent", "missing_root"} \ {content[w]} :
             content' = [content EXCEPT ![w] = shows]
        /\ UNCHANGED registry
     \/ /\ registry' = IF w \in registry THEN registry \ {w} ELSE registry \cup {w}
        /\ registry' # {}
        /\ UNCHANGED content
  /\ UNCHANGED <<epoch, sampler, caller>>

Restart ==
  /\ epoch < MaxRestarts
  /\ epoch' = epoch + 1
  /\ sampler' = Resting
  /\ UNCHANGED <<registry, content, changes, caller>>

OverviewNext ==
  \/ AskPage \/ StartChild \/ TotalDeadline \/ AnswerPage \/ WorkerFails \/ Restart
  \/ \E w \in Spaces : ChildEnds(w) \/ Change(w)

OverviewSpec == OverviewInit /\ [][OverviewNext]_overviewVars
-----------------------------------------------------------------------------
(***************************************************************************)
(* A client that has all pages was shown one list, although each page was  *)
(* sampled anew: every workspace registered when a page was asked for has  *)
(* its card in it, once, whether it could be read or not, and the pages    *)
(* are cut from one order (overview.py:390-433, _inspect_worker.py:136-250)*)
(***************************************************************************)
PagesAreOne ==
  caller.all =>
    LET shown == FlattenSeq([i \in DOMAIN caller.pages |-> caller.pages[i].items])
    IN \A i \in DOMAIN caller.pages :
         LET page == caller.pages[i]
         IN /\ shown = page.of
            /\ Len(shown) = Cardinality(page.names)
            /\ {shown[k].alias : k \in DOMAIN shown} = page.names
=============================================================================
