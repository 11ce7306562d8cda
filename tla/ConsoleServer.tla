---------------------------- MODULE ConsoleServer ----------------------------
(***************************************************************************)
(* The local Console as a server: a bounded number of request threads on   *)
(* one loopback listener, each with a timer that closes its socket after   *)
(* ten seconds, a one-time secret that buys one bearer, the worker process *)
(* a read is handed to, and the end of the console by Ctrl-C.              *)
(*                                                                         *)
(* A request is one connection: the answer closes it.  The timers of the   *)
(* requests (5, 8 and 10 seconds) may fire at any point of a request; the  *)
(* clock counts the far longer lives of the secret and of the bearer.      *)
(***************************************************************************)
EXTENDS Integers, FiniteSets, Sequences

CONSTANTS
  Conns,           \* the connections clients make
  Slots,           \* MAX_CONCURRENT_REQUESTS
  SecretLife,      \* BOOTSTRAP_TTL_SECONDS
  MaxFailures,     \* BOOTSTRAP_MAX_FAILURES
  IdleLife,        \* SESSION_IDLE_TTL_SECONDS
  SessionLife,     \* SESSION_ABSOLUTE_TTL_SECONDS
  MaxTime,         \* the clock stops here
  MaxNoThread,     \* how many threads fail to start
  NoSession

ASSUME ServerAssumption ==
  /\ IsFiniteSet(Conns)
  /\ {Slots, SecretLife, MaxFailures, IdleLife, SessionLife, MaxTime, MaxNoThread} \subseteq Nat
  /\ NoSession \notin [idle : Int, end : Int]

VARIABLES
  conn,      \* per connection, where its thread is and what its client knows
  free,      \* request slots nobody holds
  lost,      \* slots of threads that never started
  secret,    \* whether the bootstrap secret can still be exchanged
  failures,  \* refused exchanges
  session,   \* the bearer's deadlines, or NoSession
  now,
  console,   \* "up", "stopped" (listener closed) or "gone" (process ended)
  uses       \* of each bearer ever issued: when it was issued and used

serverVars == <<conn, free, lost, secret, failures, session, now, console, uses>>

Kinds == {"exchange", "read", "post"}

Idle == [at |-> "none", kind |-> "read", genuine |-> FALSE, open |-> FALSE,
         worker |-> "none", reply |-> "none", wrote |-> FALSE]

ServerInit ==
  /\ conn = [c \in Conns |-> Idle]
  /\ free = Slots /\ lost = 0
  /\ secret = TRUE /\ failures = 0
  /\ session = NoSession
  /\ now = 0 /\ console = "up"
  /\ uses = <<>>

Min2(a, b) == IF a < b THEN a ELSE b

Thread(c, pc) == console # "gone" /\ conn[c].at = pc
Set(c, f) == conn' = [conn EXCEPT ![c] = f]
KeepSessions == UNCHANGED <<secret, failures, session, uses>>
HostKept == UNCHANGED <<lost, now, console>>

\* Some client was told the bearer.
Bearer == \E c \in Conns : conn[c].at = "over" /\ conn[c].reply = "bearer"

(***************************************************************************)
(* Accepting.  With no slot left the socket is closed at once; a thread    *)
(* that cannot be started leaves its slot taken.                           *)
(***************************************************************************)
Accept(c, kind, genuine) ==
  /\ console = "up" /\ conn[c].at = "none" /\ free > 0
  /\ genuine /\ kind # "exchange" => Bearer
  /\ Set(c, [Idle EXCEPT !.at = "reading", !.kind = kind, !.genuine = genuine,
                         !.open = TRUE])
  /\ free' = free - 1
  /\ KeepSessions /\ HostKept

TurnAway(c) ==
  /\ console = "up" /\ conn[c].at = "none" /\ free = 0
  /\ Set(c, [Idle EXCEPT !.at = "over", !.reply = "closed"])
  /\ UNCHANGED free /\ KeepSessions /\ HostKept

NoThread(c) ==
  /\ console = "up" /\ conn[c].at = "none" /\ free > 0 /\ lost < MaxNoThread
  /\ Set(c, [Idle EXCEPT !.at = "over", !.reply = "closed"])
  /\ free' = free - 1 /\ lost' = lost + 1
  /\ KeepSessions /\ UNCHANGED <<now, console>>

\* The request line and the headers are read; an ill-formed, foreign or slow
\* request is answered without looking at the session.
Parse(c) ==
  /\ Thread(c, "reading")
  /\ \E well \in BOOLEAN :
       Set(c, IF conn[c].open /\ well
                THEN [conn[c] EXCEPT !.at = IF conn[c].kind = "exchange" THEN "body"
                                            ELSE "authorize"]
                ELSE [conn[c] EXCEPT !.at = "answer", !.reply = "error"])
  /\ UNCHANGED free /\ KeepSessions /\ HostKept

(***************************************************************************)
(* The session store; each operation holds its lock throughout.            *)
(***************************************************************************)
Exchangeable(c) ==
  secret /\ now < SecretLife /\ failures < MaxFailures /\ conn[c].genuine

\* The body that carries the secret arrives, or the socket is closed first.
Exchange(c) ==
  /\ Thread(c, "body") /\ conn[c].kind = "exchange"
  /\ IF ~conn[c].open
       THEN /\ Set(c, [conn[c] EXCEPT !.at = "answer", !.reply = "error"])
            /\ KeepSessions
     ELSE IF Exchangeable(c)
       THEN /\ secret' = FALSE
            /\ session' = [idle |-> now + IdleLife, end |-> now + SessionLife]
            /\ uses' = Append(uses, <<now>>)
            /\ Set(c, [conn[c] EXCEPT !.at = "answer", !.reply = "bearer"])
            /\ UNCHANGED failures
       ELSE /\ failures' = Min2(failures + 1, MaxFailures)
            /\ secret' = (secret /\ failures' < MaxFailures)
            /\ Set(c, [conn[c] EXCEPT !.at = "answer", !.reply = "error"])
            /\ UNCHANGED <<session, uses>>
  /\ UNCHANGED free /\ HostKept

Alive == /\ session # NoSession
         /\ now < session.idle /\ now < session.end

\* A bearer that is out of time is forgotten when it is next shown.
Authorize(c) ==
  /\ Thread(c, "authorize")
  /\ IF conn[c].genuine /\ Alive
       THEN /\ session' = [session EXCEPT !.idle = Min2(now + IdleLife, session.end)]
            /\ uses' = [uses EXCEPT ![Len(uses)] = Append(@, now)]
            /\ Set(c, [conn[c] EXCEPT !.at = IF conn[c].kind = "post" THEN "body"
                                             ELSE "start"])
       ELSE /\ session' = IF conn[c].genuine THEN NoSession ELSE session
            /\ Set(c, [conn[c] EXCEPT !.at = "answer", !.reply = "error"])
            /\ UNCHANGED uses
  /\ UNCHANGED <<free, secret, failures>> /\ HostKept

(***************************************************************************)
(* Serving.  A read is handed to a worker process in a session of its own; *)
(* a post is written by the thread itself.                                 *)
(***************************************************************************)
StartWorker(c) ==
  /\ Thread(c, "start")
  /\ \/ Set(c, [conn[c] EXCEPT !.at = "reads", !.worker = "runs"])
     \/ Set(c, [conn[c] EXCEPT !.at = "answer", !.reply = "error"])
  /\ UNCHANGED free /\ KeepSessions /\ HostKept

\* The worker ends by itself, whether or not anybody is there to hear it.
WorkerEnds(c) ==
  /\ conn[c].worker = "runs"
  /\ Set(c, [conn[c] EXCEPT !.worker = "ended"])
  /\ UNCHANGED free /\ KeepSessions /\ HostKept

Collect(c) ==
  /\ Thread(c, "reads") /\ conn[c].worker = "ended"
  /\ \E reply \in {"data", "error"} :
       Set(c, [conn[c] EXCEPT !.at = "answer", !.reply = reply])
  /\ UNCHANGED free /\ KeepSessions /\ HostKept

\* After eight seconds the whole process group of the worker is killed.
WorkerTimeout(c) ==
  /\ Thread(c, "reads") /\ conn[c].worker = "runs"
  /\ Set(c, [conn[c] EXCEPT !.at = "answer", !.reply = "error", !.worker = "ended"])
  /\ UNCHANGED free /\ KeepSessions /\ HostKept

\* The bearer was looked at before the body was waited for.
Post(c) ==
  /\ Thread(c, "body") /\ conn[c].kind = "post"
  /\ \/ /\ conn[c].open
        /\ Set(c, [conn[c] EXCEPT !.at = "answer", !.reply = "data", !.wrote = TRUE])
     \/ Set(c, [conn[c] EXCEPT !.at = "answer", !.reply = "error"])
  /\ UNCHANGED free /\ KeepSessions /\ HostKept

\* A socket that was closed takes no answer, and nobody is told.
Sent(c) == IF conn[c].open THEN conn[c].reply ELSE "closed"

\* MUTANT for SlotsReturn: the slot comes back with the answer, not with the
\* end of the thread.
EndRequestHeard(c) ==
  /\ Thread(c, "answer")
  /\ Set(c, [conn[c] EXCEPT !.at = "over",
                            !.reply = Sent(c),
                            !.open = FALSE])
  /\ free' = IF conn[c].open THEN free + 1 ELSE free
  /\ KeepSessions /\ HostKept

EndRequest(c) ==
  /\ Thread(c, "answer")
  /\ Set(c, [conn[c] EXCEPT !.at = "over",
                            !.reply = Sent(c),
                            !.open = FALSE])
  /\ free' = free + 1
  /\ KeepSessions /\ HostKept

\* The timer of a request: its socket is closed, its thread is not stopped.
Deadline(c) ==
  /\ console # "gone" /\ conn[c].at \notin {"none", "over"} /\ conn[c].open
  /\ Set(c, [conn[c] EXCEPT !.open = FALSE])
  /\ UNCHANGED free /\ KeepSessions /\ HostKept

(***************************************************************************)
(* The end: the listener and the sessions go, then the process, and with   *)
(* it the threads that are still at work.                                  *)
(***************************************************************************)
Stop ==
  /\ console = "up"
  /\ console' = "stopped"
  /\ secret' = FALSE /\ session' = NoSession
  /\ UNCHANGED <<conn, free, lost, failures, now, uses>>

Exit ==
  /\ console = "stopped"
  /\ console' = "gone"
  /\ conn' = [c \in Conns |-> [conn[c] EXCEPT !.open = FALSE]]
  /\ UNCHANGED <<free, lost, secret, failures, session, now, uses>>

Tick ==
  /\ now < MaxTime /\ console = "up"
  /\ now' = now + 1
  /\ UNCHANGED <<conn, free, lost, secret, failures, session, console, uses>>

ServerNext ==
  \/ \E c \in Conns :
       \/ \E kind \in Kinds, genuine \in BOOLEAN : Accept(c, kind, genuine)
       \/ TurnAway(c) \/ NoThread(c) \/ Parse(c) \/ Exchange(c) \/ Authorize(c)
       \/ StartWorker(c) \/ WorkerEnds(c) \/ Collect(c) \/ WorkerTimeout(c)
       \/ Post(c) \/ EndRequest(c) \/ Deadline(c)
  \/ Stop \/ Exit \/ Tick

ServerSpec == ServerInit /\ [][ServerNext]_serverVars

-----------------------------------------------------------------------------
InFlight == {c \in Conns : conn[c].at \notin {"none", "over"}}

(***************************************************************************)
(* Whatever ends a request, its answer, its deadline or a client that is   *)
(* gone, its slot comes back; only a thread that never started keeps one   *)
(* (server.py:93-107).                                                     *)
(***************************************************************************)
SlotsReturn == free + lost + Cardinality(InFlight) = Slots

(***************************************************************************)
(* However many exchanges race, one bearer is ever issued; nothing is read *)
(* or written for a request that did not show it, and it serves only       *)
(* within its idle and its absolute life (session.py:68-118).              *)
(***************************************************************************)
EnteredOnce ==
  /\ Len(uses) <= 1
  /\ \A c \in Conns : conn[c].wrote \/ conn[c].worker # "none" \/ conn[c].reply = "data"
                     => conn[c].genuine /\ Len(uses) = 1 /\ Len(uses[1]) > 1
  /\ \A i \in DOMAIN uses : \A k \in 2 .. Len(uses[i]) :
       /\ uses[i][k] < uses[i][k - 1] + IdleLife
       /\ uses[i][k] < uses[i][1] + SessionLife

\* The bounded listener loses no place and lets one session in.
ListenerHolds == SlotsReturn /\ EnteredOnce

=============================================================================
