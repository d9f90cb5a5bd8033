------------------------------ MODULE CodexClient ------------------------------
(***************************************************************************)
(* The Codex chathead of one browser tab: useCodexAppServer keeps one      *)
(* WebSocket to the app-server, numbers its JSON-RPC calls, establishes a  *)
(* session with a saved thread after every (re)connection, sends prompts   *)
(* and answers approvals.  The app-server, its threads and its turns are   *)
(* external; they are what the client and tests/appserver-smoke.cjs use.   *)
(***************************************************************************)
EXTENDS Naturals, FiniteSets, Sequences

CONSTANTS
  Prompts,    \* prompts the user sends, each once; also names its turn and its approval
  Guarded,    \* the prompts whose turn needs an approval
  Threads,    \* threads the app-server may create
  None,       \* no thread, no turn
  MaxDrops,   \* bound: connections that are lost
  MaxLoads,   \* bound: navigations to another page
  MaxErrors   \* bound: calls the server refuses although it could serve them

Stages == {"initialize", "resume", "start", "catalog"}

ASSUME CodexAssumption ==
  /\ None \notin Prompts \cup Threads
  /\ Prompts \cap (Stages \cup {"decision"}) = {}
  /\ MaxDrops \in Nat /\ MaxLoads \in Nat /\ MaxErrors \in Nat

VARIABLES
  sock,      \* the current socket
  timer,     \* a reconnect is scheduled
  pending,   \* the calls that wait for an answer
  session,   \* "off", "establishing", "ready" (initialized) or "failed"
  saved,     \* localStorage: the thread to resume
  thread,    \* threadIdRef
  snapshot,  \* what thread/resume answered, until the catalogs are read
  active,    \* activeTurnRef
  items,     \* the timeline: [turn, what]
  local,     \* optimistic timeline items
  cards,     \* approvals on the screen
  pc, home,  \* pc[p]: the send of p, home[p]: its thread
  toServer, toClient, \* what is under way on the current socket
  loaded,    \* server: the thread of the current connection
  turn, ask, \* server: turn[p], ask[p] (its approval)
  drops, loads, errors, \* counters of the bounds
  overtaken  \* history: something arrived between thread/resume and the catalogs

page    == <<sock, timer, pending, session, saved, thread, snapshot, active>>
view    == <<items, local, cards, pc, home>>
wire    == <<toServer, toClient>>
server  == <<loaded, turn, ask>>
bounds  == <<drops, loads, errors>>
vars    == <<page, view, wire, server, bounds, overtaken>>

Items  == [turn : Prompts, what : {"asked", "replied"}]
Decision(p) == [for |-> "decision", on |-> p]
Calls  == [for : Stages \cup Prompts, thread : Threads \cup {None}]
Decisions == {Decision(p) : p \in Prompts}
Answers == [kind : {"answer"}, for : Stages \cup Prompts, ok : BOOLEAN,
            thread : Threads \cup {None}, items : SUBSET Items]
Notices == [kind : {"started", "completed", "asked", "replied", "approve", "resolved"}, turn : Prompts]

\* What the server has stored of thread t.
Log(t) == {i \in Items : home[i.turn] = t
              /\ \/ i.what = "asked" /\ turn[i.turn] \in {"running", "done"}
                 \/ i.what = "replied" /\ turn[i.turn] = "done"}

HasTurn(t) == \E p \in Prompts : home[p] = t /\ turn[p] # "none"

Init ==
  /\ sock = "connecting" /\ timer = FALSE
  /\ pending = {} /\ session = "off"
  /\ saved = None /\ thread = None /\ snapshot = {} /\ active = None
  /\ items = {} /\ local = {} /\ cards = {}
  /\ pc = [p \in Prompts |-> "idle"] /\ home = [p \in Prompts |-> None]
  /\ toServer = {} /\ toClient = <<>>
  /\ loaded = None
  /\ turn = [p \in Prompts |-> "none"] /\ ask = [p \in Prompts |-> "none"]
  /\ drops = 0 /\ loads = 0 /\ errors = 0
  /\ overtaken = FALSE

-------------------------------------------------------------------------------
(* Calls *)

\* rpc on an open socket; rest are the calls that still wait.
Rpc(for, t, rest) ==
  LET call == [for |-> for, thread |-> t]
  IN  pending' = rest \cup {call} /\ toServer' = toServer \cup {call}

Settles(rest) == pending' = rest /\ UNCHANGED toServer

\* The pending entry an answer settles.
Caller(m) == {c \in pending : c.for = m.for}

-------------------------------------------------------------------------------
(* establishSession *)

\* The catalogs have been read or their calls have failed, which counts as
\* an empty catalog: the timeline becomes what thread/resume answered.
Ready ==
  /\ session' = "ready" /\ items' = snapshot /\ local' = {} /\ snapshot' = {}

\* A thread is there: it is remembered and the catalogs are asked for.
Adopt(t, shown, rest) ==
  /\ thread' = t /\ saved' = t /\ snapshot' = shown
  /\ Rpc("catalog", t, rest)

Opened ==
  /\ sock = "connecting" /\ sock' = "open"
  /\ session' = "establishing"
  /\ Rpc("initialize", None, {})
  /\ UNCHANGED <<timer, saved, thread, snapshot, active, view, toClient, server, bounds, overtaken>>

\* Slips: a refused resume is an error like the others; every refused call
\* forgets the saved thread.
RefusedGivesUp(c, rest) ==
  /\ c.for \in {"initialize", "resume", "start"}
  /\ Settles(rest) /\ session' = "failed" /\ UNCHANGED saved

RefusedForgets(c, rest) ==
  /\ c.for \in {"initialize", "resume", "start"} /\ saved' = None
  /\ \/ c.for = "resume" /\ Rpc("start", None, rest) /\ UNCHANGED session
     \/ c.for # "resume" /\ Settles(rest) /\ session' = "failed"

\* A call is refused: thread/resume falls back on a new thread, the others
\* end establishSession with the socket left open.
Refused(c, rest) ==
  \/ /\ c.for = "resume" /\ saved' = None
     /\ Rpc("start", None, rest) /\ UNCHANGED session
  \/ /\ c.for \in {"initialize", "start"}
     /\ Settles(rest) /\ session' = "failed" /\ UNCHANGED saved

\* Call c of establishSession is answered with m: what is called next.
Continue(c, m, rest) ==
  \/ /\ c.for = "initialize" /\ m.ok
     /\ IF thread = None THEN Rpc("start", None, rest) ELSE Rpc("resume", thread, rest)
     /\ UNCHANGED <<session, saved, thread, snapshot, items, local>>
  \/ /\ c.for \in {"resume", "start"} /\ m.ok
     /\ Adopt(m.thread, m.items, rest)
     /\ UNCHANGED <<session, items, local>>
  \/ /\ ~m.ok /\ Refused(c, rest)
     /\ UNCHANGED <<thread, snapshot, items, local>>
  \/ /\ c.for = "catalog"
     /\ Settles(rest) /\ Ready
     /\ UNCHANGED <<saved, thread>>

\* handleMessage, an answer: it settles the call with its id, if one waits.
Answered ==
  /\ toClient # <<>> /\ Head(toClient).kind = "answer"
  /\ toClient' = Tail(toClient)
  /\ LET m == Head(toClient) IN
       \/ /\ Caller(m) = {}
          /\ UNCHANGED <<page, view, toServer>>
       \/ \E c \in Caller(m) :
            /\ IF c.for \in Prompts
               THEN /\ pc' = [pc EXCEPT ![c.for] = IF m.ok THEN "sent" ELSE "failed"]
                    /\ active' = IF m.ok THEN c.for ELSE active
                    /\ Settles(pending \ {c})
                    /\ UNCHANGED <<session, saved, thread, snapshot, items, local>>
               ELSE Continue(c, m, pending \ {c}) /\ UNCHANGED <<pc, active>>
            /\ UNCHANGED <<sock, timer, cards, home>>
  /\ UNCHANGED <<server, bounds, overtaken>>

\* The close handler, and what the rejected calls do after it: sends fail, a
\* session that was being set up fails too, forgetting the saved thread if
\* thread/resume was under way, or is ready if only the catalogs were missing.
Waits(for) == \E c \in pending : c.for = for

\* What was under way is gone; the server drops the approvals of the connection.
CutOff ==
  /\ toServer' = {} /\ toClient' = <<>> /\ loaded' = None
  /\ ask' = [p \in Prompts |-> IF ask[p] = "open" THEN "settled" ELSE ask[p]]
  /\ overtaken' = FALSE
  /\ UNCHANGED turn

Rejected ==
  /\ pc' = [p \in Prompts |-> IF Waits(p) THEN "failed" ELSE pc[p]]
  /\ saved' = IF Waits("resume") THEN None ELSE saved
  /\ \/ Waits("catalog") /\ Ready
     \/ /\ ~Waits("catalog")
        /\ session' = IF \E s \in Stages : Waits(s) THEN "failed" ELSE "off"
        /\ UNCHANGED <<items, local, snapshot>>

\* Slips of the close handler: no timer; the turn is kept; the calls are not
\* rejected.
ClosedForGood ==
  /\ sock' = "closed" /\ UNCHANGED timer
  /\ active' = None /\ pending' = {} /\ Rejected /\ CutOff
  /\ UNCHANGED <<thread, cards, home>>

ClosedKeepsTurn ==
  /\ sock' = "closed" /\ timer' = TRUE
  /\ pending' = {} /\ Rejected /\ CutOff
  /\ UNCHANGED <<active, thread, cards, home>>

ClosedKeepsCalls ==
  /\ sock' = "closed" /\ timer' = TRUE
  /\ active' = None /\ CutOff
  /\ UNCHANGED <<pending, pc, saved, session, items, local, snapshot, thread, cards, home>>

Closed ==
  /\ sock' = "closed" /\ timer' = TRUE
  /\ active' = None /\ pending' = {} /\ Rejected /\ CutOff
  /\ UNCHANGED <<thread, cards, home>>

\* The connection is lost or refused.
Drop ==
  /\ sock # "closed" /\ drops < MaxDrops /\ drops' = drops + 1
  /\ Closed
  /\ UNCHANGED <<loads, errors>>

\* The timer of the close handler: connect().
Reconnect ==
  /\ timer /\ timer' = FALSE
  /\ sock' = "connecting" /\ session' = "off"
  /\ UNCHANGED <<pending, saved, thread, snapshot, active, view, wire, server, bounds, overtaken>>

\* Another page of the web UI is loaded: only localStorage survives.
Load ==
  /\ loads < MaxLoads /\ loads' = loads + 1
  /\ sock' = "connecting" /\ timer' = FALSE
  /\ pending' = {} /\ session' = "off"
  /\ thread' = saved /\ snapshot' = {} /\ active' = None
  /\ items' = {} /\ local' = {} /\ cards' = {}
  /\ pc' = [p \in Prompts |-> IF pc[p] = "idle" THEN "idle" ELSE "failed"]
  /\ CutOff
  /\ UNCHANGED <<saved, home, drops, errors>>

-------------------------------------------------------------------------------
(* Prompts and approvals *)

\* send: refused while a turn runs; the prompt is shown at once, then its
\* attachments are read.
Send(p) ==
  /\ pc[p] = "idle" /\ thread # None /\ active = None
  /\ pc' = [pc EXCEPT ![p] = "attaching"] /\ home' = [home EXCEPT ![p] = thread]
  /\ local' = local \cup {p}
  /\ UNCHANGED <<page, items, cards, wire, server, bounds, overtaken>>

\* The attachments are read and turn/start is called.
Attached(p) ==
  /\ pc[p] = "attaching"
  /\ \/ /\ sock = "open" /\ pc' = [pc EXCEPT ![p] = "asked"]
        /\ Rpc(p, home[p], pending)
     \/ /\ sock # "open" /\ pc' = [pc EXCEPT ![p] = "failed"]
        /\ Settles(pending)
  /\ UNCHANGED <<sock, timer, session, saved, thread, snapshot, active,
                 items, local, cards, home, toClient, server, bounds, overtaken>>

\* answerRequest, rejectRequest: on a closed socket send() does nothing, on
\* a connecting one it throws and the card stays.
Decide(p) ==
  /\ p \in cards /\ sock # "connecting"
  /\ toServer' = IF sock = "open" THEN toServer \cup {Decision(p)} ELSE toServer
  /\ cards' = cards \ {p}
  /\ UNCHANGED <<page, items, local, pc, home, toClient, server, bounds, overtaken>>

\* handleNotification and server requests, in the order they arrive.
Notified ==
  /\ toClient # <<>> /\ Head(toClient).kind # "answer"
  /\ toClient' = Tail(toClient)
  /\ LET m == Head(toClient) p == m.turn IN
       /\ active' = CASE m.kind = "started" -> p [] m.kind = "completed" -> None [] OTHER -> active
       /\ items' = IF m.kind \in {"asked", "replied"} THEN items \cup {[turn |-> p, what |-> m.kind]} ELSE items
       /\ local' = IF m.kind = "asked" THEN local \ {p} ELSE local
       /\ cards' = CASE m.kind = "approve" -> cards \cup {p} [] m.kind = "resolved" -> cards \ {p} [] OTHER -> cards
       /\ overtaken' = (overtaken \/ (items' # items /\ Waits("catalog")))
  /\ UNCHANGED <<sock, timer, pending, session, saved, thread, snapshot, pc, home,
                 toServer, server, bounds>>

-------------------------------------------------------------------------------
(* The app-server (external) *)

Answer(c, ok, t, shown) == [kind |-> "answer", for |-> c.for, ok |-> ok, thread |-> t, items |-> shown]
Notice(kind, p) == [kind |-> kind, turn |-> p]

Fresh == {t \in Threads : t # saved /\ t # thread /\ \A p \in Prompts : home[p] # t}

\* A call is answered; a thread without a turn may not be resumable, a turn
\* needs a thread this connection has started or resumed.
Serve ==
  \E c \in toServer :
    /\ c.for # "decision" /\ toServer' = toServer \ {c}
    /\ \/ /\ c.for \in {"initialize", "catalog"}
          /\ toClient' = Append(toClient, Answer(c, TRUE, None, {}))
          /\ UNCHANGED <<server, errors>>
       \/ /\ c.for = "resume"
          /\ loaded' = c.thread
          /\ toClient' = Append(toClient, Answer(c, TRUE, c.thread, Log(c.thread)))
          /\ UNCHANGED <<turn, ask, errors>>
       \/ /\ c.for = "resume" /\ ~HasTurn(c.thread)
          /\ toClient' = Append(toClient, Answer(c, FALSE, None, {}))
          /\ UNCHANGED <<server, errors>>
       \/ \E t \in Fresh :
          /\ c.for = "start" /\ \A u \in Fresh : t <= u
          /\ loaded' = t
          /\ toClient' = Append(toClient, Answer(c, TRUE, t, {}))
          /\ UNCHANGED <<turn, ask, errors>>
       \/ /\ c.for \in Prompts /\ c.thread = loaded
          /\ turn' = [turn EXCEPT ![c.for] = "queued"]
          /\ toClient' = Append(toClient, Answer(c, TRUE, None, {}))
          /\ UNCHANGED <<loaded, ask, errors>>
       \/ /\ c.for \in Prompts /\ c.thread # loaded
          /\ toClient' = Append(toClient, Answer(c, FALSE, None, {}))
          /\ UNCHANGED <<server, errors>>
       \/ /\ c.for \in {"initialize", "start"} /\ errors < MaxErrors /\ errors' = errors + 1
          /\ toClient' = Append(toClient, Answer(c, FALSE, None, {}))
          /\ UNCHANGED server
    /\ UNCHANGED <<page, view, drops, loads, overtaken>>

Tells(p, kinds) ==
  toClient' = IF loaded = home[p] THEN toClient \o [i \in DOMAIN kinds |-> Notice(kinds[i], p)] ELSE toClient

Begin(p) ==
  /\ turn[p] = "queued"
  /\ \A q \in Prompts : turn[q] = "running" => home[q] # home[p]
  /\ turn' = [turn EXCEPT ![p] = "running"]
  /\ Tells(p, <<"started", "asked">>)
  /\ UNCHANGED <<page, view, toServer, loaded, ask, bounds, overtaken>>

End(p) ==
  /\ turn[p] = "running" /\ ask[p] # "open"
  /\ turn' = [turn EXCEPT ![p] = "done"]
  /\ Tells(p, <<"replied", "completed">>)
  /\ UNCHANGED <<page, view, toServer, loaded, ask, bounds, overtaken>>

\* A turn needs the user's approval.
Approve(p) ==
  /\ p \in Guarded /\ turn[p] = "running" /\ ask[p] = "none" /\ loaded = home[p]
  /\ ask' = [ask EXCEPT ![p] = "open"]
  /\ Tells(p, <<"approve">>)
  /\ UNCHANGED <<page, view, toServer, loaded, turn, bounds, overtaken>>

Resolve ==
  \E c \in toServer :
    /\ c.for = "decision" /\ toServer' = toServer \ {c}
    /\ \/ /\ ask[c.on] = "open" /\ ask' = [ask EXCEPT ![c.on] = "settled"]
          /\ Tells(c.on, <<"resolved">>)
       \/ ask[c.on] # "open" /\ UNCHANGED <<ask, toClient>>
    /\ UNCHANGED <<page, view, loaded, turn, bounds, overtaken>>

-------------------------------------------------------------------------------
Next ==
  \/ Opened \/ Answered \/ Notified \/ Drop \/ Reconnect \/ Load
  \/ \E p \in Prompts : Send(p) \/ Attached(p) \/ Decide(p)
  \/ Serve \/ Resolve
  \/ \E p \in Prompts : Begin(p) \/ End(p) \/ Approve(p)

Spec == Init /\ [][Next]_vars

FairSpec ==
  /\ Spec
  /\ WF_vars(Opened) /\ WF_vars(Answered) /\ WF_vars(Notified) /\ WF_vars(Reconnect)
  /\ WF_vars(Serve) /\ WF_vars(Resolve)
  /\ \A p \in Prompts : WF_vars(Attached(p)) /\ WF_vars(Decide(p)) /\ WF_vars(Begin(p)) /\ WF_vars(End(p))

-------------------------------------------------------------------------------
\* Type correctness, and a reconnection is scheduled exactly while the socket
\* is closed: a tab never stops trying and never tries twice.
TypeOK ==
  /\ sock \in {"connecting", "open", "closed"} /\ timer = (sock = "closed")
  /\ session \in {"off", "establishing", "ready", "failed"}
  /\ saved \in Threads \cup {None} /\ thread \in Threads \cup {None}
  /\ loaded \in Threads \cup {None} /\ active \in Prompts \cup {None}
  /\ snapshot \subseteq Items /\ items \subseteq Items
  /\ local \subseteq Prompts /\ cards \subseteq Prompts
  /\ pending \subseteq Calls /\ toServer \subseteq Calls \cup Decisions
  /\ \A i \in DOMAIN toClient : toClient[i] \in Answers \cup Notices

\* Whoever waits, waits for something that is under way: each call the client
\* waits for is on the wire or answered, none outlives its connection, and
\* each approval a turn waits for is a card, or its request or decision is on
\* the wire.
CallsInFlight ==
  /\ sock # "open" => pending = {}
  /\ \A c \in pending :
       \/ c \in toServer
       \/ \E i \in DOMAIN toClient : toClient[i].kind = "answer" /\ toClient[i].for = c.for

ApprovalsInFlight ==
  \A p \in Prompts : ask[p] = "open" =>
    \/ p \in cards
    \/ Decision(p) \in toServer
    \/ \E i \in DOMAIN toClient : toClient[i] = Notice("approve", p)

InFlight == CallsInFlight /\ ApprovalsInFlight

Quiet == sock = "open" /\ session = "ready" /\ toClient = <<>>

\* Once connected and with nothing left to receive, the timeline is what the
\* server has stored of the thread, through any number of reconnections, and
\* no prompt is shown a second time as an optimistic item; except when a
\* message of a running turn came between thread/resume and the catalogs,
\* whose setState overwrites it with the older answer.
ShowsThread ==
  Quiet /\ ~overtaken =>
    /\ items = Log(thread)
    /\ \A p \in local : [turn |-> p, what |-> "asked"] \notin items

\* The composer is not locked for a turn that no longer runs: send refuses
\* while activeTurnRef is set, so a turn whose end was lost with a connection
\* must not stay in it.
IdleUnlocked ==
  Quiet /\ (\A p \in Prompts : home[p] = thread => turn[p] \in {"none", "done"}) => active = None

\* After any number of lost connections the tab agrees with the server on
\* what was said and on whether it may speak.
ScreenAgrees == ShowsThread /\ IdleUnlocked

\* A saved thread with a conversation in it is forgotten only when the
\* connection is lost during its thread/resume.
KeepsThread ==
  [][HasTurn(saved) /\ saved' # saved => Waits("resume") /\ sock' = "closed"]_vars

\* Once connections stop being lost, the tab is connected for good, unless
\* the server refused initialize or thread/start: nobody calls again then.
Connects ==
  <>[](sock = "open" /\ (session = "ready" \/ (session = "failed" /\ errors > 0)))
===============================================================================
