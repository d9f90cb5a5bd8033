--------------------------- MODULE CodexClientProofs ---------------------------
(***************************************************************************)
(* For any prompts, threads, lost connections, page loads and refusals:    *)
(* nobody waits for what is gone, the tab agrees with the server once      *)
(* connected, and a saved thread is kept (protocol.ts:398-924).            *)
(***************************************************************************)
EXTENDS CodexClient, TLAPS

Msgs == Answers \cup Notices

\* The messages of a sequence.
Held(s) == {s[i] : i \in DOMAIN s}

Kinds == {"started", "completed", "asked", "replied", "approve", "resolved"}

Shape ==
  /\ TypeOK /\ toClient \in Seq(Msgs)
  /\ pc \in [Prompts -> {"idle", "attaching", "asked", "sent", "failed"}]
  /\ home \in [Prompts -> Threads \cup {None}]
  /\ turn \in [Prompts -> {"none", "queued", "running", "done"}]
  /\ ask \in [Prompts -> {"none", "open", "settled"}]

\* Nothing is under way but on an open socket.
OpenOnly ==
  sock # "open" => /\ pending = {} /\ toServer = {} /\ toClient = <<>>
                   /\ loaded = None /\ active = None

\* The calls that wait differ in what they are for, and establishSession
\* makes one call at a time.
OneCall ==
  \A c, d \in pending : c.for = d.for \/ {c.for, d.for} \subseteq Stages => c = d

\* A call on the wire is waited for; a prompt is called once.
CallsWaited ==
  /\ toServer \ Decisions \subseteq pending
  /\ \A c \in pending : c.for \in Prompts => pc[c.for] = "asked" /\ c.thread = home[c.for]

AnsweredOnce ==
  \A i, j \in DOMAIN toClient :
    toClient[i].kind = "answer" /\ toClient[j].kind = "answer" /\ toClient[i].for = toClient[j].for => i = j

\* An answer under way is the only one to a call that waits for it.
AnswersWaited ==
  /\ \A m \in Held(toClient) : m.kind = "answer" =>
       \E c \in pending \ toServer : c.for = m.for
  /\ AnsweredOnce

\* A call that waits is on the wire or its answer is.
CallsGo ==
  \A c \in pending :
    c \in toServer \/ \E m \in Held(toClient) : m.kind = "answer" /\ m.for = c.for

Wire == OpenOnly /\ OneCall /\ CallsWaited /\ AnswersWaited /\ CallsGo

\* A turn belongs to a prompt that was called in its thread.
Sends ==
  /\ \A p \in Prompts : /\ pc[p] \in {"idle", "attaching"} => turn[p] = "none"
                        /\ pc[p] # "idle" => home[p] \in Threads
  /\ \A c \in toServer : c.for \in Prompts => turn[c.for] = "none"

Called(c) ==
  /\ c.for = "initialize" => loaded = None
  /\ c.for = "resume" => c.thread = thread /\ thread \in Threads
  /\ c.for = "start" => saved = None
  /\ c.for \in {"resume", "start"} /\ c \in toServer => loaded = None
  /\ c.for = "catalog" => loaded = thread /\ thread \in Threads

Fits(m) ==
  m.kind = "answer" /\ m.for \in {"resume", "start"} =>
    /\ m.ok => /\ m.thread = loaded /\ loaded \in Threads
               /\ m.for = "resume" => loaded = thread
               /\ m.for = "start" => loaded # thread /\ \A p \in Prompts : home[p] # loaded
    /\ ~m.ok => /\ loaded = None
                /\ m.for = "resume" => ~HasTurn(thread)

Live == sock = "open" /\ session = "ready"

Session ==
  /\ saved \in {None, thread}
  /\ \A c \in pending : Called(c)
  /\ \A m \in Held(toClient) : Fits(m)
  /\ Live => loaded = thread /\ thread \in Threads /\ \A c \in pending : c.for \notin Stages

Approvals ==
  \A p \in Prompts :
    /\ ask[p] = "open" => /\ sock = "open"
                          /\ p \in cards \/ Decision(p) \in toServer \/ Notice("approve", p) \in Held(toClient)
    /\ Notice("resolved", p) \in Held(toClient) => ask[p] = "settled"

Happened(x) ==
  \/ x.what = "asked" /\ turn[x.turn] \in {"running", "done"}
  \/ x.what = "replied" /\ turn[x.turn] = "done"

\* A notice of a turn is of this connection's thread, and comes after the fact.
Noticed(m) ==
  m.kind \in {"started", "asked", "replied", "completed"} =>
    /\ home[m.turn] = loaded /\ turn[m.turn] \in {"running", "done"}
    /\ m.kind \in {"replied", "completed"} => turn[m.turn] = "done"

Truthful ==
  /\ \A m \in Held(toClient) : Noticed(m)
  /\ \A m \in Held(toClient) : m.kind = "answer" => \A x \in m.items : Happened(x)
  /\ \A x \in items \cup snapshot : Happened(x)
  /\ \A p \in local : [turn |-> p, what |-> "asked"] \notin items

\* Each item is told once, and during establishSession not after it is shown.
Setup == \E c \in pending : c.for \in Stages

Once ==
  \A i \in DOMAIN toClient : toClient[i].kind \in {"asked", "replied"} =>
    /\ \A j \in DOMAIN toClient : toClient[j] = toClient[i] => j = i
    /\ Setup => [turn |-> toClient[i].turn, what |-> toClient[i].kind] \notin items

\* The items of a thread come after the answer that opens it.
Opens(m) == m.kind = "answer" /\ m.for \in {"resume", "start"} /\ m.ok

Ordered ==
  \A i, j \in DOMAIN toClient :
    Opens(toClient[j]) /\ i < j => toClient[i].kind \notin {"asked", "replied"}

Shows(shown) ==
  \A x \in Items : x \in Log(loaded) <=> x \in shown \/ Notice(x.what, x.turn) \in Held(toClient)

Book ==
  /\ \A m \in Held(toClient) : Opens(m) => Shows(m.items)
  /\ Waits("catalog") /\ ~overtaken => Shows(snapshot)
  /\ Live /\ ~overtaken => Shows(items)

Runs(p, i) ==
  /\ home[p] = loaded
  /\ \/ turn[p] \in {"queued", "running"}
     \/ \E j \in DOMAIN toClient : j > i /\ toClient[j] = Notice("completed", p)

Locks(m, p) ==
  \/ m.kind = "answer" /\ m.for = p /\ m.ok
  \/ m = Notice("started", p)

Lock ==
  \A p \in Prompts :
    /\ active = p => Runs(p, 0)
    /\ \A i \in DOMAIN toClient : Locks(toClient[i], p) => Runs(p, i)
-------------------------------------------------------------------------------
(* Messages under way *)

SeqThm == INSTANCE SequenceTheorems

LEMMA Received ==
  ASSUME NEW s \in Seq(Msgs), s # <<>>
  PROVE  /\ Head(s) = s[1] /\ Head(s) \in Msgs /\ Head(s) \in Held(s) /\ 1 \in DOMAIN s
         /\ Tail(s) \in Seq(Msgs)
         /\ Held(Tail(s)) \subseteq Held(s) /\ Held(s) \subseteq Held(Tail(s)) \cup {Head(s)}
         /\ \A i \in DOMAIN Tail(s) : i \in Nat /\ i + 1 \in DOMAIN s /\ Tail(s)[i] = s[i + 1]
         /\ \A i \in DOMAIN s : i \in Nat /\ (i > 1 => i - 1 \in DOMAIN Tail(s) /\ Tail(s)[i - 1] = s[i])
<1>1. /\ Len(s) \in Nat \ {0} /\ DOMAIN s = 1 .. Len(s)
      /\ Tail(s) \in Seq(Msgs) /\ DOMAIN Tail(s) = 1 .. Len(s) - 1
      /\ \A i \in DOMAIN Tail(s) : Tail(s)[i] = s[i + 1]
      /\ Head(s) = s[1] /\ \A i \in DOMAIN s : s[i] \in Msgs
  OBVIOUS
<1>2. \A i \in DOMAIN Tail(s) : i \in Nat /\ i + 1 \in DOMAIN s
  BY <1>1
<1>3. \A i \in DOMAIN s : i \in Nat /\ (i > 1 => i - 1 \in DOMAIN Tail(s) /\ Tail(s)[i - 1] = s[i])
  BY <1>1
<1>4. \A i \in DOMAIN s : i = 1 \/ i > 1
  BY <1>1
<1>5. 1 \in DOMAIN s
  BY <1>1
<1> QED
  BY <1>1, <1>2, <1>3, <1>4, <1>5 DEF Held

LEMMA Given ==
  ASSUME NEW s \in Seq(Msgs), NEW m \in Msgs
  PROVE  /\ Append(s, m) \in Seq(Msgs)
         /\ Held(Append(s, m)) = Held(s) \cup {m}
         /\ \A i \in DOMAIN s : i \in Nat /\ i \in DOMAIN Append(s, m) /\ Append(s, m)[i] = s[i] /\ i < Len(s) + 1
         /\ Append(s, m)[Len(s) + 1] = m /\ Len(s) + 1 \in DOMAIN Append(s, m) /\ Len(s) \in Nat
         /\ \A i \in DOMAIN Append(s, m) : i \in DOMAIN s \/ i = Len(s) + 1
<1>1. /\ Len(s) \in Nat /\ DOMAIN s = 1 .. Len(s)
      /\ Append(s, m) \in Seq(Msgs) /\ DOMAIN Append(s, m) = 1 .. Len(s) + 1
      /\ \A i \in DOMAIN s : Append(s, m)[i] = s[i]
      /\ Append(s, m)[Len(s) + 1] = m
  OBVIOUS
<1>2. /\ \A i \in DOMAIN s : i \in Nat /\ i \in DOMAIN Append(s, m) /\ i < Len(s) + 1
      /\ \A i \in DOMAIN Append(s, m) : i \in DOMAIN s \/ i = Len(s) + 1
      /\ Len(s) + 1 \in DOMAIN Append(s, m)
  BY <1>1
<1>3. Held(Append(s, m)) = Held(s) \cup {m}
  BY <1>1, <1>2 DEF Held
<1> QED
  BY <1>1, <1>2, <1>3

\* What the server says of p, and to nobody unless the connection has its thread.
Words(p, kinds) == [k \in DOMAIN kinds |-> Notice(kinds[k], p)]
Says(p, kinds) == {Notice(kinds[k], p) : k \in DOMAIN kinds}

LEMMA WordsSeq ==
  ASSUME NEW p \in Prompts, NEW kinds \in Seq(Kinds)
  PROVE  /\ Words(p, kinds) \in Seq(Msgs) /\ Len(Words(p, kinds)) = Len(kinds)
         /\ DOMAIN Words(p, kinds) = DOMAIN kinds
         /\ \A k \in DOMAIN kinds : Words(p, kinds)[k] = Notice(kinds[k], p)
<1>1. DOMAIN kinds = 1 .. Len(kinds) /\ Len(kinds) \in Nat
  OBVIOUS
<1>2. \A i \in 1 .. Len(kinds) : kinds[i] \in Kinds
  OBVIOUS
<1>3. \A i \in 1 .. Len(kinds) : Notice(kinds[i], p) \in Msgs
  BY <1>2 DEF Notice, Msgs, Notices, Kinds
<1>4. Words(p, kinds) = [i \in 1 .. Len(kinds) |-> Notice(kinds[i], p)]
  BY <1>1 DEF Words
<1>5. Words(p, kinds) \in Seq(Msgs) /\ Len(Words(p, kinds)) = Len(kinds)
  <2>1. Words(p, kinds) \in [1 .. Len(kinds) -> Msgs]
    BY <1>3, <1>4
  <2>2. Words(p, kinds) \in Seq(Msgs) /\ DOMAIN Words(p, kinds) = 1 .. Len(kinds)
    BY <1>1, <2>1, SeqThm!SeqDef
  <2> QED
    BY <1>1, <2>2
<1> QED
  BY <1>1, <1>4, <1>5

LEMMA Told ==
  ASSUME NEW s \in Seq(Msgs), NEW w \in Seq(Msgs)
  PROVE  /\ s \o w \in Seq(Msgs)
         /\ \A i \in DOMAIN s : i \in Nat /\ i \in DOMAIN (s \o w) /\ (s \o w)[i] = s[i]
         /\ \A i \in DOMAIN (s \o w) : i \in DOMAIN s \/ (\E k \in DOMAIN w : i = Len(s) + k /\ (s \o w)[i] = w[k])
         /\ \A k \in DOMAIN w : Len(s) + k \in DOMAIN (s \o w) /\ (s \o w)[Len(s) + k] = w[k]
                                /\ \A i \in DOMAIN s : i < Len(s) + k
<1> DEFINE r == s \o w
<1>1. /\ r \in Seq(Msgs) /\ DOMAIN r = 1 .. Len(s) + Len(w)
      /\ DOMAIN s = 1 .. Len(s) /\ Len(s) \in Nat /\ DOMAIN w = 1 .. Len(w) /\ Len(w) \in Nat
      /\ \A i \in 1 .. Len(s) + Len(w) : r[i] = IF i <= Len(s) THEN s[i] ELSE w[i - Len(s)]
  BY SeqThm!ConcatProperties
<1> HIDE DEF r
<1>2. \A i \in DOMAIN s : i \in Nat /\ i \in DOMAIN r /\ r[i] = s[i]
  BY <1>1
<1>3. ASSUME NEW i \in DOMAIN r, i \notin DOMAIN s
      PROVE  \E k \in DOMAIN w : i = Len(s) + k /\ r[i] = w[k]
  <2>1. i - Len(s) \in DOMAIN w /\ i = Len(s) + (i - Len(s)) /\ r[i] = w[i - Len(s)]
    BY <1>1, <1>3
  <2> QED
    BY <2>1
<1>4. ASSUME NEW k \in DOMAIN w
      PROVE  Len(s) + k \in DOMAIN r /\ r[Len(s) + k] = w[k] /\ \A i \in DOMAIN s : i < Len(s) + k
  <2>1. Len(s) + k \in DOMAIN r /\ ~(Len(s) + k <= Len(s)) /\ Len(s) + k - Len(s) = k /\ \A i \in DOMAIN s : i < Len(s) + k
    BY <1>1
  <2> QED
    BY <2>1, <1>1
<1> QED
  BY <1>1, <1>2, <1>3, <1>4 DEF r

LEMMA MsgTypes ==
  ASSUME NEW s \in Seq(Msgs)
  PROVE  \A i \in DOMAIN s : s[i] \in Answers \cup Notices
  BY DEF Msgs

-------------------------------------------------------------------------------
(* The steps that receive an answer or send one, each on its own *)

\* Answer m settles call c; the rest of the step is one of the next five.
Settled(c, m) ==
  /\ toClient # <<>> /\ m = Head(toClient) /\ toClient' = Tail(toClient)
  /\ c \notin toServer /\ c.for = m.for
  /\ UNCHANGED <<sock, timer, cards, home, loaded, turn, ask, drops, loads, errors, overtaken>>

CallsNext(c, n) ==
  /\ pending' = (pending \ {c}) \cup {n} /\ toServer' = toServer \cup {n}
  /\ UNCHANGED <<session, items, local, pc, active>>

ToPrompt(c, m) ==
  /\ c.for \in Prompts /\ pending' = pending \ {c}
  /\ pc' = [pc EXCEPT ![c.for] = IF m.ok THEN "sent" ELSE "failed"]
  /\ active' = (IF m.ok THEN c.for ELSE active)
  /\ UNCHANGED <<toServer, session, saved, thread, snapshot, items, local>>

ToInitialize(c, n) ==
  /\ c.for = "initialize" /\ CallsNext(c, n)
  /\ \/ thread = None /\ n = [for |-> "start", thread |-> None]
     \/ thread # None /\ n = [for |-> "resume", thread |-> thread]
  /\ UNCHANGED <<saved, thread, snapshot>>

ToThread(c, m, n) ==
  /\ c.for \in {"resume", "start"} /\ m.ok /\ CallsNext(c, n) /\ n = [for |-> "catalog", thread |-> m.thread]
  /\ thread' = m.thread /\ saved' = m.thread /\ snapshot' = m.items

ToRefusal(c, m, n) ==
  /\ c.for = "resume" /\ ~m.ok /\ CallsNext(c, n) /\ n = [for |-> "start", thread |-> None]
  /\ saved' = None /\ UNCHANGED <<thread, snapshot>>

ToFailure(c, m) ==
  /\ c.for \in {"initialize", "start"} /\ pending' = pending \ {c} /\ session' = "failed"
  /\ UNCHANGED <<toServer, saved, thread, snapshot, items, local, pc, active>>

ToCatalog(c, m) ==
  /\ c.for = "catalog" /\ pending' = pending \ {c}
  /\ session' = "ready" /\ items' = snapshot /\ local' = {} /\ snapshot' = {}
  /\ UNCHANGED <<toServer, saved, thread, pc, active>>

\* Call c is answered with m; the rest of the step is one of the next four.
Gives(c, m) ==
  /\ c \in toServer /\ toServer' = toServer \ {c} /\ m.for = c.for /\ toClient' = Append(toClient, m)
  /\ UNCHANGED <<page, view, ask, drops, loads, overtaken>>

Plainly(c, m) ==
  /\ m.items = {} /\ (m.ok => c.for \in {"initialize", "catalog"})
  /\ c.for = "resume" => ~HasTurn(c.thread)
  /\ UNCHANGED <<loaded, turn>>

Resumes(c, m) ==
  /\ c.for = "resume" /\ m.ok /\ m.thread = c.thread /\ m.items = Log(c.thread)
  /\ loaded' = c.thread /\ UNCHANGED <<turn, errors>>

Starts(c, m) ==
  /\ c.for = "start" /\ m.ok /\ m.thread \in Fresh /\ m.items = {}
  /\ loaded' = m.thread /\ UNCHANGED <<turn, errors>>

Queues(c, m) ==
  /\ c.for \in Prompts /\ c.thread = loaded /\ m.ok /\ m.items = {}
  /\ turn' = [turn EXCEPT ![c.for] = "queued"] /\ UNCHANGED <<loaded, errors>>

\* Notice m is handled.
Heard(m) ==
  /\ toClient # <<>> /\ m = Head(toClient) /\ toClient' = Tail(toClient)
  /\ m.kind = "started" => active' = m.turn
  /\ m.kind = "completed" => active' = None
  /\ m.kind \notin {"started", "completed"} => active' = active
  /\ m.kind \in {"asked", "replied"} => items' = items \cup {[turn |-> m.turn, what |-> m.kind]}
  /\ m.kind \notin {"asked", "replied"} => items' = items
  /\ local' = IF m.kind = "asked" THEN local \ {m.turn} ELSE local
  /\ m.kind = "approve" => cards' = cards \cup {m.turn}
  /\ m.kind = "resolved" => cards' = cards \ {m.turn}
  /\ m.kind \notin {"approve", "resolved"} => cards' = cards
  /\ overtaken' = (overtaken \/ (items' # items /\ Waits("catalog")))
  /\ UNCHANGED <<sock, timer, pending, session, saved, thread, snapshot, pc, home,
                 toServer, loaded, turn, ask, drops, loads, errors>>

LEMMA CallTypes ==
  /\ \A c \in Calls : c.for \in Stages \cup Prompts /\ c.thread \in Threads \cup {None}
  /\ \A m \in Answers : /\ m.kind = "answer" /\ m.for \in Stages \cup Prompts /\ m.ok \in BOOLEAN
                        /\ m.thread \in Threads \cup {None} /\ m.items \subseteq Items
  /\ \A m \in Notices : m.kind \in Kinds /\ m.kind # "answer" /\ m.turn \in Prompts /\ m = Notice(m.kind, m.turn)
  /\ \A p \in Prompts : p \notin Stages /\ p # "decision"
  /\ \A d \in Decisions : d.for = "decision" /\ d.on \in Prompts /\ d = Decision(d.on)
  /\ Calls \cap Decisions = {}
<1>1. \A p \in Prompts : p \notin Stages /\ p # "decision"
  BY CodexAssumption DEF CodexAssumption
<1>2. \A m \in Notices : m.kind \in Kinds /\ m.kind # "answer" /\ m.turn \in Prompts /\ m = Notice(m.kind, m.turn)
  BY DEF Notices, Notice, Kinds
<1>3. \A m \in Answers : /\ m.kind = "answer" /\ m.for \in Stages \cup Prompts /\ m.ok \in BOOLEAN
                         /\ m.thread \in Threads \cup {None} /\ m.items \subseteq Items
  BY DEF Answers
<1>4. \A c \in Calls : c.for \in Stages \cup Prompts /\ c.thread \in Threads \cup {None}
  BY DEF Calls
<1>5. \A d \in Decisions : d.for = "decision" /\ d.on \in Prompts /\ d = Decision(d.on)
  BY DEF Decisions, Decision
<1>6. Calls \cap Decisions = {}
  BY <1>1, <1>4, <1>5 DEF Stages
<1> QED
  BY <1>1, <1>2, <1>3, <1>4, <1>5, <1>6

LEMMA AnsweredSteps ==
  ASSUME Shape, Wire, Answered
  PROVE  \E c \in pending, m \in Answers :
           /\ Settled(c, m)
           /\ \/ ToPrompt(c, m) \/ ToFailure(c, m) \/ ToCatalog(c, m)
              \/ \E n \in Calls : ToInitialize(c, n) \/ ToThread(c, m, n) \/ ToRefusal(c, m, n)
<1> DEFINE m == Head(toClient)
<1>1. toClient \in Seq(Msgs) /\ toClient # <<>> /\ m.kind = "answer" /\ m \in Held(toClient) /\ m \in Answers
  BY Received, CallTypes DEF Shape, Answered, Msgs
<1>2. PICK c \in pending : c \notin toServer /\ c.for = m.for
  BY <1>1 DEF Wire, AnswersWaited
<1>3. \A d \in Caller(m) : d = c
  BY <1>2 DEF Caller, Wire, OneCall
<1>4. Caller(m) # {}
  BY <1>2 DEF Caller
<1>5. Settled(c, m)
  BY <1>1, <1>2, <1>3, <1>4 DEF Answered, Settled, server, bounds
<1>6. IF c.for \in Prompts
      THEN /\ pc' = [pc EXCEPT ![c.for] = IF m.ok THEN "sent" ELSE "failed"]
           /\ active' = IF m.ok THEN c.for ELSE active
           /\ Settles(pending \ {c})
           /\ UNCHANGED <<session, saved, thread, snapshot, items, local>>
      ELSE Continue(c, m, pending \ {c}) /\ UNCHANGED <<pc, active>>
  BY <1>3, <1>4 DEF Answered
<1>7. CASE c.for \in Prompts
  <2>1. ToPrompt(c, m)
    BY <1>6, <1>7 DEF ToPrompt, Settles
  <2> QED
    BY <1>1, <1>5, <2>1
<1>8. CASE c.for \notin Prompts
  <2>1. Continue(c, m, pending \ {c}) /\ UNCHANGED <<pc, active>>
    BY <1>6, <1>8
  <2>2. m.thread \in Threads \cup {None} /\ thread \in Threads \cup {None}
    BY <1>1, CallTypes DEF Shape, TypeOK
  <2>3. CASE c.for = "catalog"
    <3>1. ToCatalog(c, m)
      BY <2>1, <2>3 DEF Continue, Refused, ToCatalog, Ready, Settles
    <3> QED
      BY <1>1, <1>5, <3>1
  <2>4. CASE c.for = "initialize" /\ m.ok
    <3>1. CASE thread = None
      <4> DEFINE n == [for |-> "start", thread |-> None]
      <4>1. n \in Calls
        BY DEF Calls, Stages
      <4>2. ToInitialize(c, n)
        BY <2>1, <2>4, <3>1 DEF Continue, ToInitialize, CallsNext, Rpc
      <4> QED
        BY <1>1, <1>5, <4>1, <4>2
    <3>2. CASE thread # None
      <4> DEFINE n == [for |-> "resume", thread |-> thread]
      <4>1. n \in Calls
        BY <2>2 DEF Calls, Stages
      <4>2. ToInitialize(c, n)
        BY <2>1, <2>4, <3>2 DEF Continue, ToInitialize, CallsNext, Rpc
      <4> QED
        BY <1>1, <1>5, <4>1, <4>2
    <3> QED
      BY <3>1, <3>2
  <2>5. CASE c.for \in {"resume", "start"} /\ m.ok
    <3> DEFINE n == [for |-> "catalog", thread |-> m.thread]
    <3>1. n \in Calls
      BY <2>2 DEF Calls, Stages
    <3>2. ToThread(c, m, n)
      BY <2>1, <2>5 DEF Continue, ToThread, CallsNext, Rpc, Adopt
    <3> QED
      BY <1>1, <1>5, <3>1, <3>2
  <2>6. CASE c.for = "resume" /\ ~m.ok
    <3> DEFINE n == [for |-> "start", thread |-> None]
    <3>1. n \in Calls
      BY DEF Calls, Stages
    <3>2. ToRefusal(c, m, n)
      BY <2>1, <2>6 DEF Continue, ToRefusal, CallsNext, Rpc, Refused
    <3> QED
      BY <1>1, <1>5, <3>1, <3>2
  <2>7. CASE c.for \in {"initialize", "start"} /\ ~m.ok
    <3>1. ToFailure(c, m)
      BY <2>1, <2>7 DEF Continue, ToFailure, Refused, Settles
    <3> QED
      BY <1>1, <1>5, <3>1
  <2>8. \/ c.for = "catalog"
        \/ c.for \in {"initialize", "resume", "start"} /\ m.ok
        \/ c.for \in {"initialize", "resume", "start"} /\ ~m.ok
    BY <2>1 DEF Continue, Refused
  <2> QED
    BY <2>3, <2>4, <2>5, <2>6, <2>7, <2>8
<1> QED
  BY <1>7, <1>8

LEMMA ServeSteps ==
  ASSUME Shape, Wire, Serve
  PROVE  \E c \in pending, m \in Answers :
           Gives(c, m) /\ (Plainly(c, m) \/ Resumes(c, m) \/ Starts(c, m) \/ Queues(c, m))
<1>1. PICK c \in toServer :
        /\ c.for # "decision" /\ toServer' = toServer \ {c}
        /\ \/ /\ c.for \in {"initialize", "catalog"}
              /\ toClient' = Append(toClient, Answer(c, TRUE, None, {}))
              /\ UNCHANGED <<server, errors>>
           \/ /\ c.for = "resume"
              /\ loaded' = c.thread
              /\ toClient' = Append(toClient, Answer(c, TRUE, c.thread, Log(c.thread)))
              /\ UNCHANGED <<turn, ask, errors>>
           \/ /\ c.for = "resume" /\ ~HasTurn(c.thread)
              /\ toClient' = Append(toClient, Answer(c, FALSE, None, {}))
              /\ UNCHANGED <<server, errors>>
           \/ \E t \in Fresh :
              /\ c.for = "start"
              /\ loaded' = t
              /\ toClient' = Append(toClient, Answer(c, TRUE, t, {}))
              /\ UNCHANGED <<turn, ask, errors>>
           \/ /\ c.for \in Prompts /\ c.thread = loaded
              /\ turn' = [turn EXCEPT ![c.for] = "queued"]
              /\ toClient' = Append(toClient, Answer(c, TRUE, None, {}))
              /\ UNCHANGED <<loaded, ask, errors>>
           \/ /\ c.for \in Prompts
              /\ toClient' = Append(toClient, Answer(c, FALSE, None, {}))
              /\ UNCHANGED <<server, errors>>
           \/ /\ c.for \in {"initialize", "start"}
              /\ toClient' = Append(toClient, Answer(c, FALSE, None, {}))
              /\ UNCHANGED server
  BY DEF Serve
<1>2. UNCHANGED <<page, view, drops, loads, overtaken>>
  BY DEF Serve
<1>3. c \in pending /\ c \in Calls /\ c.for \in Stages \cup Prompts
  BY <1>1, CallTypes DEF Shape, TypeOK, Wire, CallsWaited
<1>4. ASSUME NEW ok \in BOOLEAN, NEW t \in Threads \cup {None}, NEW shown \in SUBSET Items, UNCHANGED ask,
             toClient' = Append(toClient, Answer(c, ok, t, shown))
      PROVE  \E m \in Answers : /\ Gives(c, m) /\ m.ok = ok /\ m.thread = t /\ m.items = shown
  <2> DEFINE m == Answer(c, ok, t, shown)
  <2>1. m \in Answers /\ m.for = c.for /\ m.ok = ok /\ m.thread = t /\ m.items = shown
    BY <1>3 DEF Answer, Answers
  <2>2. Gives(c, m)
    BY <1>1, <1>2, <1>4, <2>1 DEF Gives
  <2> QED
    BY <2>1, <2>2
<1>5. {} \in SUBSET Items /\ None \in Threads \cup {None}
  OBVIOUS
<1>6. CASE c.for \in {"initialize", "catalog"} /\ UNCHANGED <<server, errors>>
           /\ toClient' = Append(toClient, Answer(c, TRUE, None, {}))
  <2>1. PICK m \in Answers : Gives(c, m) /\ m.ok = TRUE /\ m.items = {}
    BY <1>4, <1>5, <1>6 DEF server
  <2>2. Plainly(c, m)
    BY <1>6, <2>1 DEF Plainly, server
  <2> QED
    BY <1>3, <2>1, <2>2
<1>7. CASE c.for = "resume" /\ loaded' = c.thread /\ UNCHANGED <<turn, ask, errors>>
           /\ toClient' = Append(toClient, Answer(c, TRUE, c.thread, Log(c.thread)))
  <2>1. c.thread \in Threads \cup {None} /\ Log(c.thread) \in SUBSET Items
    BY <1>3, CallTypes DEF Log
  <2>2. PICK m \in Answers : Gives(c, m) /\ m.ok = TRUE /\ m.thread = c.thread /\ m.items = Log(c.thread)
    BY <1>4, <1>7, <2>1
  <2>3. Resumes(c, m)
    BY <1>7, <2>2 DEF Resumes
  <2> QED
    BY <1>3, <2>2, <2>3
<1>8. CASE /\ c.for \in {"initialize", "start", "resume"} \cup Prompts /\ (c.for = "resume" => ~HasTurn(c.thread))
           /\ toClient' = Append(toClient, Answer(c, FALSE, None, {})) /\ UNCHANGED server
  <2>1. PICK m \in Answers : Gives(c, m) /\ m.ok = FALSE /\ m.items = {}
    BY <1>4, <1>5, <1>8 DEF server
  <2>2. Plainly(c, m)
    BY <1>8, <2>1 DEF Plainly, server
  <2> QED
    BY <1>3, <2>1, <2>2
<1>9. ASSUME NEW u \in Fresh, c.for = "start", loaded' = u, UNCHANGED <<turn, ask, errors>>,
             toClient' = Append(toClient, Answer(c, TRUE, u, {}))
      PROVE  \E m \in Answers : Gives(c, m) /\ Starts(c, m)
  <2>1. u \in Threads \cup {None}
    BY DEF Fresh
  <2> DEFINE m == Answer(c, TRUE, u, {})
  <2>2. m \in Answers /\ m.for = c.for /\ m.ok /\ m.thread = u /\ m.items = {}
    BY <1>3, <1>5, <2>1 DEF Answer, Answers
  <2>3. Gives(c, m) /\ Starts(c, m)
    BY <1>1, <1>2, <1>9, <2>2 DEF Gives, Starts
  <2> QED
    BY <2>2, <2>3
<1>10. CASE /\ c.for \in Prompts /\ c.thread = loaded /\ turn' = [turn EXCEPT ![c.for] = "queued"]
            /\ toClient' = Append(toClient, Answer(c, TRUE, None, {})) /\ UNCHANGED <<loaded, ask, errors>>
  <2>1. PICK m \in Answers : Gives(c, m) /\ m.ok = TRUE /\ m.items = {}
    BY <1>4, <1>5, <1>10
  <2>2. Queues(c, m)
    BY <1>10, <2>1 DEF Queues
  <2> QED
    BY <1>3, <2>1, <2>2
<1>11. c.for \in Prompts => c.for # "resume"
  BY CallTypes DEF Stages
<1> QED
  BY <1>1, <1>3, <1>6, <1>7, <1>8, <1>9, <1>10, <1>11

LEMMA NotifiedSteps ==
  ASSUME Shape, Notified
  PROVE  \E m \in Notices : Heard(m)
<1> DEFINE m == Head(toClient)
<1>1. toClient # <<>> /\ toClient' = Tail(toClient) /\ m \in Notices
  BY Received, CallTypes DEF Notified, Shape, Msgs
<1>2. m.kind = "started" => active' = m.turn
  BY <1>1, Zenon DEF Notified
<1>3. m.kind = "completed" => active' = None
  BY <1>1, Zenon DEF Notified
<1>4. m.kind \notin {"started", "completed"} => active' = active
  BY <1>1, Zenon DEF Notified
<1>5. m.kind = "approve" => cards' = cards \cup {m.turn}
  BY <1>1, Zenon DEF Notified
<1>6. m.kind = "resolved" => cards' = cards \ {m.turn}
  BY <1>1, Zenon DEF Notified
<1>7. m.kind \notin {"approve", "resolved"} => cards' = cards
  BY <1>1, Zenon DEF Notified
<1>8. /\ items' = IF m.kind \in {"asked", "replied"} THEN items \cup {[turn |-> m.turn, what |-> m.kind]} ELSE items
      /\ local' = IF m.kind = "asked" THEN local \ {m.turn} ELSE local
      /\ overtaken' = (overtaken \/ (items' # items /\ Waits("catalog")))
      /\ UNCHANGED <<sock, timer, pending, session, saved, thread, snapshot, pc, home, toServer, server, bounds>>
  BY Zenon DEF Notified
<1> HIDE DEF m
<1>9. Heard(m)
  BY <1>1, <1>2, <1>3, <1>4, <1>5, <1>6, <1>7, <1>8, Zenon DEF Heard, server, bounds, m
<1> QED
  BY <1>1, <1>9

\* A connection or a page ends: nothing is under way any more.
Loses ==
  /\ sock' # "open" /\ pending' = {} /\ toServer' = {} /\ toClient' = <<>>
  /\ loaded' = None /\ active' = None /\ overtaken' = FALSE
  /\ ask' = [p \in Prompts |-> IF ask[p] = "open" THEN "settled" ELSE ask[p]]
  /\ UNCHANGED <<turn, home>>

LEMMA DropLoses == Drop \/ Load => Loses
  BY DEF Drop, Load, Closed, CutOff, Loses

\* The step under each action of the model; the others are named in Next.
Step ==
  \/ Opened \/ Drop \/ Load \/ Reconnect \/ Resolve
  \/ \E c \in pending, m \in Answers :
       /\ Settled(c, m)
       /\ \/ ToPrompt(c, m) \/ ToFailure(c, m) \/ ToCatalog(c, m)
          \/ \E n \in Calls : ToInitialize(c, n) \/ ToThread(c, m, n) \/ ToRefusal(c, m, n)
  \/ \E m \in Notices : Heard(m)
  \/ \E p \in Prompts : Send(p) \/ Attached(p) \/ Decide(p) \/ Begin(p) \/ End(p) \/ Approve(p)
  \/ \E c \in pending, m \in Answers :
       Gives(c, m) /\ (Plainly(c, m) \/ Resumes(c, m) \/ Starts(c, m) \/ Queues(c, m))

LEMMA NextSteps ==
  ASSUME Shape, Wire, Next
  PROVE  Step
  BY AnsweredSteps, ServeSteps, NotifiedSteps, Zenon DEF Next, Step

-------------------------------------------------------------------------------
(* Types *)

LEMMA InitShape == Init => Shape
<1> SUFFICES ASSUME Init PROVE Shape
  OBVIOUS
<1> USE DEF Init
<1>1. timer = (sock = "closed")
  OBVIOUS
<1> QED
  BY <1>1 DEF Shape, TypeOK

LEMMA ServerSays ==
  ASSUME Shape, NEW p \in Prompts, NEW kinds \in Seq(Kinds), Tells(p, kinds)
  PROVE  /\ toClient' \in Seq(Msgs)
         /\ Held(toClient) \subseteq Held(toClient')
         /\ Held(toClient') \subseteq Held(toClient) \cup Says(p, kinds)
         /\ loaded = home[p] => Says(p, kinds) \subseteq Held(toClient')
         /\ loaded # home[p] => toClient' = toClient
         /\ \A i \in DOMAIN toClient : i \in Nat /\ i \in DOMAIN toClient' /\ toClient'[i] = toClient[i]
         /\ \A i \in DOMAIN toClient' : \/ i \in DOMAIN toClient
                                        \/ loaded = home[p] /\ \E k \in DOMAIN kinds : i = Len(toClient) + k /\ toClient'[i] = Notice(kinds[k], p)
         /\ loaded = home[p] => \A k \in DOMAIN kinds :
              Len(toClient) + k \in DOMAIN toClient' /\ toClient'[Len(toClient) + k] = Notice(kinds[k], p)
              /\ \A i \in DOMAIN toClient : i < Len(toClient) + k
<1>1. CASE loaded = home[p]
  <2> DEFINE w == Words(p, kinds)  r == toClient'
  <2>1. r = toClient \o w /\ toClient \in Seq(Msgs)
    BY <1>1 DEF Tells, Shape, Words
  <2>2. w \in Seq(Msgs) /\ DOMAIN w = DOMAIN kinds /\ \A k \in DOMAIN kinds : w[k] = Notice(kinds[k], p)
    BY WordsSeq
  <2> HIDE DEF w, r
  <2>3. /\ r \in Seq(Msgs)
        /\ \A i \in DOMAIN toClient : i \in Nat /\ i \in DOMAIN r /\ r[i] = toClient[i]
        /\ \A i \in DOMAIN r : i \in DOMAIN toClient \/ (\E k \in DOMAIN kinds : i = Len(toClient) + k /\ r[i] = Notice(kinds[k], p))
        /\ \A k \in DOMAIN kinds : Len(toClient) + k \in DOMAIN r /\ r[Len(toClient) + k] = Notice(kinds[k], p)
                                    /\ \A i \in DOMAIN toClient : i < Len(toClient) + k
    BY <2>1, <2>2, Told
  <2>4. Held(r) \subseteq Held(toClient) \cup Says(p, kinds)
    BY <2>3 DEF Held, Says
  <2>5. Held(toClient) \subseteq Held(r)
    BY <2>3 DEF Held
  <2>6. Says(p, kinds) \subseteq Held(r)
    BY <2>3 DEF Held, Says
  <2> QED
    BY <1>1, <2>3, <2>4, <2>5, <2>6, Zenon DEF r
<1>2. CASE loaded # home[p]
  <2>1. toClient' = toClient /\ toClient \in Seq(Msgs)
    BY <1>2 DEF Tells, Shape
  <2>2. \A i \in DOMAIN toClient : i \in Nat
    BY <2>1
  <2> QED
    BY <1>2, <2>1, <2>2
<1> QED
  BY <1>1, <1>2

LEMMA ShapeStep ==
  ASSUME Shape, Wire, Step
  PROVE  Shape'
<1> USE DEF Shape, TypeOK
<1>1. CASE Opened
  BY <1>1 DEF Opened, Rpc, Calls, Stages, view, server
<1>2. CASE Drop
  <2>1. /\ sock' = "closed" /\ timer' = TRUE
        /\ pc' \in [Prompts -> {"idle", "attaching", "asked", "sent", "failed"}]
        /\ saved' \in Threads \cup {None} /\ UNCHANGED <<thread, cards, home>>
        /\ session' \in {"off", "establishing", "ready", "failed"}
        /\ items' \subseteq Items /\ local' \subseteq Prompts /\ snapshot' \subseteq Items
    BY <1>2 DEF Drop, Closed, Rejected, Ready
  <2> QED
    <3>1. timer' = (sock' = "closed")
      BY <2>1
    <3> QED
      BY <1>2, <2>1, <3>1, DropLoses DEF Loses
<1>3. CASE Load
  <2>1. /\ sock' = "connecting" /\ timer' = FALSE
        /\ pc' \in [Prompts -> {"idle", "attaching", "asked", "sent", "failed"}]
        /\ UNCHANGED <<saved, home>> /\ thread' = saved /\ session' = "off"
        /\ items' = {} /\ local' = {} /\ snapshot' = {} /\ cards' = {}
    BY <1>3 DEF Load
  <2> QED
    <3>1. timer' = (sock' = "closed")
      BY <2>1
    <3> QED
      BY <1>3, <2>1, <3>1, DropLoses DEF Loses
<1>4. CASE Reconnect
  BY <1>4 DEF Reconnect, view, wire, server
<1>5. CASE Resolve
  <2>1. PICK c \in toServer :
          /\ c.for = "decision" /\ toServer' = toServer \ {c}
          /\ \/ ask' = [ask EXCEPT ![c.on] = "settled"] /\ Tells(c.on, <<"resolved">>)
             \/ UNCHANGED <<ask, toClient>>
    BY <1>5 DEF Resolve
  <2>2. c.on \in Prompts
    BY <2>1, CallTypes DEF Stages
  <2>3. <<"resolved">> \in Seq(Kinds)
    BY DEF Kinds
  <2>4. toClient' \in Seq(Msgs) /\ ask' \in [Prompts -> {"none", "open", "settled"}]
    BY <2>1, <2>2, <2>3, ServerSays
  <2>5. UNCHANGED <<page, view, loaded, turn>>
    BY <1>5 DEF Resolve
  <2> QED
    BY <2>1, <2>4, <2>5, MsgTypes DEF page, view
<1>6. ASSUME NEW c \in pending, NEW m \in Answers, Settled(c, m), ToPrompt(c, m) \/ ToFailure(c, m) \/ ToCatalog(c, m)
      PROVE  Shape'
  <2>1. toClient' \in Seq(Msgs) /\ c \in Calls
    BY <1>6, Received DEF Settled
  <2> QED
    BY <1>6, <2>1, MsgTypes DEF Settled, ToPrompt, ToFailure, ToCatalog
<1>7. ASSUME NEW c \in pending, NEW m \in Answers, Settled(c, m), NEW n \in Calls,
             ToInitialize(c, n) \/ ToThread(c, m, n) \/ ToRefusal(c, m, n)
      PROVE  Shape'
  <2>1. toClient' \in Seq(Msgs) /\ c \in Calls
    BY <1>7, Received DEF Settled
  <2>2. m.thread \in Threads \cup {None} /\ m.items \subseteq Items
    BY CallTypes
  <2> QED
    BY <1>7, <2>1, <2>2, MsgTypes DEF Settled, ToInitialize, ToThread, ToRefusal, CallsNext
<1>8. ASSUME NEW m \in Notices, Heard(m) PROVE Shape'
  <2>1. toClient' \in Seq(Msgs) /\ m.turn \in Prompts
    BY <1>8, Received, CallTypes DEF Heard
  <2>2. m.kind \in {"asked", "replied"} => [turn |-> m.turn, what |-> m.kind] \in Items
    BY <2>1 DEF Items
  <2> QED
    BY <1>8, <2>1, <2>2, MsgTypes DEF Heard
<1>9. ASSUME NEW p \in Prompts, Send(p) PROVE Shape'
  BY <1>9 DEF Send, page, wire, server
<1>10. ASSUME NEW p \in Prompts, Attached(p) PROVE Shape'
  <2>1. [for |-> p, thread |-> home[p]] \in Calls
    BY DEF Calls
  <2> QED
    BY <1>10, <2>1 DEF Attached, Rpc, Settles, server
<1>11. ASSUME NEW p \in Prompts, Decide(p) PROVE Shape'
  BY <1>11 DEF Decide, Decisions, page, server
<1>12. ASSUME NEW p \in Prompts, Begin(p) \/ End(p) \/ Approve(p) PROVE Shape'
  <2>1. <<"started", "asked">> \in Seq(Kinds) /\ <<"replied", "completed">> \in Seq(Kinds) /\ <<"approve">> \in Seq(Kinds)
    BY DEF Kinds
  <2>2. toClient' \in Seq(Msgs)
    BY <1>12, <2>1, ServerSays DEF Begin, End, Approve
  <2> QED
    BY <1>12, <2>2, MsgTypes DEF Begin, End, Approve, page, view
<1>13. ASSUME NEW c \in pending, NEW m \in Answers, Gives(c, m),
              Plainly(c, m) \/ Resumes(c, m) \/ Starts(c, m) \/ Queues(c, m)
       PROVE  Shape'
  <2>1. toClient' \in Seq(Msgs) /\ c \in Calls
    BY <1>13, Given DEF Gives, Msgs
  <2>2. loaded' \in Threads \cup {None} /\ turn' \in [Prompts -> {"none", "queued", "running", "done"}]
    BY <1>13, <2>1, CallTypes DEF Plainly, Resumes, Starts, Queues, Fresh
  <2> QED
    BY <1>13, <2>1, <2>2, MsgTypes DEF Gives, page, view
<1> QED
  BY <1>1, <1>2, <1>3, <1>4, <1>5, <1>6, <1>7, <1>8, <1>9, <1>10, <1>11, <1>12, <1>13 DEF Step
-------------------------------------------------------------------------------
(* Calls and answers *)

LEMMA InitWire == Init => Wire /\ Sends
<1> SUFFICES ASSUME Init PROVE Wire /\ Sends
  OBVIOUS
<1> USE DEF Init
<1>1. Held(toClient) = {} /\ DOMAIN toClient = {}
  BY DEF Held
<1> QED
  BY <1>1 DEF Wire, OpenOnly, OneCall, CallsWaited, AnswersWaited, AnsweredOnce, CallsGo, Sends

\* What stays under way after the answer to c has been taken.
LEMMA SettledWire ==
  ASSUME Shape, Wire, NEW c \in pending, NEW m \in Answers, Settled(c, m)
  PROVE  /\ sock = "open" /\ AnsweredOnce' /\ c \in Calls
         /\ \A r \in Held(toClient') : r \in Held(toClient) /\ r # m
              /\ (r.kind = "answer" => r.for # c.for /\ \E d \in pending \ toServer : d # c /\ d.for = r.for)
         /\ \A d \in pending : d # c => d.for # c.for
              /\ (d \in toServer \/ \E r \in Held(toClient') : r.kind = "answer" /\ r.for = d.for)
<1>1. toClient \in Seq(Msgs) /\ toClient # <<>> /\ toClient' = Tail(toClient) /\ m = toClient[1] /\ 1 \in DOMAIN toClient
  BY Received DEF Settled, Shape
<1>2. m.kind = "answer" /\ m.for = c.for /\ c \notin toServer
  BY CallTypes DEF Settled
<1>3. sock = "open" /\ c \in Calls
  BY <1>1 DEF Wire, OpenOnly, Shape, TypeOK
<1>4. /\ \A i \in DOMAIN toClient' : i \in Nat /\ i # 0 /\ i + 1 \in DOMAIN toClient /\ toClient'[i] = toClient[i + 1]
      /\ Held(toClient') \subseteq Held(toClient) /\ Held(toClient) \subseteq Held(toClient') \cup {m}
  <2>1. \A i \in DOMAIN Tail(toClient) : i # 0
    BY <1>1
  <2> QED
    BY <1>1, <2>1, Received
<1>5. AnsweredOnce'
  <2> SUFFICES ASSUME NEW i \in DOMAIN toClient', NEW j \in DOMAIN toClient',
                      toClient'[i].kind = "answer", toClient'[j].kind = "answer", toClient'[i].for = toClient'[j].for
               PROVE  i = j
    BY DEF AnsweredOnce
  <2>1. i + 1 = j + 1
    BY <1>4 DEF Wire, AnswersWaited, AnsweredOnce
  <2> QED
    BY <1>4, <2>1
<1>6. ASSUME NEW r \in Held(toClient'), r.kind = "answer" PROVE r.for # c.for
  <2>1. PICK i \in DOMAIN toClient' : r = toClient'[i]
    BY DEF Held
  <2>2. i + 1 \in DOMAIN toClient /\ r = toClient[i + 1] /\ i + 1 # 1
    BY <1>4, <2>1
  <2> QED
    BY <1>1, <1>2, <1>6, <2>2 DEF Wire, AnswersWaited, AnsweredOnce
<1>7. ASSUME NEW r \in Held(toClient'), r.kind = "answer"
      PROVE  \E d \in pending \ toServer : d # c /\ d.for = r.for
  BY <1>4, <1>6, <1>7 DEF Wire, AnswersWaited
<1>8. ASSUME NEW d \in pending, d # c
      PROVE  d.for # c.for /\ (d \in toServer \/ \E r \in Held(toClient') : r.kind = "answer" /\ r.for = d.for)
  <2>1. d.for # c.for
    BY <1>8 DEF Wire, OneCall
  <2> QED
    BY <1>2, <1>4, <2>1 DEF Wire, CallsGo
<1>9. ASSUME NEW r \in Held(toClient') PROVE r # m
  BY <1>2, <1>6
<1> QED
  BY <1>3, <1>4, <1>5, <1>6, <1>7, <1>8, <1>9

\* A notice sent or received leaves the answers as they are.
LEMMA NoticeWire ==
  ASSUME Shape, Wire, pending' = pending, toServer' \cap Calls = toServer \cap Calls, toServer' \subseteq Calls \cup Decisions,
         \A r \in Held(toClient) : r.kind = "answer" => r \in Held(toClient'),
         \A r \in Held(toClient') : r.kind = "answer" => r \in Held(toClient),
         AnsweredOnce'
  PROVE  AnswersWaited' /\ CallsGo' /\ OneCall' /\ (toServer \ Decisions)' \subseteq pending'
<1>1. pending \subseteq Calls /\ toServer \subseteq Calls \cup Decisions /\ Calls \cap Decisions = {}
  BY CallTypes DEF Shape, TypeOK
<1>2. OneCall' /\ CallsGo'
  BY <1>1 DEF Wire, OneCall, CallsGo
<1>3. AnswersWaited'
  BY <1>1 DEF Wire, AnswersWaited
<1>4. (toServer \ Decisions)' \subseteq pending'
  BY <1>1 DEF Wire, CallsWaited, Decisions, Decision
<1> QED
  BY <1>2, <1>3, <1>4

LEMMA SaysOnce ==
  ASSUME Shape, Wire, NEW p \in Prompts, NEW kinds \in Seq(Kinds), Tells(p, kinds)
  PROVE  /\ AnsweredOnce'
         /\ \A r \in Held(toClient) : r \in Held(toClient')
         /\ \A r \in Held(toClient') : r.kind = "answer" => r \in Held(toClient)
<1>1. \A k \in DOMAIN kinds : kinds[k] \in Kinds /\ Notice(kinds[k], p).kind = kinds[k] /\ kinds[k] # "answer"
  <2>1. \A k \in DOMAIN kinds : kinds[k] \in Kinds
    OBVIOUS
  <2> QED
    BY <2>1 DEF Kinds, Notice
<1>2. \A r \in Says(p, kinds) : r.kind # "answer"
  BY <1>1 DEF Says
<1>3. \A i \in DOMAIN toClient' : toClient'[i].kind = "answer" => i \in DOMAIN toClient /\ toClient'[i] = toClient[i]
  <2> SUFFICES ASSUME NEW i \in DOMAIN toClient', toClient'[i].kind = "answer"
               PROVE  i \in DOMAIN toClient /\ toClient'[i] = toClient[i]
    OBVIOUS
  <2>1. \A k \in DOMAIN kinds : toClient'[i] # Notice(kinds[k], p)
    BY <1>1
  <2>2. i \in DOMAIN toClient
    BY <2>1, ServerSays
  <2> QED
    BY <2>2, ServerSays
<1>4. AnsweredOnce'
  BY <1>3 DEF AnsweredOnce, Wire, AnswersWaited
<1> QED
  BY <1>2, <1>4, ServerSays

LEMMA WireStep ==
  ASSUME Shape, Wire, Sends, Shape', Step
  PROVE  Wire' /\ Sends'
<1> USE DEF Shape, TypeOK
<1>1. CASE Opened
  <2>1. /\ pending' = {[for |-> "initialize", thread |-> None]} /\ toServer' = pending' /\ sock' = "open"
        /\ UNCHANGED <<toClient, turn, home, pc>> /\ toClient = <<>>
    BY <1>1 DEF Opened, Rpc, Wire, OpenOnly, view, server
  <2>2. Held(toClient') = {} /\ DOMAIN toClient' = {}
    BY <2>1 DEF Held
  <2>3. "initialize" \notin Prompts
    BY CallTypes DEF Stages
  <2>4. OpenOnly' /\ OneCall' /\ CallsWaited'
    BY <2>1, <2>3 DEF OpenOnly, OneCall, CallsWaited
  <2>5. AnswersWaited' /\ CallsGo' /\ Sends'
    BY <2>1, <2>2, <2>3 DEF AnswersWaited, AnsweredOnce, CallsGo, Sends
  <2> QED
    BY <2>4, <2>5 DEF Wire
<1>2. CASE Drop \/ Load
  <2>1. Loses
    BY <1>2, DropLoses
  <2>2. Held(toClient') = {} /\ DOMAIN toClient' = {}
    BY <2>1 DEF Held, Loses
  <2>3. \A p \in Prompts : /\ pc'[p] \in {"idle", "attaching"} => pc[p] \in {"idle", "attaching"}
                           /\ pc'[p] # "idle" => pc[p] # "idle"
    <3>1. \A p \in Prompts : Waits(p) => pc[p] = "asked"
      BY DEF Waits, Wire, CallsWaited
    <3>2. CASE Drop
      BY <3>1, <3>2 DEF Drop, Closed, Rejected
    <3>3. CASE Load
      BY <3>3 DEF Load
    <3> QED
      BY <1>2, <3>2, <3>3
  <2>4. Wire'
    BY <2>1, <2>2 DEF Wire, OpenOnly, OneCall, CallsWaited, AnswersWaited, AnsweredOnce, CallsGo, Loses
  <2> QED
    BY <2>1, <2>3, <2>4 DEF Sends, Loses
<1>3. CASE Reconnect
  <2>1. UNCHANGED <<pending, toServer, toClient, loaded, active, pc, home, turn>> /\ sock # "open"
    BY <1>3 DEF Reconnect, view, wire, server
  <2> QED
    BY <2>1 DEF Wire, OpenOnly, OneCall, CallsWaited, AnswersWaited, AnsweredOnce, CallsGo, Sends
<1>4. CASE Resolve
  <2>1. PICK c \in toServer :
          /\ c.for = "decision" /\ toServer' = toServer \ {c}
          /\ Tells(c.on, <<"resolved">>) \/ UNCHANGED toClient
    BY <1>4 DEF Resolve
  <2>2. UNCHANGED <<sock, pending, loaded, active, pc, home, turn>> /\ sock = "open"
    BY <1>4, <2>1 DEF Resolve, page, view, Wire, OpenOnly
  <2>3. c.on \in Prompts /\ c \notin Calls
    BY <2>1, CallTypes DEF Stages
  <2>4. <<"resolved">> \in Seq(Kinds)
    BY DEF Kinds
  <2>5. /\ AnsweredOnce' /\ \A r \in Held(toClient) : r \in Held(toClient')
        /\ \A r \in Held(toClient') : r.kind = "answer" => r \in Held(toClient)
    <3>1. CASE Tells(c.on, <<"resolved">>)
      BY <2>3, <2>4, <3>1, SaysOnce
    <3>2. CASE UNCHANGED toClient
      BY <3>2 DEF Wire, AnswersWaited, AnsweredOnce
    <3> QED
      BY <2>1, <3>1, <3>2
  <2>6. AnswersWaited' /\ CallsGo' /\ OneCall' /\ (toServer \ Decisions)' \subseteq pending'
    BY <2>1, <2>2, <2>3, <2>5, NoticeWire
  <2>7. OpenOnly' /\ CallsWaited' /\ Sends'
    BY <2>1, <2>2, <2>6 DEF OpenOnly, Wire, CallsWaited, Sends
  <2> QED
    BY <2>6, <2>7 DEF Wire
<1>5. ASSUME NEW c \in pending, NEW m \in Answers, Settled(c, m), ToPrompt(c, m) \/ ToFailure(c, m) \/ ToCatalog(c, m)
      PROVE  Wire' /\ Sends'
  <2>1. /\ sock' = "open" /\ pending' = pending \ {c} /\ UNCHANGED <<toServer, home, turn>> /\ c \notin toServer
        /\ \A p \in Prompts : /\ p # c.for => pc'[p] = pc[p]
                              /\ p = c.for => pc'[p] \in {pc[p], "sent", "failed"} /\ pc[p] = "asked"
    BY <1>5, SettledWire DEF Settled, ToPrompt, ToFailure, ToCatalog, Wire, CallsWaited
  <2>2. OpenOnly' /\ OneCall' /\ CallsWaited'
    BY <1>5, <2>1, SettledWire DEF OpenOnly, OneCall, CallsWaited, Wire
  <2>3. AnswersWaited' /\ CallsGo'
    BY <1>5, <2>1, SettledWire DEF AnswersWaited, CallsGo
  <2>4. Sends'
    BY <2>1 DEF Sends
  <2> QED
    BY <2>2, <2>3, <2>4 DEF Wire
<1>6. ASSUME NEW c \in pending, NEW m \in Answers, Settled(c, m), NEW n \in Calls,
             ToInitialize(c, n) \/ ToThread(c, m, n) \/ ToRefusal(c, m, n)
      PROVE  Wire' /\ Sends'
  <2>1. /\ sock' = "open" /\ pending' = (pending \ {c}) \cup {n} /\ toServer' = toServer \cup {n}
        /\ UNCHANGED <<home, turn, pc>> /\ c \notin toServer /\ c.for \in Stages /\ n.for \in Stages
    BY <1>6, SettledWire DEF Settled, ToInitialize, ToThread, ToRefusal, CallsNext, Stages
  <2>2. n.for \notin Prompts
    BY <2>1, CallTypes
  <2>3. \A d \in pending : d # c => d.for \notin Stages
    BY <2>1 DEF Wire, OneCall
  <2>4. OpenOnly' /\ OneCall'
    BY <2>1, <2>3 DEF OpenOnly, OneCall, Wire
  <2>5. CallsWaited'
    BY <2>1, <2>2 DEF CallsWaited, Wire
  <2>6. AnswersWaited'
    <3> SUFFICES ASSUME NEW r \in Held(toClient'), r.kind = "answer"
                 PROVE  \E d \in pending' \ toServer' : d.for = r.for
      BY <1>6, SettledWire DEF AnswersWaited
    <3>1. PICK d \in pending \ toServer : d # c /\ d.for = r.for
      BY <1>6, SettledWire
    <3> QED
      BY <2>1, <2>3, <3>1
  <2>7. CallsGo'
    BY <1>6, <2>1, SettledWire DEF CallsGo
  <2>8. Sends'
    BY <2>1, <2>2 DEF Sends
  <2> QED
    BY <2>4, <2>5, <2>6, <2>7, <2>8 DEF Wire
<1>7. ASSUME NEW m \in Notices, Heard(m) PROVE Wire' /\ Sends'
  <2>1. /\ UNCHANGED <<sock, pending, toServer, loaded, pc, home, turn>> /\ sock = "open"
        /\ toClient \in Seq(Msgs) /\ toClient # <<>> /\ m = Head(toClient) /\ toClient' = Tail(toClient)
    BY <1>7 DEF Heard, Wire, OpenOnly
  <2>2. m.kind # "answer"
    BY CallTypes
  <2>3. /\ \A i \in DOMAIN toClient' : i \in Nat /\ i + 1 \in DOMAIN toClient /\ toClient'[i] = toClient[i + 1]
        /\ Held(toClient') \subseteq Held(toClient) /\ Held(toClient) \subseteq Held(toClient') \cup {m}
    BY <2>1, Received
  <2>4. AnsweredOnce'
    <3> SUFFICES ASSUME NEW i \in DOMAIN toClient', NEW j \in DOMAIN toClient',
                        toClient'[i].kind = "answer", toClient'[j].kind = "answer", toClient'[i].for = toClient'[j].for
                 PROVE  i = j
      BY DEF AnsweredOnce
    <3>1. i + 1 = j + 1
      BY <2>3 DEF Wire, AnswersWaited, AnsweredOnce
    <3> QED
      BY <2>3, <3>1
  <2>5. AnswersWaited' /\ CallsGo' /\ OneCall' /\ (toServer \ Decisions)' \subseteq pending'
    BY <2>1, <2>2, <2>3, <2>4, NoticeWire
  <2> QED
    BY <2>1, <2>5 DEF OpenOnly, Wire, CallsWaited, Sends
<1>8. ASSUME NEW p \in Prompts, Send(p) PROVE Wire' /\ Sends'
  <2>1. /\ UNCHANGED <<sock, pending, toServer, toClient, loaded, active, turn>> /\ pc[p] = "idle" /\ thread \in Threads
        /\ pc' = [pc EXCEPT ![p] = "attaching"] /\ home' = [home EXCEPT ![p] = thread]
    BY <1>8 DEF Send, page, wire, server
  <2>2. \A c \in pending : c.for \in Prompts => c.for # p
    BY <2>1 DEF Wire, CallsWaited
  <2> QED
    BY <2>1, <2>2 DEF Wire, OpenOnly, OneCall, CallsWaited, AnswersWaited, AnsweredOnce, CallsGo, Sends
<1>9. ASSUME NEW p \in Prompts, Attached(p) PROVE Wire' /\ Sends'
  <2>1. /\ UNCHANGED <<sock, toClient, loaded, active, turn, home>> /\ pc[p] = "attaching"
        /\ \A q \in Prompts : q # p => pc'[q] = pc[q]
    BY <1>9 DEF Attached, server
  <2>2. \A c \in pending : c.for # p
    BY <2>1 DEF Wire, CallsWaited
  <2>3. CASE sock # "open" /\ pc' = [pc EXCEPT ![p] = "failed"] /\ UNCHANGED <<pending, toServer>>
    <3>1. Wire'
      BY <2>1, <2>2, <2>3 DEF Wire, OpenOnly, OneCall, CallsWaited, AnswersWaited, AnsweredOnce, CallsGo
    <3> QED
      BY <2>1, <2>3, <3>1 DEF Sends
  <2>4. CASE sock = "open" /\ pc' = [pc EXCEPT ![p] = "asked"] /\ Rpc(p, home[p], pending)
    <3> DEFINE n == [for |-> p, thread |-> home[p]]
    <3>1. pending' = pending \cup {n} /\ toServer' = toServer \cup {n} /\ n.for = p /\ n.thread = home[p]
      BY <2>4 DEF Rpc
    <3> HIDE DEF n
    <3>2. p \notin Stages
      BY CallTypes
    <3>3. OpenOnly' /\ OneCall' /\ CallsWaited'
      BY <2>1, <2>2, <2>4, <3>1, <3>2 DEF Wire, OpenOnly, OneCall, CallsWaited
    <3>4. AnswersWaited'
      <4>1. \A d \in pending \ toServer : d \in pending' \ toServer'
        BY <2>2, <3>1
      <4> QED
        BY <2>1, <4>1 DEF Wire, AnswersWaited, AnsweredOnce
    <3>5. CallsGo'
      BY <2>1, <3>1 DEF Wire, CallsGo
    <3>6. Sends'
      BY <2>1, <2>4, <3>1 DEF Sends
    <3> QED
      BY <3>3, <3>4, <3>5, <3>6 DEF Wire
  <2> QED
    BY <1>9, <2>3, <2>4 DEF Attached, Settles
<1>10. ASSUME NEW p \in Prompts, Decide(p) PROVE Wire' /\ Sends'
  <2>1. /\ UNCHANGED <<sock, pending, toClient, loaded, active, pc, home, turn>>
        /\ toServer' = IF sock = "open" THEN toServer \cup {Decision(p)} ELSE toServer
    BY <1>10 DEF Decide, page, server
  <2>2. Decision(p) \in Decisions /\ Decision(p) \notin Calls /\ Decision(p).for \notin Prompts
    BY CallTypes DEF Decisions
  <2>3. AnswersWaited' /\ CallsGo' /\ OneCall' /\ (toServer \ Decisions)' \subseteq pending'
    BY <2>1, <2>2, NoticeWire DEF Wire, AnswersWaited, AnsweredOnce
  <2> QED
    BY <2>1, <2>2, <2>3 DEF OpenOnly, Wire, CallsWaited, Sends
<1>11. ASSUME NEW p \in Prompts, Begin(p) \/ End(p) \/ Approve(p) PROVE Wire' /\ Sends'
  <2>1. <<"started", "asked">> \in Seq(Kinds) /\ <<"replied", "completed">> \in Seq(Kinds) /\ <<"approve">> \in Seq(Kinds)
    BY DEF Kinds
  <2>2. PICK kinds \in Seq(Kinds) : Tells(p, kinds)
    BY <1>11, <2>1 DEF Begin, End, Approve
  <2>3. /\ UNCHANGED <<sock, pending, toServer, loaded, active, pc, home>> /\ turn[p] # "none"
        /\ \A q \in Prompts : q # p => turn'[q] = turn[q]
    BY <1>11 DEF Begin, End, Approve, page, view
  <2>4. home[p] \in Threads /\ (sock # "open" => home[p] # loaded)
    BY <2>3, CodexAssumption DEF Sends, Wire, OpenOnly, CodexAssumption
  <2>5. AnswersWaited' /\ CallsGo' /\ OneCall' /\ (toServer \ Decisions)' \subseteq pending'
    BY <2>2, <2>3, NoticeWire, SaysOnce
  <2>6. OpenOnly'
    BY <2>2, <2>3, <2>4 DEF OpenOnly, Wire, Tells
  <2>7. CallsWaited' /\ Sends'
    BY <2>3, <2>5 DEF CallsWaited, Wire, Sends
  <2> QED
    BY <2>5, <2>6, <2>7 DEF Wire
<1>12. ASSUME NEW c \in pending, NEW m \in Answers, Gives(c, m),
              Plainly(c, m) \/ Resumes(c, m) \/ Starts(c, m) \/ Queues(c, m)
       PROVE  Wire' /\ Sends'
  <2>1. /\ UNCHANGED <<sock, pending, active, pc, home>> /\ c \in toServer /\ toServer' = toServer \ {c}
        /\ m.for = c.for /\ toClient' = Append(toClient, m) /\ sock = "open"
    BY <1>12 DEF Gives, page, view, Wire, OpenOnly
  <2>2. m.kind = "answer" /\ m \in Msgs /\ toClient \in Seq(Msgs) /\ c \in Calls /\ c \notin Decisions
    BY CallTypes DEF Msgs
  <2>3. \A r \in Held(toClient) : r.kind = "answer" => r.for # c.for
    BY <2>1 DEF Wire, AnswersWaited, OneCall
  <2>4. /\ Held(toClient') = Held(toClient) \cup {m}
        /\ \A i \in DOMAIN toClient : toClient'[i] = toClient[i] /\ toClient[i] \in Held(toClient)
        /\ toClient'[Len(toClient) + 1] = m
        /\ \A i \in DOMAIN toClient' : i \in DOMAIN toClient \/ i = Len(toClient) + 1
    BY <2>1, <2>2, Given DEF Held
  <2>5. AnsweredOnce'
    BY <2>1, <2>2, <2>3, <2>4 DEF AnsweredOnce, Wire, AnswersWaited
  <2>6. AnswersWaited' /\ CallsGo'
    BY <2>1, <2>2, <2>4, <2>5 DEF Wire, AnswersWaited, CallsGo
  <2>7. OpenOnly' /\ OneCall' /\ CallsWaited'
    BY <2>1 DEF OpenOnly, OneCall, CallsWaited, Wire
  <2>8. Sends'
    <3>1. \A p \in Prompts : turn'[p] = turn[p] \/ p = c.for
      BY <1>12 DEF Plainly, Resumes, Starts, Queues
    <3>2. \A d \in toServer' : d.for \in Prompts => d.for # c.for
      BY <2>1, CallTypes DEF Wire, CallsWaited, OneCall
    <3>3. c.for \in Prompts => pc[c.for] = "asked"
      BY DEF Wire, CallsWaited
    <3> QED
      BY <2>1, <3>1, <3>2, <3>3 DEF Sends
  <2> QED
    BY <2>6, <2>7, <2>8 DEF Wire
<1> QED
  BY <1>1, <1>2, <1>3, <1>4, <1>5, <1>6, <1>7, <1>8, <1>9, <1>10, <1>11, <1>12 DEF Step

-------------------------------------------------------------------------------
(* Approvals *)

LEMMA NoticesDiffer ==
  /\ \A k, p, l, q : Notice(k, p) = Notice(l, q) <=> k = l /\ p = q
  /\ \A k, p : Notice(k, p).kind = k /\ Notice(k, p).turn = p
  /\ \A k \in Kinds, p \in Prompts, m \in Answers : Notice(k, p) # m
  /\ \A p, q : Decision(p) = Decision(q) <=> p = q
<1>1. \A k, p : Notice(k, p).kind = k /\ Notice(k, p).turn = p
  BY DEF Notice
<1>2. \A k, p, l, q : Notice(k, p) = Notice(l, q) <=> k = l /\ p = q
  BY DEF Notice
<1>3. \A k \in Kinds, p \in Prompts, m \in Answers : Notice(k, p) # m
  BY <1>1, CallTypes DEF Kinds
<1>4. \A p, q : Decision(p) = Decision(q) <=> p = q
  BY DEF Decision
<1> QED
  BY <1>1, <1>2, <1>3, <1>4

\* What is said of p: one or two notices.
LEMMA Sayings ==
  ASSUME NEW p, NEW k \in Kinds, NEW l \in Kinds
  PROVE  /\ <<k>> \in Seq(Kinds) /\ <<k, l>> \in Seq(Kinds)
         /\ Says(p, <<k>>) = {Notice(k, p)} /\ Says(p, <<k, l>>) = {Notice(k, p), Notice(l, p)}
  BY DEF Says

LEMMA InitApprovals == Init => Approvals
<1>1. Init => \A p \in Prompts : ask[p] # "open" /\ Notice("resolved", p) \notin Held(toClient)
  BY DEF Init, Held
<1> QED
  BY <1>1 DEF Approvals

LEMMA ApprovalsStep ==
  ASSUME Shape, Wire, Sends, Approvals, Step
  PROVE  Approvals'
<1> USE DEF Shape, TypeOK
<1> DEFINE Kept(p) == Notice("approve", p) \in Held(toClient) => Notice("approve", p) \in Held(toClient')
           NotNew(p) == Notice("resolved", p) \in Held(toClient') => Notice("resolved", p) \in Held(toClient)
<1>k. {"approve", "resolved"} \subseteq Kinds
  BY DEF Kinds
<1>1. CASE Opened
  BY <1>1 DEF Opened, Approvals, view, server
<1>2. CASE Drop \/ Load
  <2>1. \A p \in Prompts : ask'[p] # "open" /\ Notice("resolved", p) \notin Held(toClient')
    BY <1>2, DropLoses DEF Loses, Held
  <2> QED
    BY <2>1 DEF Approvals
<1>3. CASE Reconnect
  <2>1. sock = "closed" /\ UNCHANGED <<ask, cards, toServer, toClient>>
    BY <1>3 DEF Reconnect, view, wire, server
  <2> QED
    BY <2>1 DEF Approvals
<1>4. CASE Resolve
  <2>1. PICK c \in toServer :
          /\ c.for = "decision" /\ toServer' = toServer \ {c}
          /\ \/ ask' = [ask EXCEPT ![c.on] = "settled"] /\ Tells(c.on, <<"resolved">>)
             \/ ask[c.on] # "open" /\ UNCHANGED <<ask, toClient>>
    BY <1>4 DEF Resolve
  <2>2. UNCHANGED <<sock, cards>> /\ c.on \in Prompts /\ c = Decision(c.on)
    BY <1>4, <2>1, CallTypes DEF Resolve, page, view, Stages
  <2>3. \A p \in Prompts : Kept(p) /\ (p # c.on => NotNew(p))
    <3>1. CASE Tells(c.on, <<"resolved">>)
      <4>1. /\ Held(toClient) \subseteq Held(toClient')
            /\ Held(toClient') \subseteq Held(toClient) \cup {Notice("resolved", c.on)}
        BY <1>k, <2>2, <3>1, ServerSays, Sayings
      <4> QED
        BY <4>1, NoticesDiffer
    <3> QED
      BY <2>1, <3>1
  <2>4. \A p \in Prompts : /\ p # c.on => ask'[p] = ask[p]
                           /\ ask'[c.on] # "open"
                           /\ ask[c.on] = "settled" => ask'[c.on] = "settled"
    BY <2>1, <2>2
  <2>5. NotNew(c.on) \/ ask'[c.on] = "settled"
    BY <2>1, <2>2
  <2> QED
    BY <2>1, <2>2, <2>3, <2>4, <2>5, NoticesDiffer DEF Approvals
<1>5. ASSUME NEW c \in pending, NEW m \in Answers, Settled(c, m),
             \/ ToPrompt(c, m) \/ ToFailure(c, m) \/ ToCatalog(c, m)
             \/ \E n \in Calls : ToInitialize(c, n) \/ ToThread(c, m, n) \/ ToRefusal(c, m, n)
      PROVE  Approvals'
  <2>1. UNCHANGED <<sock, ask, cards>> /\ toServer \subseteq toServer'
    BY <1>5 DEF Settled, ToPrompt, ToFailure, ToCatalog, ToInitialize, ToThread, ToRefusal, CallsNext
  <2>2. \A p \in Prompts : Kept(p) /\ NotNew(p)
    <3>1. Held(toClient') \subseteq Held(toClient) /\ Held(toClient) \subseteq Held(toClient') \cup {m}
      BY <1>5, Received DEF Settled
    <3>2. \A p \in Prompts : Notice("approve", p) # m
      BY <1>k, NoticesDiffer
    <3> QED
      BY <3>1, <3>2
  <2> QED
    BY <2>1, <2>2 DEF Approvals
<1>6. ASSUME NEW m \in Notices, Heard(m) PROVE Approvals'
  <2>1. UNCHANGED <<sock, ask, toServer>> /\ m = Notice(m.kind, m.turn) /\ m.turn \in Prompts /\ m \in Held(toClient)
    BY <1>6, Received, CallTypes DEF Heard
  <2>2. \A p \in Prompts : NotNew(p) /\ (m # Notice("approve", p) => Kept(p))
    BY <1>6, Received DEF Heard
  <2>3. \A p \in cards : p \in cards' \/ m = Notice("resolved", p)
    BY <1>6, <2>1 DEF Heard
  <2>4. \A p \in Prompts : m = Notice("approve", p) => p \in cards'
    BY <1>6, <2>1, NoticesDiffer DEF Heard
  <2> QED
    BY <2>1, <2>2, <2>3, <2>4 DEF Approvals
<1>7. ASSUME NEW p \in Prompts, Send(p) \/ Attached(p) PROVE Approvals'
  <2>1. UNCHANGED <<sock, ask, cards, toClient>> /\ toServer \subseteq toServer'
    BY <1>7 DEF Send, Attached, page, wire, server, Rpc, Settles
  <2> QED
    BY <2>1 DEF Approvals
<1>8. ASSUME NEW p \in Prompts, Decide(p) PROVE Approvals'
  <2>1. /\ UNCHANGED <<sock, ask, toClient>> /\ cards' = cards \ {p} /\ toServer \subseteq toServer'
        /\ sock = "open" => Decision(p) \in toServer'
    BY <1>8 DEF Decide, page, server
  <2> QED
    BY <2>1 DEF Approvals
<1>9. ASSUME NEW p \in Prompts, Begin(p) \/ End(p) PROVE Approvals'
  <2>1. UNCHANGED <<sock, ask, cards, toServer>>
    BY <1>9 DEF Begin, End, page, view
  <2>2. PICK k \in Kinds, l \in Kinds : Tells(p, <<k, l>>) /\ k # "resolved" /\ l # "resolved"
    BY <1>9 DEF Begin, End, Kinds
  <2>3. \A q \in Prompts : Kept(q) /\ NotNew(q)
    <3>1. /\ Held(toClient) \subseteq Held(toClient')
          /\ Held(toClient') \subseteq Held(toClient) \cup {Notice(k, p), Notice(l, p)}
      <4>1. <<k, l>> \in Seq(Kinds) /\ Says(p, <<k, l>>) = {Notice(k, p), Notice(l, p)}
        BY Sayings
      <4> QED
        BY <2>2, <4>1, ServerSays
    <3>2. \A q \in Prompts : Notice("resolved", q) \notin {Notice(k, p), Notice(l, p)}
      BY <2>2, NoticesDiffer
    <3> QED
      BY <3>1, <3>2
  <2> QED
    BY <2>1, <2>3 DEF Approvals
<1>10. ASSUME NEW p \in Prompts, Approve(p) PROVE Approvals'
  <2>1. /\ UNCHANGED <<sock, cards, toServer>> /\ ask' = [ask EXCEPT ![p] = "open"] /\ ask[p] = "none"
        /\ loaded = home[p] /\ turn[p] # "none" /\ Tells(p, <<"approve">>)
    BY <1>10 DEF Approve, page, view
  <2>2. sock = "open"
    BY <2>1, CodexAssumption DEF Sends, Wire, OpenOnly, CodexAssumption
  <2>3. Notice("approve", p) \in Held(toClient') /\ \A q \in Prompts : Kept(q) /\ NotNew(q)
    <3>1. /\ Held(toClient) \subseteq Held(toClient') /\ Notice("approve", p) \in Held(toClient')
          /\ Held(toClient') \subseteq Held(toClient) \cup {Notice("approve", p)}
      <4>1. <<"approve">> \in Seq(Kinds) /\ Says(p, <<"approve">>) = {Notice("approve", p)}
        BY <1>k, Sayings
      <4> QED
        BY <2>1, <4>1, ServerSays
    <3>2. \A q \in Prompts : Notice("resolved", q) # Notice("approve", p)
      BY NoticesDiffer
    <3> QED
      BY <3>1, <3>2
  <2> QED
    BY <2>1, <2>2, <2>3 DEF Approvals
<1>11. ASSUME NEW c \in pending, NEW m \in Answers, Gives(c, m) PROVE Approvals'
  <2>1. UNCHANGED <<sock, ask, cards>> /\ toServer' = toServer \ {c} /\ c \notin Decisions
    BY <1>11, CallTypes DEF Gives, page, view
  <2>2. Held(toClient') = Held(toClient) \cup {m}
    BY <1>11, Given DEF Gives, Msgs
  <2> QED
    <3>1. \A p \in Prompts : Notice("approve", p) # m /\ Notice("resolved", p) # m /\ Decision(p) # c
      BY <1>k, <2>1, NoticesDiffer DEF Decisions
    <3> QED
      BY <2>1, <2>2, <3>1 DEF Approvals
<1> QED
  BY <1>1, <1>2, <1>3, <1>4, <1>5, <1>6, <1>7, <1>8, <1>9, <1>10, <1>11 DEF Step

-------------------------------------------------------------------------------
(* establishSession *)

\* While one of its calls waits, no other call or answer of it is about.
LEMMA OneStage ==
  ASSUME Shape, Wire, NEW c \in pending, c.for \in Stages
  PROVE  /\ \A d \in pending : d # c => d.for \notin Stages
         /\ \A r \in Held(toClient) : r.kind = "answer" /\ r.for \in Stages => r.for = c.for /\ c \notin toServer
  BY DEF Wire, OneCall, AnswersWaited

LEMMA NoTurnNoThread ==
  ASSUME Shape, Sends, NEW t, HasTurn(t)
  PROVE  t \in Threads /\ t # None
  BY CodexAssumption DEF HasTurn, Sends, CodexAssumption, Shape

LEMMA InitSession == Init => Session
<1> SUFFICES ASSUME Init PROVE Session
  OBVIOUS
<1>1. Held(toClient) = {}
  BY DEF Held, Init
<1> QED
  BY <1>1 DEF Init, Session, Live

LEMMA SessionStep ==
  ASSUME Shape, Wire, Sends, Session, Step
  PROVE  Session'
<1> USE DEF Shape, TypeOK
<1>s. {"initialize", "resume", "start", "catalog"} = Stages /\ \A p \in Prompts : p \notin Stages
  BY CallTypes DEF Stages
<1>1. CASE Opened
  <2>1. /\ UNCHANGED <<saved, thread, loaded, toClient>> /\ session' = "establishing" /\ sock # "open"
        /\ pending' = {[for |-> "initialize", thread |-> None]}
    BY <1>1 DEF Opened, Rpc, view, server
  <2>2. loaded = None /\ Held(toClient') = {}
    BY <2>1 DEF Wire, OpenOnly, Held
  <2> QED
    BY <2>1, <2>2 DEF Session, Called, Live
<1>2. CASE Drop \/ Load
  <2>1. saved' \in {None, thread'}
    BY <1>2 DEF Drop, Load, Closed, Rejected, Session
  <2>2. Held(toClient') = {} /\ pending' = {} /\ ~Live'
    BY <1>2, DropLoses DEF Loses, Held, Live
  <2> QED
    BY <2>1, <2>2 DEF Session
<1>3. CASE Reconnect
  <2>1. /\ UNCHANGED <<saved, thread, pending, toClient>> /\ sock = "closed" /\ ~Live'
    BY <1>3 DEF Reconnect, view, wire, server, Live
  <2>2. pending' = {} /\ Held(toClient') = {}
    BY <2>1 DEF Wire, OpenOnly, Held
  <2> QED
    BY <2>1, <2>2 DEF Session
<1>4. CASE Resolve
  <2>1. PICK c \in toServer :
          /\ c.for = "decision" /\ toServer' = toServer \ {c}
          /\ Tells(c.on, <<"resolved">>) \/ UNCHANGED toClient
    BY <1>4 DEF Resolve
  <2>2. UNCHANGED <<sock, session, saved, thread, pending, loaded, home, turn>> /\ c.on \in Prompts
    BY <1>4, <2>1, CallTypes, <1>s DEF Resolve, page, view
  <2>3. \A r \in Held(toClient') : r.kind = "answer" => r \in Held(toClient)
    <3>1. "resolved" \in Kinds
      BY DEF Kinds
    <3>2. CASE Tells(c.on, <<"resolved">>)
      BY <2>2, <3>1, <3>2, SaysOnce, Sayings
    <3> QED
      BY <2>1, <3>2
  <2> QED
    BY <2>1, <2>2, <2>3 DEF Session, Called, Fits, Live, HasTurn
<1>5. ASSUME NEW c \in pending, NEW m \in Answers, Settled(c, m), ToPrompt(c, m) \/ ToFailure(c, m) \/ ToCatalog(c, m)
      PROVE  Session'
  <2>1. /\ UNCHANGED <<sock, saved, thread, loaded, home, turn, toServer>> /\ pending' = pending \ {c}
        /\ \A r \in Held(toClient') : r \in Held(toClient)
    BY <1>5, SettledWire DEF Settled, ToPrompt, ToFailure, ToCatalog
  <2>2. CASE ToPrompt(c, m) \/ ToFailure(c, m)
    <3>1. session' = session \/ session' = "failed"
      BY <2>2 DEF ToPrompt, ToFailure
    <3> QED
      BY <2>1, <3>1 DEF Session, Called, Fits, Live, HasTurn
  <2>3. CASE ToCatalog(c, m)
    <3>1. loaded = thread /\ thread \in Threads /\ c.for \in Stages
      BY <2>3, <1>s DEF ToCatalog, Session, Called
    <3>2. \A d \in pending' : d.for \notin Stages
      BY <2>1, <3>1, OneStage
    <3> QED
      BY <2>1, <3>1, <3>2 DEF Session, Called, Fits, Live, HasTurn
  <2> QED
    BY <1>5, <2>2, <2>3
<1>6. ASSUME NEW c \in pending, NEW m \in Answers, Settled(c, m), NEW n \in Calls,
             ToInitialize(c, n) \/ ToThread(c, m, n) \/ ToRefusal(c, m, n)
      PROVE  Session'
  <2>1. /\ UNCHANGED <<sock, session, loaded, home, turn>> /\ c.for \in Stages /\ m \in Held(toClient)
        /\ pending' = (pending \ {c}) \cup {n} /\ m.for = c.for /\ m.kind = "answer"
    BY <1>6, <1>s, Received, CallTypes DEF Settled, ToInitialize, ToThread, ToRefusal, CallsNext
  <2>2. \A d \in pending' : d = n \/ d.for \notin Stages
    BY <2>1, OneStage
  <2>3. \A r \in Held(toClient') : r.kind = "answer" => r.for \notin Stages
    <3> SUFFICES ASSUME NEW r \in Held(toClient'), r.kind = "answer", r.for \in Stages PROVE FALSE
      OBVIOUS
    <3>1. PICK d \in pending : d # c /\ d.for = r.for
      BY <1>6, SettledWire
    <3> QED
      BY <2>1, <3>1, OneStage
  <2>4. ~Live'
    BY <2>1 DEF Live, Session
  <2>5. Fits(m) /\ Called(c)
    BY <2>1 DEF Session
  <2>6. saved' \in {None, thread'} /\ Called(n)'
    <3>1. CASE ToInitialize(c, n)
      BY <2>1, <2>5, <3>1 DEF ToInitialize, CallsNext, Called, Session
    <3>2. CASE ToThread(c, m, n)
      BY <2>1, <2>5, <3>2 DEF ToThread, Called, Fits
    <3>3. CASE ToRefusal(c, m, n)
      BY <2>1, <2>5, <3>3 DEF ToRefusal, Called, Fits
    <3> QED
      BY <1>6, <3>1, <3>2, <3>3
  <2>7. \A d \in pending' : Called(d)'
    BY <1>s, <2>2, <2>6 DEF Called
  <2>8. \A r \in Held(toClient') : Fits(r)'
    BY <1>s, <2>3 DEF Fits
  <2> QED
    BY <2>4, <2>6, <2>7, <2>8 DEF Session
<1>7. ASSUME NEW m \in Notices, Heard(m) PROVE Session'
  <2>1. /\ UNCHANGED <<sock, session, saved, thread, pending, toServer, loaded, home, turn>>
        /\ \A r \in Held(toClient') : r \in Held(toClient)
    BY <1>7, Received DEF Heard
  <2> QED
    BY <2>1 DEF Session, Called, Fits, Live, HasTurn
<1>8. ASSUME NEW p \in Prompts, Send(p) PROVE Session'
  <2>1. /\ UNCHANGED <<sock, session, saved, thread, pending, toServer, toClient, loaded, turn>> /\ pc[p] = "idle"
        /\ home' = [home EXCEPT ![p] = thread]
    BY <1>8 DEF Send, page, wire, server
  <2>2. turn[p] = "none"
    BY <2>1 DEF Sends
  <2>3. HasTurn(thread)' => HasTurn(thread)
    BY <2>1, <2>2 DEF HasTurn
  <2>4. \A m \in Held(toClient) : Fits(m)'
    BY <2>1, <2>3 DEF Session, Fits
  <2> QED
    BY <2>1, <2>4 DEF Session, Called, Live
<1>9. ASSUME NEW p \in Prompts, Attached(p) PROVE Session'
  <2>1. /\ UNCHANGED <<sock, session, saved, thread, toClient, loaded, turn, home>>
        /\ \/ UNCHANGED <<pending, toServer>>
           \/ \E n \in {[for |-> p, thread |-> home[p]]} : pending' = pending \cup {n} /\ toServer' = toServer \cup {n}
    BY <1>9 DEF Attached, Rpc, Settles, server
  <2> QED
    BY <1>s, <2>1 DEF Session, Called, Fits, Live, HasTurn
<1>10. ASSUME NEW p \in Prompts, Decide(p) PROVE Session'
  <2>1. /\ UNCHANGED <<sock, session, saved, thread, pending, toClient, loaded, turn, home>>
        /\ toServer' \subseteq toServer \cup {Decision(p)}
    BY <1>10 DEF Decide, page, server
  <2>2. Decision(p) \notin Calls
    BY CallTypes DEF Decisions
  <2> QED
    BY <2>1, <2>2 DEF Session, Called, Fits, Live, HasTurn
<1>11. ASSUME NEW p \in Prompts, Begin(p) \/ End(p) \/ Approve(p) PROVE Session'
  <2>1. PICK kinds \in Seq(Kinds) : Tells(p, kinds)
    <3>1. {"started", "asked", "replied", "completed", "approve"} \subseteq Kinds
      BY DEF Kinds
    <3> QED
      BY <1>11, <3>1, Sayings DEF Begin, End, Approve
  <2>2. /\ UNCHANGED <<sock, session, saved, thread, pending, toServer, loaded, home>>
        /\ \A q \in Prompts : turn'[q] # "none" <=> turn[q] # "none"
    BY <1>11 DEF Begin, End, Approve, page, view
  <2>3. \A r \in Held(toClient') : r.kind = "answer" => r \in Held(toClient)
    BY <2>1, SaysOnce
  <2> QED
    BY <2>2, <2>3 DEF Session, Called, Fits, Live, HasTurn
<1>12. ASSUME NEW c \in pending, NEW m \in Answers, Gives(c, m),
              Plainly(c, m) \/ Resumes(c, m) \/ Starts(c, m) \/ Queues(c, m)
       PROVE  Session'
  <2>1. /\ UNCHANGED <<sock, session, saved, thread, pending, home>> /\ c \in toServer /\ toServer' = toServer \ {c}
        /\ m.for = c.for /\ m.kind = "answer" /\ Held(toClient') = Held(toClient) \cup {m}
    BY <1>12, Given, CallTypes DEF Gives, page, view, Msgs
  <2>2. Called(c)
    BY DEF Session
  <2>3. CASE Plainly(c, m)
    <3>1. UNCHANGED <<loaded, turn>> /\ Fits(m)'
      BY <1>s, <2>1, <2>2, <2>3 DEF Plainly, Fits, Called, HasTurn
    <3> QED
      BY <2>1, <3>1 DEF Session, Called, Fits, Live, HasTurn
  <2>4. CASE Resumes(c, m) \/ Starts(c, m)
    <3>1. c.for \in {"resume", "start"} /\ UNCHANGED turn
      BY <2>4 DEF Resumes, Starts
    <3>2. /\ \A d \in pending : d # c => d.for \notin Stages
          /\ \A r \in Held(toClient) : r.kind = "answer" => r.for \notin Stages
          /\ ~Live'
      BY <1>s, <2>1, <3>1, OneStage DEF Live, Session
    <3>3. Fits(m)'
      BY <2>1, <2>2, <2>4 DEF Resumes, Starts, Fits, Called, Fresh
    <3>4. Called(c)'
      BY <2>1, <2>2, <3>1 DEF Called
    <3>5. \A d \in pending' : Called(d)'
      BY <1>s, <2>1, <3>2, <3>4 DEF Called
    <3>6. \A r \in Held(toClient') : Fits(r)'
      BY <1>s, <2>1, <3>2, <3>3 DEF Fits
    <3> QED
      BY <2>1, <3>2, <3>5, <3>6 DEF Session
  <2>5. CASE Queues(c, m)
    <3>1. /\ UNCHANGED loaded /\ c.for \in Prompts /\ c.thread = loaded
          /\ turn' = [turn EXCEPT ![c.for] = "queued"]
      BY <2>5 DEF Queues
    <3>2. home[c.for] = loaded /\ home[c.for] \in Threads
      BY <3>1 DEF Wire, CallsWaited, Sends
    <3>3. loaded # None
      BY <3>2, CodexAssumption DEF CodexAssumption
    <3>4. Fits(m)'
      BY <1>s, <2>1, <3>1 DEF Fits
    <3>5. \A r \in Held(toClient) : Fits(r)'
      BY <2>1, <3>1, <3>3 DEF Session, Fits
    <3> QED
      BY <2>1, <3>1, <3>4, <3>5 DEF Session, Called, Live
  <2> QED
    BY <1>12, <2>3, <2>4, <2>5
<1> QED
  BY <1>1, <1>2, <1>3, <1>4, <1>5, <1>6, <1>7, <1>8, <1>9, <1>10, <1>11, <1>12 DEF Step

\* A step that changes the saved thread.
LEMMA ThreadKept ==
  ASSUME Shape, Wire, Sends, Session, Step, HasTurn(saved), saved' # saved
  PROVE  Waits("resume") /\ sock' = "closed"
<1>0. saved \in Threads /\ saved # None /\ saved = thread
  BY NoTurnNoThread DEF Session
<1>1. CASE Drop
  BY <1>1 DEF Drop, Closed, Rejected
<1>2. ASSUME NEW c \in pending, NEW m \in Answers, Settled(c, m), NEW n \in Calls, ToThread(c, m, n) PROVE FALSE
  <2>1. m \in Held(toClient) /\ m.for = c.for /\ m.kind = "answer" /\ c.for \in {"resume", "start"} /\ m.ok /\ saved' = m.thread
    BY <1>2, Received, CallTypes DEF Settled, ToThread, Shape
  <2>2. Fits(m) /\ Called(c)
    BY <2>1 DEF Session
  <2> QED
    BY <1>0, <2>1, <2>2 DEF Fits, Called
<1>3. ASSUME NEW c \in pending, NEW m \in Answers, Settled(c, m), NEW n \in Calls, ToRefusal(c, m, n) PROVE FALSE
  <2>1. m \in Held(toClient) /\ m.for = c.for /\ m.kind = "answer" /\ c.for = "resume" /\ ~m.ok
    BY <1>3, Received, CallTypes DEF Settled, ToRefusal, Shape
  <2>2. Fits(m)
    BY <2>1 DEF Session
  <2> QED
    BY <1>0, <2>1, <2>2 DEF Fits
<1>4. Opened \/ Reconnect => saved' = saved
  BY DEF Opened, Reconnect
<1>5. Resolve \/ Load => saved' = saved
  BY DEF Resolve, Load, page
<1>6. ASSUME NEW p \in Prompts, Send(p) \/ Attached(p) \/ Decide(p) \/ Begin(p) \/ End(p) \/ Approve(p) PROVE saved' = saved
  BY <1>6 DEF Send, Attached, Decide, Begin, End, Approve, page
<1>7. ASSUME NEW m \in Notices, Heard(m) PROVE saved' = saved
  BY <1>7 DEF Heard
<1>8. ASSUME NEW c \in pending, NEW m \in Answers, Gives(c, m) PROVE saved' = saved
  BY <1>8 DEF Gives, page
<1>9. ASSUME NEW c \in pending, NEW m \in Answers, ToPrompt(c, m) \/ ToFailure(c, m) \/ ToCatalog(c, m) PROVE saved' = saved
  BY <1>9 DEF ToPrompt, ToFailure, ToCatalog
<1>10. ASSUME NEW c \in pending, NEW n \in Calls, ToInitialize(c, n) PROVE saved' = saved
  BY <1>10 DEF ToInitialize
<1> QED
  BY <1>1, <1>2, <1>3, <1>4, <1>5, <1>6, <1>7, <1>8, <1>9, <1>10 DEF Step

-------------------------------------------------------------------------------
(* What the tab has been told has happened *)

ItemKinds == {"asked", "replied"}

LEMMA ItemFacts ==
  /\ \A x \in Items : x.turn \in Prompts /\ x.what \in ItemKinds /\ x = [turn |-> x.turn, what |-> x.what]
  /\ \A p \in Prompts, k \in ItemKinds : /\ [turn |-> p, what |-> k] \in Items
                                         /\ [turn |-> p, what |-> k].turn = p /\ [turn |-> p, what |-> k].what = k
  /\ ItemKinds \subseteq Kinds /\ "answer" \notin ItemKinds
  BY DEF Items, ItemKinds, Kinds

LEMMA InitTruthful == Init => Truthful
<1>1. Init => Held(toClient) = {}
  BY DEF Init, Held
<1> QED
  BY <1>1 DEF Init, Truthful

\* With no thread on the connection nothing is told of a turn.
LEMMA NothingTold ==
  ASSUME Shape, Sends, Truthful, loaded = None, NEW m \in Held(toClient)
  PROVE  m.kind \notin {"started", "asked", "replied", "completed"}
<1> SUFFICES ASSUME m.kind \in {"started", "asked", "replied", "completed"} PROVE FALSE
  OBVIOUS
<1>1. m \in Msgs
  BY DEF Shape, Held
<1>2. m \in Notices /\ m.turn \in Prompts
  BY <1>1, CallTypes DEF Msgs
<1>3. home[m.turn] = None /\ turn[m.turn] # "none"
  BY DEF Truthful, Noticed
<1> QED
  BY <1>2, <1>3, CodexAssumption DEF Sends, Shape, CodexAssumption

LEMMA TruthfulStep ==
  ASSUME Shape, Wire, Sends, Session, Truthful, Step
  PROVE  Truthful'
<1> USE DEF Shape, TypeOK
<1> DEFINE Shown == /\ \A x \in items' \cup snapshot' : Happened(x)
                    /\ \A p \in local' : [turn |-> p, what |-> "asked"] \notin items'
<1>i. Truthful => /\ \A x \in items \cup snapshot : Happened(x)
                  /\ \A p \in local : [turn |-> p, what |-> "asked"] \notin items
  BY DEF Truthful
<1>1. CASE Opened \/ Reconnect
  <2>1. UNCHANGED <<items, snapshot, local, toClient, turn, home, loaded>>
    BY <1>1 DEF Opened, Reconnect, view, wire, server
  <2> QED
    BY <2>1 DEF Truthful, Noticed, Happened
<1>2. CASE Drop \/ Load
  <2>1. Held(toClient') = {} /\ UNCHANGED turn
    BY <1>2, DropLoses DEF Loses, Held
  <2>2. Shown
    BY <1>i, <1>2 DEF Drop, Load, Closed, Rejected, Ready
  <2> QED
    BY <2>1, <2>2 DEF Truthful, Happened
<1>3. CASE Resolve
  <2>1. PICK c \in toServer : c.for = "decision" /\ (Tells(c.on, <<"resolved">>) \/ UNCHANGED toClient)
    BY <1>3 DEF Resolve
  <2>2. UNCHANGED <<items, snapshot, local, loaded, home, turn>> /\ c.on \in Prompts
    BY <1>3, <2>1, CallTypes DEF Resolve, page, view, Stages
  <2>3. \A m \in Held(toClient') : m \in Held(toClient) \/ m.kind = "resolved"
    <3>1. CASE Tells(c.on, <<"resolved">>)
      <4>1. <<"resolved">> \in Seq(Kinds) /\ Says(c.on, <<"resolved">>) = {Notice("resolved", c.on)}
        BY Sayings DEF Kinds
      <4> QED
        <5>1. Held(toClient') \subseteq Held(toClient) \cup {Notice("resolved", c.on)}
          BY <2>2, <3>1, <4>1, ServerSays
        <5> QED
          BY <5>1, NoticesDiffer
    <3> QED
      BY <2>1, <3>1
  <2>4. \A m : m.kind = "resolved" => m.kind \notin {"started", "asked", "replied", "completed", "answer"}
    OBVIOUS
  <2> QED
    BY <2>2, <2>3, <2>4 DEF Truthful, Noticed, Happened
<1>4. ASSUME NEW c \in pending, NEW m \in Answers, Settled(c, m),
             \/ ToPrompt(c, m) \/ ToFailure(c, m) \/ ToCatalog(c, m)
             \/ \E n \in Calls : ToInitialize(c, n) \/ ToThread(c, m, n) \/ ToRefusal(c, m, n)
      PROVE  Truthful'
  <2>1. UNCHANGED <<home, loaded, turn>> /\ (\A r \in Held(toClient') : r \in Held(toClient)) /\ m \in Held(toClient)
    BY <1>4, Received DEF Settled
  <2>2. \A x \in m.items : Happened(x)
    BY <2>1, CallTypes DEF Truthful
  <2>3. Shown
    BY <1>i, <1>4, <2>2 DEF ToPrompt, ToFailure, ToCatalog, ToInitialize, ToThread, ToRefusal, CallsNext
  <2> QED
    BY <2>1, <2>3 DEF Truthful, Noticed, Happened
<1>5. ASSUME NEW m \in Notices, Heard(m) PROVE Truthful'
  <2>1. /\ UNCHANGED <<snapshot, home, loaded, turn>> /\ m \in Held(toClient) /\ m.turn \in Prompts
        /\ \A r \in Held(toClient') : r \in Held(toClient)
    BY <1>5, Received, CallTypes DEF Heard
  <2>2. Noticed(m)
    BY <2>1 DEF Truthful
  <2>3. CASE m.kind \in ItemKinds
    <3> DEFINE x == [turn |-> m.turn, what |-> m.kind]
    <3>1. x.turn = m.turn /\ x.what = m.kind
      OBVIOUS
    <3> HIDE DEF x
    <3>2. items' = items \cup {x} /\ local' = IF m.kind = "asked" THEN local \ {m.turn} ELSE local
      BY <1>5, <2>3 DEF Heard, ItemKinds, x
    <3>3. Happened(x)
      BY <2>2, <2>3, <3>1 DEF Noticed, Happened, ItemKinds
    <3>4. \A p \in local' : [turn |-> p, what |-> "asked"] # x
      BY <3>1, <3>2
    <3> QED
      BY <1>i, <2>1, <3>2, <3>3, <3>4 DEF Truthful, Noticed, Happened
  <2>4. CASE m.kind \notin ItemKinds
    <3>1. items' = items /\ local' = local
      BY <1>5, <2>4 DEF Heard, ItemKinds
    <3> QED
      BY <2>1, <3>1 DEF Truthful, Noticed, Happened
  <2> QED
    BY <2>3, <2>4
<1>6. ASSUME NEW p \in Prompts, Send(p) PROVE Truthful'
  <2>1. /\ UNCHANGED <<items, snapshot, toClient, loaded, turn>> /\ pc[p] = "idle" /\ local' = local \cup {p}
        /\ home' = [home EXCEPT ![p] = thread]
    BY <1>6 DEF Send, page, wire, server
  <2>2. turn[p] = "none"
    BY <2>1 DEF Sends
  <2>3. \A m \in Held(toClient) : Noticed(m)'
    <3> SUFFICES ASSUME NEW m \in Held(toClient), m.kind \in {"started", "asked", "replied", "completed"}
                 PROVE  Noticed(m)'
      BY DEF Noticed
    <3>1. m.turn # p /\ Noticed(m)
      BY <2>2 DEF Truthful, Noticed
    <3>2. m \in Msgs
      BY DEF Held
    <3>3. m.turn \in Prompts
      BY <3>2, CallTypes DEF Msgs
    <3> QED
      BY <2>1, <3>1, <3>3 DEF Noticed
  <2>4. [turn |-> p, what |-> "asked"] \notin items
    BY <1>i, <2>2, ItemFacts DEF Happened, ItemKinds
  <2> QED
    BY <1>i, <2>1, <2>3, <2>4 DEF Truthful, Happened
<1>7. ASSUME NEW p \in Prompts, Attached(p) \/ Decide(p) PROVE Truthful'
  <2>1. UNCHANGED <<items, snapshot, local, toClient, turn, home, loaded>>
    BY <1>7 DEF Attached, Decide, page, server
  <2> QED
    BY <2>1 DEF Truthful, Noticed, Happened
<1>8. ASSUME NEW p \in Prompts, Begin(p) \/ End(p) PROVE Truthful'
  <2>1. /\ UNCHANGED <<items, snapshot, local, loaded, home>>
        /\ \A q \in Prompts : q # p => turn'[q] = turn[q]
        /\ turn[p] \in {"queued", "running"} /\ turn'[p] \in {"running", "done"}
        /\ turn[p] = "running" => turn'[p] = "done"
    BY <1>8 DEF Begin, End, page, view
  <2>2. \A x \in Items : Happened(x) => Happened(x)'
    BY <2>1, ItemFacts DEF Happened
  <2>3. \A m \in Held(toClient) : m \in Answers \/ (m \in Notices /\ m.turn \in Prompts)
    BY CallTypes DEF Held, Msgs
  <2>4. \A m \in Held(toClient) : m \in Notices => Noticed(m)'
    <3> SUFFICES ASSUME NEW m \in Held(toClient), m \in Notices PROVE Noticed(m)'
      OBVIOUS
    <3>1. m.turn \in Prompts /\ Noticed(m)
      BY CallTypes DEF Truthful
    <3> QED
      BY <2>1, <3>1 DEF Noticed
  <2>5. \A m \in Held(toClient') : m \in Held(toClient) \/ (m \in Notices /\ Noticed(m)')
    <3>1. CASE loaded # home[p]
      BY <1>8, <3>1 DEF Begin, End, Tells
    <3>2. PICK k \in Kinds, l \in Kinds : /\ Tells(p, <<k, l>>)
                                          /\ {k, l} \subseteq {"replied", "completed", "started", "asked"}
                                          /\ {k, l} \cap {"replied", "completed"} # {} => turn'[p] = "done"
      BY <1>8 DEF Begin, End, Kinds
    <3>3. Held(toClient') \subseteq Held(toClient) \cup {Notice(k, p), Notice(l, p)}
      <4>1. <<k, l>> \in Seq(Kinds) /\ Says(p, <<k, l>>) = {Notice(k, p), Notice(l, p)}
        BY Sayings
      <4> QED
        BY <3>2, <4>1, ServerSays
    <3>4. ASSUME NEW j \in {k, l}, loaded = home[p] PROVE Notice(j, p) \in Notices /\ Noticed(Notice(j, p))'
      <4>1. Notice(j, p).kind = j /\ Notice(j, p).turn = p /\ Notice(j, p) \in Notices
        BY <3>2 DEF Notice, Notices
      <4>2. j \in {"replied", "completed"} => turn'[p] = "done"
        BY <3>2
      <4> QED
        BY <2>1, <3>4, <4>1, <4>2 DEF Noticed
    <3> QED
      BY <3>1, <3>3, <3>4
  <2>6. \A m \in Held(toClient') : Noticed(m)'
    BY <2>3, <2>4, <2>5, CallTypes DEF Noticed
  <2>7. \A m \in Held(toClient') : m.kind = "answer" => m \in Held(toClient) /\ m.items \subseteq Items
    BY <2>3, <2>5, CallTypes
  <2> QED
    BY <1>i, <2>1, <2>2, <2>6, <2>7 DEF Truthful
<1>9. ASSUME NEW p \in Prompts, Approve(p) PROVE Truthful'
  <2>1. UNCHANGED <<items, snapshot, local, loaded, home, turn>> /\ Tells(p, <<"approve">>)
    BY <1>9 DEF Approve, page, view
  <2>2. \A m \in Held(toClient') : m \in Held(toClient) \/ m.kind = "approve"
    <3>1. <<"approve">> \in Seq(Kinds) /\ Says(p, <<"approve">>) = {Notice("approve", p)}
      BY Sayings DEF Kinds
    <3> QED
      <4>1. Held(toClient') \subseteq Held(toClient) \cup {Notice("approve", p)}
        BY <2>1, <3>1, ServerSays
      <4> QED
        BY <4>1, NoticesDiffer
  <2>3. \A m : m.kind = "approve" => m.kind \notin {"started", "asked", "replied", "completed", "answer"}
    OBVIOUS
  <2> QED
    BY <2>1, <2>2, <2>3 DEF Truthful, Noticed, Happened
<1>10. ASSUME NEW c \in pending, NEW m \in Answers, Gives(c, m),
              Plainly(c, m) \/ Resumes(c, m) \/ Starts(c, m) \/ Queues(c, m)
       PROVE  Truthful'
  <2>1. /\ UNCHANGED <<items, snapshot, local, home>> /\ c \in toServer
        /\ Held(toClient') = Held(toClient) \cup {m} /\ m.kind = "answer"
    BY <1>10, Given, CallTypes DEF Gives, page, view, Msgs
  <2>2. \A q \in Prompts : turn'[q] = turn[q] \/ (turn[q] = "none" /\ turn'[q] = "queued")
    BY <1>10, <2>1 DEF Plainly, Resumes, Starts, Queues, Sends
  <2>3. \A x \in Items : Happened(x)' <=> Happened(x)
    BY <2>2, ItemFacts DEF Happened
  <2>4. loaded' = loaded \/ loaded = None
    BY <1>10, <2>1 DEF Plainly, Resumes, Starts, Queues, Session, Called
  <2>5. \A r \in Held(toClient) : Noticed(r)'
    <3> SUFFICES ASSUME NEW r \in Held(toClient), r.kind \in {"started", "asked", "replied", "completed"}
                 PROVE  Noticed(r)'
      BY DEF Noticed
    <3>1. loaded' = loaded /\ Noticed(r)
      BY <2>4, NothingTold DEF Truthful
    <3>2. r \in Msgs
      BY DEF Held
    <3>3. r.turn \in Prompts
      BY <3>2, CallTypes DEF Msgs
    <3> QED
      BY <2>1, <2>2, <3>1, <3>3 DEF Noticed
  <2>6. Noticed(m)'
    BY <2>1 DEF Noticed
  <2>7. \A x \in m.items : x \in Items /\ Happened(x)
    BY <1>10 DEF Plainly, Resumes, Starts, Queues, Log, Happened
  <2>8. \A r \in Held(toClient) : r.kind = "answer" => \A x \in r.items : x \in Items /\ Happened(x)
    BY CallTypes DEF Truthful, Held, Msgs
  <2> QED
    BY <1>i, <2>1, <2>3, <2>5, <2>6, <2>7, <2>8 DEF Truthful
<1> QED
  BY <1>1, <1>2, <1>3, <1>4, <1>5, <1>6, <1>7, <1>8, <1>9, <1>10 DEF Step

-------------------------------------------------------------------------------
(* The order of what is under way *)

LEMMA TailOrder ==
  ASSUME Shape, Once, Ordered, toClient # <<>>, toClient' = Tail(toClient)
  PROVE  /\ Ordered'
         /\ Opens(toClient[1]) \/ ((\E m \in Held(toClient') : Opens(m)) => toClient[1].kind \notin ItemKinds)
         /\ \A i \in DOMAIN toClient' : toClient'[i].kind \in ItemKinds =>
              /\ \A j \in DOMAIN toClient' : toClient'[j] = toClient'[i] => j = i
              /\ toClient'[i] # toClient[1]
              /\ Setup => [turn |-> toClient'[i].turn, what |-> toClient'[i].kind] \notin items
<1>1. /\ 1 \in DOMAIN toClient
      /\ \A i \in DOMAIN toClient' : i \in Nat /\ i # 0 /\ i + 1 \in DOMAIN toClient /\ toClient'[i] = toClient[i + 1]
  <2>1. \A i \in DOMAIN Tail(toClient) : i # 0
    BY DEF Shape
  <2> QED
    BY <2>1, Received DEF Shape
<1>2. Ordered'
  <2> SUFFICES ASSUME NEW i \in DOMAIN toClient', NEW j \in DOMAIN toClient', Opens(toClient'[j]), i < j
               PROVE  toClient'[i].kind \notin ItemKinds
    BY DEF Ordered, ItemKinds, Opens
  <2>1. i + 1 < j + 1 /\ Opens(toClient[j + 1])
    BY <1>1
  <2> QED
    BY <1>1, <2>1 DEF Ordered, ItemKinds
<1>3. ASSUME NEW m \in Held(toClient'), Opens(m) PROVE toClient[1].kind \notin ItemKinds
  <2>1. PICK j \in DOMAIN toClient' : m = toClient'[j]
    BY DEF Held
  <2>2. 1 < j + 1 /\ Opens(toClient[j + 1]) /\ j + 1 \in DOMAIN toClient
    BY <1>1, <1>3, <2>1
  <2> QED
    BY <1>1, <2>2 DEF Ordered, ItemKinds
<1>4. ASSUME NEW i \in DOMAIN toClient', toClient'[i].kind \in ItemKinds
      PROVE  /\ \A j \in DOMAIN toClient' : toClient'[j] = toClient'[i] => j = i
             /\ toClient'[i] # toClient[1]
             /\ Setup => [turn |-> toClient'[i].turn, what |-> toClient'[i].kind] \notin items
  <2>1. i + 1 \in DOMAIN toClient /\ toClient'[i] = toClient[i + 1] /\ i + 1 # 1
    BY <1>1
  <2>2. \A j \in DOMAIN toClient : toClient[j] = toClient[i + 1] => j = i + 1
    BY <1>4, <2>1 DEF Once, ItemKinds
  <2>3. ASSUME NEW j \in DOMAIN toClient', toClient'[j] = toClient'[i] PROVE j = i
    <3>1. j + 1 = i + 1
      BY <1>1, <2>1, <2>2, <2>3
    <3> QED
      BY <1>1, <3>1
  <2>4. Setup => [turn |-> toClient'[i].turn, what |-> toClient'[i].kind] \notin items
    BY <1>4, <2>1 DEF Once, ItemKinds
  <2> QED
    BY <1>1, <2>1, <2>2, <2>3, <2>4
<1> QED
  BY <1>2, <1>3, <1>4

\* Messages put behind the others.
LEMMA GrownOrder ==
  ASSUME Shape, Once, Ordered, items' = items, Setup' => Setup,
         \A i \in DOMAIN toClient : i \in Nat /\ i \in DOMAIN toClient' /\ toClient'[i] = toClient[i],
         \A i \in DOMAIN toClient' \ DOMAIN toClient :
           /\ i \in Nat /\ \A j \in DOMAIN toClient : j < i
           /\ Opens(toClient'[i]) => \A j \in DOMAIN toClient' : j < i => toClient'[j].kind \notin ItemKinds
           /\ toClient'[i].kind \in ItemKinds =>
                /\ \A j \in DOMAIN toClient' : toClient'[j] = toClient'[i] => j = i
                /\ [turn |-> toClient'[i].turn, what |-> toClient'[i].kind] \notin items
  PROVE  Once' /\ Ordered'
<1>1. Ordered'
  <2> SUFFICES ASSUME NEW i \in DOMAIN toClient', NEW j \in DOMAIN toClient', Opens(toClient'[j]), i < j
               PROVE  toClient'[i].kind \notin ItemKinds
    BY DEF Ordered, ItemKinds, Opens
  <2>1. CASE j \notin DOMAIN toClient
    BY <2>1
  <2>2. CASE j \in DOMAIN toClient
    <3>1. i \in DOMAIN toClient
      <4> SUFFICES ASSUME i \notin DOMAIN toClient PROVE FALSE
        OBVIOUS
      <4>1. i \in Nat /\ j \in Nat /\ j < i
        BY <2>2
      <4> QED
        BY <4>1
    <3>2. Opens(toClient[j]) /\ toClient'[i] = toClient[i]
      BY <2>2, <3>1
    <3> QED
      BY <2>2, <3>1, <3>2 DEF Ordered, ItemKinds
  <2> QED
    BY <2>1, <2>2
<1>2. Once'
  <2> SUFFICES ASSUME NEW i \in DOMAIN toClient', toClient'[i].kind \in ItemKinds
               PROVE  /\ \A j \in DOMAIN toClient' : toClient'[j] = toClient'[i] => j = i
                      /\ Setup' => [turn |-> toClient'[i].turn, what |-> toClient'[i].kind] \notin items
    BY DEF Once, ItemKinds
  <2>1. CASE i \notin DOMAIN toClient
    BY <2>1
  <2>2. CASE i \in DOMAIN toClient
    <3>1. toClient'[i] = toClient[i] /\ \A j \in DOMAIN toClient : toClient[j] = toClient[i] => j = i
      BY <2>2 DEF Once, ItemKinds
    <3>2. ASSUME NEW j \in DOMAIN toClient' \ DOMAIN toClient, toClient'[j] = toClient'[i] PROVE FALSE
      BY <2>2, <3>2
    <3> QED
      BY <2>2, <3>1, <3>2 DEF Once, ItemKinds
  <2> QED
    BY <2>1, <2>2
<1> QED
  BY <1>1, <1>2

LEMMA SaidOrder ==
  ASSUME Shape, Once, Ordered, items' = items, Setup' => Setup,
         NEW p \in Prompts, NEW kinds \in Seq(Kinds), Tells(p, kinds),
         \A k, l \in DOMAIN kinds : kinds[k] = kinds[l] => k = l,
         loaded = home[p] =>
           \A k \in DOMAIN kinds : kinds[k] \in ItemKinds =>
             Notice(kinds[k], p) \notin Held(toClient) /\ [turn |-> p, what |-> kinds[k]] \notin items
  PROVE  Once' /\ Ordered'
<1>1. \A k \in DOMAIN kinds : k \in Nat /\ kinds[k] \in Kinds /\ Notice(kinds[k], p).kind = kinds[k] /\ Notice(kinds[k], p).turn = p
  <2>1. \A k \in DOMAIN kinds : k \in Nat /\ kinds[k] \in Kinds
    OBVIOUS
  <2> QED
    BY <2>1 DEF Notice
<1>2. \A i \in DOMAIN toClient : i \in Nat /\ i \in DOMAIN toClient' /\ toClient'[i] = toClient[i]
  BY ServerSays
<1>3. Len(toClient) \in Nat
  BY DEF Shape
<1>4. ASSUME NEW i \in DOMAIN toClient' \ DOMAIN toClient
      PROVE  /\ i \in Nat /\ \A j \in DOMAIN toClient : j < i
             /\ ~Opens(toClient'[i])
             /\ toClient'[i].kind \in ItemKinds =>
                  /\ \A j \in DOMAIN toClient' : toClient'[j] = toClient'[i] => j = i
                  /\ [turn |-> toClient'[i].turn, what |-> toClient'[i].kind] \notin items
  <2>1. PICK k \in DOMAIN kinds : i = Len(toClient) + k /\ toClient'[i] = Notice(kinds[k], p) /\ loaded = home[p]
    BY <1>4, ServerSays
  <2>2. i \in Nat /\ \A j \in DOMAIN toClient : j < i
    BY <1>1, <1>3, <2>1, ServerSays
  <2>3. ~Opens(toClient'[i])
    BY <1>1, <2>1 DEF Opens, Kinds
  <2>4. ASSUME toClient'[i].kind \in ItemKinds, NEW j \in DOMAIN toClient', toClient'[j] = toClient'[i] PROVE j = i
    <3>1. CASE j \in DOMAIN toClient
      <4>1. toClient[j] \in Held(toClient) /\ toClient[j] = Notice(kinds[k], p)
        BY <1>2, <2>1, <2>4, <3>1 DEF Held
      <4>2. Notice(kinds[k], p) \notin Held(toClient)
        BY <1>1, <2>1, <2>4
      <4> QED
        BY <4>1, <4>2
    <3>2. CASE j \notin DOMAIN toClient
      <4>1. PICK l \in DOMAIN kinds : j = Len(toClient) + l /\ toClient'[j] = Notice(kinds[l], p)
        BY <3>2, ServerSays
      <4>2. kinds[k] = kinds[l]
        BY <1>1, <2>1, <2>4, <4>1
      <4> QED
        BY <2>1, <4>1, <4>2
    <3> QED
      BY <3>1, <3>2
  <2>5. toClient'[i].kind \in ItemKinds => [turn |-> toClient'[i].turn, what |-> toClient'[i].kind] \notin items
    BY <1>1, <2>1
  <2> QED
    BY <2>2, <2>3, <2>4, <2>5
<1> QED
  BY <1>2, <1>4, GrownOrder

LEMMA InitOrder == Init => Once /\ Ordered
  BY DEF Init, Once, Ordered

LEMMA OrderStep ==
  ASSUME Shape, Wire, Sends, Session, Truthful, Once, Ordered, Step
  PROVE  Once' /\ Ordered'
<1> USE DEF Shape, TypeOK
<1>s. {"initialize", "resume", "start", "catalog"} = Stages /\ \A p \in Prompts : p \notin Stages
  BY CallTypes DEF Stages
<1>1. CASE Opened \/ Reconnect \/ Drop \/ Load
  <2>1. toClient' = <<>>
    BY <1>1, DropLoses DEF Opened, Reconnect, Wire, OpenOnly, Loses, wire
  <2> QED
    BY <2>1 DEF Once, Ordered
<1>2. CASE Resolve
  <2>1. PICK c \in toServer : c.for = "decision" /\ (Tells(c.on, <<"resolved">>) \/ UNCHANGED toClient)
    BY <1>2 DEF Resolve
  <2>2. UNCHANGED <<items, pending>> /\ c.on \in Prompts
    BY <1>2, <2>1, CallTypes, <1>s DEF Resolve, page, view
  <2>3. CASE Tells(c.on, <<"resolved">>)
    <3>1. <<"resolved">> \in Seq(Kinds) /\ DOMAIN <<"resolved">> = {1} /\ <<"resolved">>[1] \notin ItemKinds
      BY DEF Kinds, ItemKinds
    <3> QED
      BY <2>2, <2>3, <3>1, SaidOrder DEF Setup
  <2>4. CASE UNCHANGED toClient
    BY <2>2, <2>4 DEF Once, Ordered, Setup
  <2> QED
    BY <2>1, <2>3, <2>4
<1>3. ASSUME NEW c \in pending, NEW m \in Answers, Settled(c, m),
             \/ ToPrompt(c, m) \/ ToFailure(c, m) \/ ToCatalog(c, m)
             \/ \E n \in Calls : ToInitialize(c, n) \/ ToThread(c, m, n) \/ ToRefusal(c, m, n)
      PROVE  Once' /\ Ordered'
  <2>1. toClient # <<>> /\ toClient' = Tail(toClient)
    BY <1>3 DEF Settled
  <2>2. Setup' => Setup /\ items' = items
    <3>1. CASE ToPrompt(c, m) \/ ToFailure(c, m)
      BY <3>1 DEF ToPrompt, ToFailure, Setup
    <3>2. CASE ToCatalog(c, m)
      <4>1. \A d \in pending' : d.for \notin Stages
        BY <1>s, <3>2, OneStage DEF ToCatalog
      <4> QED
        BY <4>1 DEF Setup
    <3>3. CASE \E n \in Calls : ToInitialize(c, n) \/ ToThread(c, m, n) \/ ToRefusal(c, m, n)
      BY <1>s, <3>3 DEF ToInitialize, ToThread, ToRefusal, CallsNext, Setup
    <3> QED
      BY <1>3, <3>1, <3>2, <3>3
  <2> QED
    BY <2>1, <2>2, TailOrder DEF Once, ItemKinds
<1>4. ASSUME NEW m \in Notices, Heard(m) PROVE Once' /\ Ordered'
  <2>1. toClient # <<>> /\ toClient' = Tail(toClient) /\ m = toClient[1] /\ UNCHANGED pending
    BY <1>4, Received DEF Heard
  <2>2. items' = items \/ (m.kind \in ItemKinds /\ items' = items \cup {[turn |-> m.turn, what |-> m.kind]})
    BY <1>4 DEF Heard, ItemKinds
  <2>3. Once'
    <3> SUFFICES ASSUME NEW i \in DOMAIN toClient', toClient'[i].kind \in ItemKinds
                 PROVE  /\ \A j \in DOMAIN toClient' : toClient'[j] = toClient'[i] => j = i
                        /\ Setup => [turn |-> toClient'[i].turn, what |-> toClient'[i].kind] \notin items'
      BY <2>1 DEF Once, ItemKinds, Setup
    <3>1. /\ \A j \in DOMAIN toClient' : toClient'[j] = toClient'[i] => j = i
          /\ toClient'[i] # m
          /\ Setup => [turn |-> toClient'[i].turn, what |-> toClient'[i].kind] \notin items
      BY <2>1, TailOrder
    <3>2. toClient'[i] \in Notices
      <4>1. toClient'[i] \in Msgs
        BY <2>1, Received
      <4> QED
        BY <4>1, CallTypes DEF Msgs, ItemKinds
    <3>3. toClient'[i] = Notice(toClient'[i].kind, toClient'[i].turn) /\ m = Notice(m.kind, m.turn)
      BY <3>2, CallTypes
    <3>4. [turn |-> toClient'[i].turn, what |-> toClient'[i].kind] # [turn |-> m.turn, what |-> m.kind]
      BY <3>1, <3>3
    <3> QED
      BY <2>2, <3>1, <3>4
  <2> QED
    BY <2>1, <2>3, TailOrder
<1>5. ASSUME NEW p \in Prompts, Send(p) \/ Attached(p) \/ Decide(p) PROVE Once' /\ Ordered'
  <2>1. UNCHANGED <<items, toClient>>
    BY <1>5 DEF Send, Attached, Decide, page, wire, server
  <2>2. Setup' => Setup
    BY <1>5, <1>s DEF Send, Attached, Decide, page, Rpc, Settles, Setup
  <2> QED
    BY <2>1, <2>2 DEF Once, Ordered
<1>6. ASSUME NEW p \in Prompts, Begin(p) \/ End(p) PROVE Once' /\ Ordered'
  <2>1. PICK k \in Kinds, l \in Kinds :
          /\ Tells(p, <<k, l>>) /\ k # l
          /\ \A j \in {k, l} : j = "asked" => turn[p] = "queued"
          /\ \A j \in {k, l} : j = "replied" => turn[p] = "running"
    BY <1>6 DEF Begin, End, Kinds
  <2>2. UNCHANGED <<items, pending>>
    BY <1>6 DEF Begin, End, page, view
  <2>3. ASSUME NEW j \in {k, l}, j \in ItemKinds
        PROVE  Notice(j, p) \notin Held(toClient) /\ [turn |-> p, what |-> j] \notin items
    <3>1. \A m \in Held(toClient) : Noticed(m)
      BY DEF Truthful
    <3>2. Notice(j, p) \notin Held(toClient)
      BY <2>1, <2>3, <3>1, NoticesDiffer DEF Noticed, ItemKinds
    <3>3. \A x \in items : Happened(x)
      BY DEF Truthful
    <3>4. [turn |-> p, what |-> j] \notin items
      BY <2>1, <2>3, <3>3 DEF Happened, ItemKinds
    <3> QED
      BY <3>2, <3>4
  <2>4. <<k, l>> \in Seq(Kinds) /\ DOMAIN <<k, l>> = {1, 2} /\ <<k, l>>[1] = k /\ <<k, l>>[2] = l
    OBVIOUS
  <2> DEFINE kinds == <<k, l>>
  <2>5. /\ kinds \in Seq(Kinds) /\ Tells(p, kinds) /\ \A i, j \in DOMAIN kinds : kinds[i] = kinds[j] => i = j
        /\ \A i \in DOMAIN kinds : kinds[i] \in {k, l}
    BY <2>1, <2>4
  <2> HIDE DEF kinds
  <2> QED
    BY <2>2, <2>3, <2>5, SaidOrder DEF Setup
<1>7. ASSUME NEW p \in Prompts, Approve(p) PROVE Once' /\ Ordered'
  <2>1. UNCHANGED <<items, pending>> /\ Tells(p, <<"approve">>)
    BY <1>7 DEF Approve, page, view
  <2>2. <<"approve">> \in Seq(Kinds) /\ DOMAIN <<"approve">> = {1} /\ <<"approve">>[1] \notin ItemKinds
    BY DEF Kinds, ItemKinds
  <2> QED
    BY <2>1, <2>2, SaidOrder DEF Setup
<1>8. ASSUME NEW c \in pending, NEW m \in Answers, Gives(c, m) PROVE Once' /\ Ordered'
  <2>1. /\ UNCHANGED <<items, pending>> /\ c \in toServer /\ m.for = c.for /\ m.kind = "answer"
        /\ toClient' = Append(toClient, m) /\ m \in Msgs
    BY <1>8, CallTypes DEF Gives, page, view, Msgs
  <2>2. /\ \A i \in DOMAIN toClient : i \in Nat /\ i \in DOMAIN toClient' /\ toClient'[i] = toClient[i] /\ i < Len(toClient) + 1
        /\ toClient'[Len(toClient) + 1] = m /\ Len(toClient) \in Nat
        /\ \A i \in DOMAIN toClient' : i \in DOMAIN toClient \/ i = Len(toClient) + 1
    BY <2>1, Given
  <2>3. Opens(m) => \A r \in Held(toClient) : r.kind \notin ItemKinds
    BY <2>1, NothingTold DEF Opens, Session, Called, ItemKinds
  <2>4. m.kind \notin ItemKinds
    BY <2>1 DEF ItemKinds
  <2>5. ASSUME NEW i \in DOMAIN toClient' \ DOMAIN toClient
        PROVE  /\ i \in Nat /\ \A j \in DOMAIN toClient : j < i
               /\ Opens(toClient'[i]) => \A j \in DOMAIN toClient' : j < i => toClient'[j].kind \notin ItemKinds
               /\ toClient'[i].kind \notin ItemKinds
    <3>1. i = Len(toClient) + 1 /\ toClient'[i] = m
      BY <2>2, <2>5
    <3>2. \A j \in DOMAIN toClient' : j < i => j \in DOMAIN toClient
      BY <2>2, <3>1
    <3> QED
      BY <2>2, <2>3, <2>4, <3>1, <3>2 DEF Held
  <2> QED
    BY <2>1, <2>2, <2>5, GrownOrder DEF Setup
<1> QED
  BY <1>1, <1>2, <1>3, <1>4, <1>5, <1>6, <1>7, <1>8 DEF Step

-------------------------------------------------------------------------------
(* What the tab will show once everything has arrived *)

\* Nothing is shown or on its way yet: a connection that is being set up.
LEMMA EmptyBook ==
  ASSUME Held(toClient') = {}, ~Waits("catalog")', ~Live'
  PROVE  Book'
  BY DEF Book

\* Neither the thread nor the notices of its items change.
LEMMA SameShows ==
  ASSUME \A x \in Items : x \in Log(loaded)' <=> x \in Log(loaded),
         \A x \in Items : Notice(x.what, x.turn) \in Held(toClient') <=> Notice(x.what, x.turn) \in Held(toClient),
         NEW shown, Shows(shown)
  PROVE  Shows(shown)'
  BY DEF Shows

LEMMA SameLog ==
  ASSUME UNCHANGED <<loaded, turn, home>>, NEW x
  PROVE  x \in Log(loaded)' <=> x \in Log(loaded)
  BY DEF Log

LEMMA NoItem ==
  /\ \A m \in Answers : m \notin {Notice(x.what, x.turn) : x \in Items}
  /\ \A k, p : k \notin ItemKinds => Notice(k, p) \notin {Notice(x.what, x.turn) : x \in Items}
<1>1. \A x \in Items : x.what \in ItemKinds /\ x.turn \in Prompts /\ Notice(x.what, x.turn).kind = x.what
  BY ItemFacts, NoticesDiffer
<1>2. \A m \in Answers : m.kind \notin ItemKinds
  BY CallTypes DEF ItemKinds
<1>3. \A k, p : Notice(k, p).kind = k
  BY NoticesDiffer
<1> QED
  BY <1>1, <1>2, <1>3

LEMMA InitBook == Init => Book
<1>1. Init => Held(toClient) = {} /\ pending = {} /\ sock = "connecting"
  BY DEF Init, Held
<1> QED
  BY <1>1 DEF Book, Waits, Live

LEMMA BookStep ==
  ASSUME Shape, Wire, Sends, Session, Truthful, Once, Ordered, Book, Step
  PROVE  Book'
<1> USE DEF Shape, TypeOK
<1> DEFINE OnWay(x) == Notice(x.what, x.turn) \in Held(toClient)
           SameItems == \A x \in Items : Notice(x.what, x.turn) \in Held(toClient') <=> OnWay(x)
<1>s. {"initialize", "resume", "start", "catalog"} = Stages /\ \A p \in Prompts : p \notin Stages
  BY CallTypes DEF Stages
<1>1. CASE Opened \/ Reconnect \/ Drop \/ Load
  <2>1. toClient' = <<>> /\ ~Waits("catalog")' /\ ~Live'
    <3>1. CASE Opened
      BY <3>1 DEF Opened, Wire, OpenOnly, Rpc, Waits, Live
    <3>2. CASE Reconnect
      BY <3>2 DEF Reconnect, Wire, OpenOnly, wire, Waits, Live
    <3>3. CASE Drop \/ Load
      BY <3>3, DropLoses DEF Loses, Waits, Live
    <3> QED
      BY <1>1, <3>1, <3>2, <3>3
  <2>2. Held(toClient') = {}
    BY <2>1 DEF Held
  <2> QED
    BY <2>1, <2>2, EmptyBook
<1>2. ASSUME UNCHANGED <<sock, session, items, snapshot, overtaken, pending>>, SameItems,
             \A x \in Items : x \in Log(loaded)' <=> x \in Log(loaded),
             \A m \in Held(toClient') : Opens(m) => m \in Held(toClient)
      PROVE  Book'
  <2>1. \A m \in Held(toClient') : Opens(m) => Shows(m.items)'
    BY <1>2, SameShows DEF Book
  <2>2. Waits("catalog")' /\ ~overtaken' => Shows(snapshot)'
    <3>1. Shows(snapshot) => Shows(snapshot)'
      BY <1>2 DEF Shows
    <3> QED
      BY <1>2, <3>1 DEF Book, Waits
  <2>3. Live' /\ ~overtaken' => Shows(items)'
    <3>1. Shows(items) => Shows(items)'
      BY <1>2 DEF Shows
    <3> QED
      BY <1>2, <3>1 DEF Book, Live
  <2> QED
    BY <2>1, <2>2, <2>3 DEF Book, Opens
<1>3. CASE Resolve
  <2>1. PICK c \in toServer : c.for = "decision" /\ (Tells(c.on, <<"resolved">>) \/ UNCHANGED toClient)
    BY <1>3 DEF Resolve
  <2>2. UNCHANGED <<sock, session, items, snapshot, overtaken, pending, loaded, home, turn>> /\ c.on \in Prompts
    BY <1>3, <2>1, CallTypes, <1>s DEF Resolve, page, view
  <2>3. SameItems /\ \A m \in Held(toClient') : Opens(m) => m \in Held(toClient)
    <3>1. CASE Tells(c.on, <<"resolved">>)
      <4>1. <<"resolved">> \in Seq(Kinds) /\ Says(c.on, <<"resolved">>) = {Notice("resolved", c.on)}
        BY Sayings DEF Kinds
      <4>2. Held(toClient') \subseteq Held(toClient) \cup {Notice("resolved", c.on)} /\ Held(toClient) \subseteq Held(toClient')
        BY <2>2, <3>1, <4>1, ServerSays
      <4>3. "resolved" \notin ItemKinds
        BY DEF ItemKinds
      <4>4. Notice("resolved", c.on) \notin {Notice(x.what, x.turn) : x \in Items}
        BY <4>3, NoItem
      <4>5. SameItems
        BY <4>2, <4>4
      <4>6. ~Opens(Notice("resolved", c.on))
        BY NoticesDiffer DEF Opens
      <4> QED
        BY <4>2, <4>5, <4>6
    <3> QED
      BY <2>1, <3>1
  <2> QED
    BY <1>2, <2>2, <2>3, SameLog
<1>4. ASSUME NEW c \in pending, NEW m \in Answers, Settled(c, m)
      PROVE  /\ SameItems /\ UNCHANGED <<sock, overtaken>> /\ m \in Held(toClient) /\ m.for = c.for /\ m.kind = "answer"
             /\ \A r \in Held(toClient') : r \in Held(toClient)
             /\ \A x \in Items : x \in Log(loaded)' <=> x \in Log(loaded)
  <2>1. Held(toClient') \subseteq Held(toClient) /\ Held(toClient) \subseteq Held(toClient') \cup {m} /\ m \in Held(toClient)
    BY <1>4, Received DEF Settled
  <2>2. SameItems
    BY <2>1, NoItem
  <2>3. UNCHANGED <<sock, overtaken, loaded, turn, home>> /\ m.for = c.for /\ m.kind = "answer"
    BY <1>4, CallTypes DEF Settled
  <2>4. \A x \in Items : x \in Log(loaded)' <=> x \in Log(loaded)
    BY <2>3, SameLog
  <2> QED
    BY <2>1, <2>2, <2>3, <2>4
<1>5. ASSUME NEW c \in pending, NEW m \in Answers, Settled(c, m), ToPrompt(c, m) \/ ToFailure(c, m) \/ ToCatalog(c, m)
      PROVE  Book'
  <2>1. \A r \in Held(toClient') : Opens(r) => Shows(r.items)'
    BY <1>4, <1>5, SameShows DEF Book
  <2>2. pending' = pending \ {c}
    BY <1>5 DEF ToPrompt, ToFailure, ToCatalog
  <2>3. CASE ToPrompt(c, m) \/ ToFailure(c, m)
    <3>1. UNCHANGED <<snapshot, items>> /\ (session' = session \/ session' = "failed")
      BY <2>3 DEF ToPrompt, ToFailure
    <3>2. /\ Waits("catalog")' => Waits("catalog")
          /\ Live' => Live
      BY <1>4, <1>5, <2>2, <3>1 DEF Waits, Live
    <3>3. /\ Shows(snapshot) => Shows(snapshot)'
          /\ Shows(items) => Shows(items)'
      BY <1>4, <1>5, <3>1 DEF Shows
    <3> QED
      BY <1>4, <1>5, <2>1, <3>2, <3>3 DEF Book, Opens
  <2>4. CASE ToCatalog(c, m)
    <3>1. Waits("catalog") /\ c.for \in Stages /\ items' = snapshot
      BY <1>s, <2>4 DEF ToCatalog, Waits
    <3>2. ~Waits("catalog")'
      BY <1>s, <2>2, <3>1, OneStage DEF Waits
    <3>3. Shows(snapshot) => Shows(items)'
      BY <1>4, <1>5, <3>1 DEF Shows
    <3> QED
      BY <1>4, <1>5, <2>1, <3>1, <3>2, <3>3 DEF Book, Opens
  <2> QED
    BY <1>5, <2>3, <2>4
<1>6. ASSUME NEW c \in pending, NEW m \in Answers, Settled(c, m), NEW n \in Calls,
             ToInitialize(c, n) \/ ToThread(c, m, n) \/ ToRefusal(c, m, n)
      PROVE  Book'
  <2>1. c.for \in Stages /\ session' = session /\ pending' = (pending \ {c}) \cup {n}
    BY <1>6, <1>s DEF ToInitialize, ToThread, ToRefusal, CallsNext
  <2>2. ~Live'
    BY <1>4, <1>6, <2>1 DEF Live, Session
  <2>3. \A r \in Held(toClient') : Opens(r) => Shows(r.items)'
    BY <1>4, <1>6, SameShows DEF Book
  <2>4. CASE ToThread(c, m, n)
    <3>1. Opens(m) /\ m.items = snapshot'
      BY <1>4, <1>6, <2>4 DEF ToThread, Opens
    <3>2. Shows(m.items)
      BY <1>4, <1>6, <3>1 DEF Book
    <3>3. Shows(snapshot)'
      BY <1>4, <1>6, <3>1, <3>2 DEF Shows
    <3> QED
      BY <2>2, <2>3, <3>3 DEF Book, Opens
  <2>5. CASE ToInitialize(c, n) \/ ToRefusal(c, m, n)
    <3>1. n.for # "catalog"
      BY <2>5 DEF ToInitialize, ToRefusal
    <3>2. ~Waits("catalog")'
      BY <1>s, <2>1, <3>1, OneStage DEF Waits
    <3> QED
      BY <2>2, <2>3, <3>2 DEF Book, Opens
  <2> QED
    BY <1>6, <2>4, <2>5
<1>7. ASSUME NEW m \in Notices, Heard(m) PROVE Book'
  <2>1. /\ UNCHANGED <<sock, session, snapshot, pending, loaded, home, turn>> /\ m = Notice(m.kind, m.turn) /\ m.turn \in Prompts
        /\ Held(toClient') \subseteq Held(toClient) /\ Held(toClient) \subseteq Held(toClient') \cup {m} /\ m \in Held(toClient)
        /\ m = toClient[1] /\ 1 \in DOMAIN toClient /\ toClient # <<>> /\ toClient' = Tail(toClient)
    BY <1>7, Received, CallTypes DEF Heard
  <2>2. \A x \in Items : x \in Log(loaded)' <=> x \in Log(loaded)
    BY <2>1, SameLog
  <2>3. CASE m.kind \notin ItemKinds
    <3>1. items' = items
      BY <1>7, <2>3 DEF Heard, ItemKinds
    <3>2. overtaken' => overtaken
      BY <1>7, <3>1, Zenon DEF Heard
    <3>3. overtaken => overtaken'
      BY <1>7, <3>1, Zenon DEF Heard
    <3>4. SameItems
      BY <2>1, <2>3, NoItem
    <3>5. \A r \in Held(toClient') : Opens(r) => Shows(r.items)'
      BY <2>1, <2>2, <3>4, SameShows DEF Book
    <3>6. (Shows(snapshot) => Shows(snapshot)') /\ (Shows(items) => Shows(items)')
      BY <2>1, <2>2, <3>1, <3>4 DEF Shows
    <3>7. (Waits("catalog")' => Waits("catalog")) /\ (Live' => Live)
      BY <2>1 DEF Waits, Live
    <3> QED
      BY <3>2, <3>3, <3>5, <3>6, <3>7 DEF Book, Opens
  <2>4. CASE m.kind \in ItemKinds
    <3> DEFINE x == [turn |-> m.turn, what |-> m.kind]
    <3>1. x \in Items /\ x.turn = m.turn /\ x.what = m.kind
      BY <2>1, <2>4, ItemFacts
    <3>2. items' = items \cup {x}
      BY <1>7, <2>4 DEF Heard, ItemKinds
    <3>3. Setup => x \notin items
      BY <2>1, <2>4 DEF Once, ItemKinds
    <3> HIDE DEF x
    <3>4. Waits("catalog") => overtaken'
      <4>1. Waits("catalog") => items' # items
        BY <1>s, <3>2, <3>3 DEF Setup, Waits
      <4> QED
        BY <1>7, <4>1, Zenon DEF Heard
    <3>5. overtaken => overtaken'
      BY <1>7, Zenon DEF Heard
    <3>6. ASSUME NEW r \in Held(toClient') PROVE ~Opens(r)
      <4>1. ~Opens(toClient[1])
        BY <2>1, CallTypes DEF Opens
      <4> QED
        BY <2>1, <2>4, <4>1, TailOrder
    <3>7. Shows(items) => Shows(items)'
      <4>1. \A y \in Items : Notice(y.what, y.turn) = m <=> y = x
        BY <2>1, <3>1, ItemFacts, NoticesDiffer
      <4>2. \A y \in Items : Notice(y.what, y.turn) \in Held(toClient') \/ y = x <=> OnWay(y)
        BY <2>1, <4>1
      <4> QED
        BY <2>2, <3>2, <4>2 DEF Shows
    <3>8. (Waits("catalog")' => Waits("catalog")) /\ (Live' => Live)
      BY <2>1 DEF Waits, Live
    <3> QED
      BY <3>4, <3>5, <3>6, <3>7, <3>8 DEF Book, Opens
  <2> QED
    BY <2>3, <2>4
<1>8. ASSUME NEW p \in Prompts, Send(p) PROVE Book'
  <2>1. /\ UNCHANGED <<sock, session, items, snapshot, overtaken, pending, loaded, toClient, turn>>
        /\ home' = [home EXCEPT ![p] = thread] /\ pc[p] = "idle"
    BY <1>8 DEF Send, page, wire, server
  <2>2. turn[p] = "none"
    BY <2>1 DEF Sends
  <2>3. \A x \in Items : x \in Log(loaded)' <=> x \in Log(loaded)
    BY <2>1, <2>2, ItemFacts DEF Log
  <2> QED
    BY <1>2, <2>1, <2>3
<1>9. ASSUME NEW p \in Prompts, Attached(p) \/ Decide(p) PROVE Book'
  <2>1. UNCHANGED <<sock, session, items, snapshot, overtaken, loaded, toClient, turn, home>>
    BY <1>9 DEF Attached, Decide, page, server
  <2>2. Waits("catalog")' => Waits("catalog")
    BY <1>9, <1>s DEF Attached, Decide, page, Rpc, Settles, Waits
  <2>3. \A x \in Items : x \in Log(loaded)' <=> x \in Log(loaded)
    BY <2>1, SameLog
  <2>4. /\ \A m \in Held(toClient) : Shows(m.items) => Shows(m.items)'
        /\ (Shows(snapshot) => Shows(snapshot)') /\ (Shows(items) => Shows(items)')
    BY <2>1, <2>3 DEF Shows
  <2>5. Live' => Live
    BY <2>1 DEF Live
  <2> QED
    BY <2>1, <2>2, <2>4, <2>5 DEF Book, Opens
<1>10. ASSUME NEW p \in Prompts, NEW k \in ItemKinds, NEW l \in Kinds, l \notin ItemKinds,
              Tells(p, <<k, l>>) \/ Tells(p, <<l, k>>),
              \A q \in Prompts : q # p => turn'[q] = turn[q],
              \A x \in Items : x.turn = p => (Happened(x)' <=> Happened(x) \/ x.what = k),
              UNCHANGED <<sock, session, items, snapshot, overtaken, pending, loaded, home>>
       PROVE  Book'
  <2>1. k \in Kinds /\ [turn |-> p, what |-> k] \in Items
    BY ItemFacts
  <2>2. CASE loaded # home[p]
    <3>1. toClient' = toClient
      BY <1>10, <2>2 DEF Tells
    <3>2. \A x \in Items : x \in Log(loaded)' <=> x \in Log(loaded)
      BY <1>10, <2>2, ItemFacts DEF Log
    <3> QED
      BY <1>2, <1>10, <3>1, <3>2
  <2>3. CASE loaded = home[p]
    <3>1. Held(toClient') = Held(toClient) \cup {Notice(k, p), Notice(l, p)}
      <4>1. CASE Tells(p, <<k, l>>)
        <5>1. <<k, l>> \in Seq(Kinds) /\ Says(p, <<k, l>>) = {Notice(k, p), Notice(l, p)}
          BY <2>1, Sayings
        <5> QED
          BY <2>3, <4>1, <5>1, ServerSays
      <4>2. CASE Tells(p, <<l, k>>)
        <5>1. <<l, k>> \in Seq(Kinds) /\ Says(p, <<l, k>>) = {Notice(k, p), Notice(l, p)}
          <6>1. <<l, k>> \in Seq(Kinds) /\ Says(p, <<l, k>>) = {Notice(l, p), Notice(k, p)}
            BY <2>1, Sayings
          <6> QED
            BY <6>1
        <5> QED
          BY <2>3, <4>2, <5>1, ServerSays
      <4> QED
        BY <1>10, <4>1, <4>2
    <3> DEFINE x == [turn |-> p, what |-> k]
    <3>2. x.turn = p /\ x.what = k /\ x \in Items
      BY <2>1
    <3> HIDE DEF x
    <3>3. \A y \in Items : y # x => y.turn # p \/ y.what # k
      BY <3>2, ItemFacts
    <3>4. \A y \in Items : y \in Log(loaded)' <=> y \in Log(loaded) \/ y = x
      <4> SUFFICES ASSUME NEW y \in Items PROVE y \in Log(loaded)' <=> y \in Log(loaded) \/ y = x
        OBVIOUS
      <4>1. y \in Log(loaded) <=> home[y.turn] = loaded /\ Happened(y)
        BY DEF Log, Happened
      <4>2. y \in Log(loaded)' <=> home[y.turn] = loaded /\ Happened(y)'
        BY <1>10 DEF Log, Happened
      <4>3. y.turn # p => (Happened(y)' <=> Happened(y))
        BY <1>10, ItemFacts DEF Happened
      <4> QED
        BY <1>10, <2>3, <3>2, <3>3, <4>1, <4>2, <4>3
    <3>5. Notice(l, p) \notin {Notice(y.what, y.turn) : y \in Items}
      BY <1>10, NoItem
    <3>6. \A y \in Items : Notice(y.what, y.turn) \in Held(toClient') <=> OnWay(y) \/ y = x
      <4>1. \A y \in Items : Notice(y.what, y.turn) = Notice(k, p) <=> y = x
        BY <3>2, <3>3, NoticesDiffer
      <4> QED
        BY <3>1, <3>5, <4>1
    <3>7. ~Opens(Notice(k, p)) /\ ~Opens(Notice(l, p))
      BY NoticesDiffer, ItemFacts, <1>10 DEF Opens, Kinds
    <3>8. \A r \in Held(toClient) : Shows(r.items) => Shows(r.items)'
      BY <3>4, <3>6 DEF Shows
    <3>9. (Shows(snapshot) => Shows(snapshot)') /\ (Shows(items) => Shows(items)')
      BY <1>10, <3>4, <3>6 DEF Shows
    <3>10. (Waits("catalog")' => Waits("catalog")) /\ (Live' => Live)
      BY <1>10 DEF Waits, Live
    <3> QED
      BY <1>10, <3>1, <3>7, <3>8, <3>9, <3>10 DEF Book, Opens
  <2> QED
    BY <2>2, <2>3
<1>11. ASSUME NEW p \in Prompts, Begin(p) PROVE Book'
  <2>1. /\ UNCHANGED <<sock, session, items, snapshot, overtaken, pending, loaded, home>> /\ turn[p] = "queued"
        /\ Tells(p, <<"started", "asked">>) /\ turn' = [turn EXCEPT ![p] = "running"]
    BY <1>11 DEF Begin, page, view
  <2>2. "asked" \in ItemKinds /\ "started" \in Kinds /\ "started" \notin ItemKinds
    BY DEF ItemKinds, Kinds
  <2>3. \A x \in Items : x.turn = p => (Happened(x)' <=> Happened(x) \/ x.what = "asked")
    BY <2>1 DEF Happened
  <2> DEFINE k == "asked"  l == "started"
  <2>4. /\ k \in ItemKinds /\ l \in Kinds /\ l \notin ItemKinds /\ Tells(p, <<l, k>>)
        /\ \A x \in Items : x.turn = p => (Happened(x)' <=> Happened(x) \/ x.what = k)
        /\ \A q \in Prompts : q # p => turn'[q] = turn[q]
    BY <2>1, <2>2, <2>3
  <2> HIDE DEF k, l
  <2> QED
    BY <1>10, <2>1, <2>4
<1>12. ASSUME NEW p \in Prompts, End(p) PROVE Book'
  <2>1. /\ UNCHANGED <<sock, session, items, snapshot, overtaken, pending, loaded, home>> /\ turn[p] = "running"
        /\ Tells(p, <<"replied", "completed">>) /\ turn' = [turn EXCEPT ![p] = "done"]
    BY <1>12 DEF End, page, view
  <2>2. "replied" \in ItemKinds /\ "completed" \in Kinds /\ "completed" \notin ItemKinds
    BY DEF ItemKinds, Kinds
  <2>3. \A x \in Items : x.turn = p => (Happened(x)' <=> Happened(x) \/ x.what = "replied")
    BY <2>1, ItemFacts DEF Happened, ItemKinds
  <2> DEFINE k == "replied"  l == "completed"
  <2>4. /\ k \in ItemKinds /\ l \in Kinds /\ l \notin ItemKinds /\ Tells(p, <<k, l>>)
        /\ \A x \in Items : x.turn = p => (Happened(x)' <=> Happened(x) \/ x.what = k)
        /\ \A q \in Prompts : q # p => turn'[q] = turn[q]
    BY <2>1, <2>2, <2>3
  <2> HIDE DEF k, l
  <2> QED
    BY <1>10, <2>1, <2>4
<1>13. ASSUME NEW p \in Prompts, Approve(p) PROVE Book'
  <2>1. /\ UNCHANGED <<sock, session, items, snapshot, overtaken, pending, loaded, home, turn>>
        /\ Tells(p, <<"approve">>)
    BY <1>13 DEF Approve, page, view
  <2>2. Held(toClient') \subseteq Held(toClient) \cup {Notice("approve", p)} /\ Held(toClient) \subseteq Held(toClient')
    <3>1. <<"approve">> \in Seq(Kinds) /\ Says(p, <<"approve">>) = {Notice("approve", p)}
      BY Sayings DEF Kinds
    <3> QED
      BY <2>1, <3>1, ServerSays
  <2>3. "approve" \notin ItemKinds
    BY DEF ItemKinds
  <2>4. Notice("approve", p) \notin {Notice(x.what, x.turn) : x \in Items}
    BY <2>3, NoItem
  <2>5. SameItems
    BY <2>2, <2>4
  <2>6. ~Opens(Notice("approve", p))
    BY NoticesDiffer DEF Opens
  <2>7. \A m \in Held(toClient') : Opens(m) => m \in Held(toClient)
    BY <2>2, <2>6
  <2> QED
    BY <1>2, <2>1, <2>5, <2>7, SameLog
<1>14. ASSUME NEW c \in pending, NEW m \in Answers, Gives(c, m),
              Plainly(c, m) \/ Resumes(c, m) \/ Starts(c, m) \/ Queues(c, m)
       PROVE  Book'
  <2>1. /\ UNCHANGED <<sock, session, items, snapshot, overtaken, pending, home>> /\ c \in toServer
        /\ m.for = c.for /\ m.kind = "answer" /\ Held(toClient') = Held(toClient) \cup {m}
    BY <1>14, Given, CallTypes DEF Gives, page, view, Msgs
  <2>2. SameItems
    BY <2>1, NoItem
  <2>3. CASE Plainly(c, m) \/ Queues(c, m)
    <3>1. ~Opens(m) /\ loaded' = loaded
      BY <1>s, <2>1, <2>3 DEF Plainly, Queues, Opens
    <3>2. \A q \in Prompts : turn'[q] = turn[q] \/ (turn[q] = "none" /\ turn'[q] = "queued")
      BY <2>1, <2>3 DEF Plainly, Queues, Sends
    <3>3. \A x \in Items : x \in Log(loaded)' <=> x \in Log(loaded)
      BY <2>1, <3>1, <3>2, ItemFacts DEF Log
    <3>4. \A r \in Held(toClient') : Opens(r) => r \in Held(toClient)
      BY <2>1, <3>1
    <3> QED
      BY <1>2, <2>1, <2>2, <3>3, <3>4
  <2>4. CASE Resumes(c, m) \/ Starts(c, m)
    <3>1. c.for \in {"resume", "start"} /\ UNCHANGED turn /\ loaded = None
      BY <2>1, <2>4 DEF Resumes, Starts, Session, Called
    <3>2. ~Live' /\ ~Waits("catalog")'
      BY <1>s, <2>1, <3>1, OneStage DEF Live, Session, Waits
    <3>3. \A r \in Held(toClient) : ~Opens(r)
      BY <1>s, <2>1, <3>1, OneStage DEF Opens
    <3>4. \A x \in Items : ~OnWay(x)
      BY <3>1, NothingTold, ItemFacts, NoticesDiffer DEF ItemKinds
    <3>5. Log(loaded)' = m.items
      <4>1. CASE Resumes(c, m)
        BY <2>1, <3>1, <4>1 DEF Resumes, Log
      <4>2. CASE Starts(c, m)
        BY <2>1, <3>1, <4>2, ItemFacts DEF Starts, Log, Fresh
      <4> QED
        BY <2>4, <4>1, <4>2
    <3>6. Shows(m.items)'
      BY <2>2, <3>4, <3>5 DEF Shows
    <3> QED
      BY <2>1, <3>2, <3>3, <3>6 DEF Book, Opens
  <2> QED
    BY <1>14, <2>3, <2>4
<1> QED
  BY <1>1, <1>3, <1>5, <1>6, <1>7, <1>8, <1>9, <1>11, <1>12, <1>13, <1>14 DEF Step

-------------------------------------------------------------------------------
(* The composer *)

LEMMA InitLock == Init => Lock
  BY CodexAssumption DEF Init, Lock, CodexAssumption

\* What a turn needs to be waited for outlives every message put behind.
LEMMA RunsOn ==
  ASSUME NEW p \in Prompts, NEW i, Runs(p, i), loaded' = loaded, home'[p] = home[p],
         turn'[p] \in {"queued", "running"} \/ turn'[p] = turn[p],
         \A j \in DOMAIN toClient : j \in DOMAIN toClient' /\ toClient'[j] = toClient[j]
  PROVE  Runs(p, i)'
  BY DEF Runs

\* A message taken from the front was not the end that is waited for.
LEMMA RunsTail ==
  ASSUME Shape, toClient # <<>>, toClient' = Tail(toClient), UNCHANGED <<loaded, home, turn>>,
         NEW p \in Prompts, NEW i \in Nat, NEW k \in Nat, Runs(p, k),
         k = i + 1 \/ (k = i /\ i = 0 /\ Head(toClient) # Notice("completed", p))
  PROVE  Runs(p, i)'
<1>1. CASE turn[p] \in {"queued", "running"}
  BY <1>1 DEF Runs
<1>2. ASSUME NEW j \in DOMAIN toClient, j > k, toClient[j] = Notice("completed", p) PROVE Runs(p, i)'
  <2>1. j > 1
    <3>1. j \in Nat /\ (j = 1 => toClient[j] = Head(toClient))
      BY <1>2, Received DEF Shape
    <3> QED
      BY <1>2, <3>1
  <2>2. j - 1 \in DOMAIN toClient' /\ toClient'[j - 1] = Notice("completed", p) /\ j \in Nat
    BY <1>2, <2>1, Received DEF Shape
  <2>3. j - 1 > i
    BY <1>2, <2>1, <2>2
  <2> QED
    BY <2>2, <2>3 DEF Runs
<1> QED
  BY <1>1, <1>2 DEF Runs

\* A turn that is waited for has been started in a thread.
LEMMA RunsSent ==
  ASSUME Shape, Sends, Truthful, NEW p \in Prompts, NEW i, Runs(p, i)
  PROVE  turn[p] # "none" /\ loaded # None
<1>1. ASSUME NEW j \in DOMAIN toClient, toClient[j] = Notice("completed", p) PROVE turn[p] = "done"
  <2>1. Noticed(Notice("completed", p))
    BY <1>1 DEF Truthful, Held
  <2> QED
    BY <2>1, NoticesDiffer DEF Noticed
<1>2. turn[p] # "none" /\ home[p] = loaded
  BY <1>1 DEF Runs
<1> QED
  BY <1>2, CodexAssumption DEF Sends, Shape, CodexAssumption

\* What is put behind what is under way is a notice of what happened.
LEMMA SaidNow ==
  ASSUME Shape, NEW p \in Prompts, NEW kinds \in Seq(Kinds), Tells(p, kinds),
         NEW i \in DOMAIN toClient' \ DOMAIN toClient
  PROVE  loaded = home[p] /\ \E k \in DOMAIN kinds : toClient'[i] = Notice(kinds[k], p)
<1>1. \/ i \in DOMAIN toClient
      \/ loaded = home[p] /\ \E k \in DOMAIN kinds : i = Len(toClient) + k /\ toClient'[i] = Notice(kinds[k], p)
  BY ServerSays
<1> QED
  BY <1>1

LEMMA LockStep ==
  ASSUME Shape, Wire, Sends, Session, Truthful, Lock, Step
  PROVE  Lock'
<1> USE DEF Shape, TypeOK
<1>s. {"initialize", "resume", "start", "catalog"} = Stages /\ \A p \in Prompts : p \notin Stages /\ p # None
  BY CallTypes, CodexAssumption DEF Stages, CodexAssumption
<1>1. CASE Opened \/ Reconnect \/ Drop \/ Load
  <2>1. toClient' = <<>> /\ active' = None
    BY <1>1, DropLoses DEF Opened, Reconnect, Wire, OpenOnly, Loses, wire
  <2> QED
    BY <1>s, <2>1 DEF Lock
<1>2. ASSUME active' = active, loaded' = loaded, home' = home,
             \A p \in Prompts : \/ turn'[p] \in {"queued", "running"} \/ turn'[p] = turn[p],
             \A i \in DOMAIN toClient : i \in DOMAIN toClient' /\ toClient'[i] = toClient[i],
             \A i \in DOMAIN toClient' \ DOMAIN toClient, p \in Prompts : Locks(toClient'[i], p) => Runs(p, i)'
      PROVE  Lock'
  <2> SUFFICES ASSUME NEW p \in Prompts
               PROVE  /\ active' = p => Runs(p, 0)'
                      /\ \A i \in DOMAIN toClient' : Locks(toClient'[i], p) => Runs(p, i)'
    BY DEF Lock, Locks
  <2>1. \A i : Runs(p, i) => Runs(p, i)'
    BY <1>2, RunsOn
  <2>2. active' = p => Runs(p, 0)'
    BY <1>2, <2>1 DEF Lock
  <2>3. ASSUME NEW i \in DOMAIN toClient', Locks(toClient'[i], p) PROVE Runs(p, i)'
    <3>1. CASE i \in DOMAIN toClient
      BY <1>2, <2>1, <2>3, <3>1 DEF Lock
    <3>2. CASE i \notin DOMAIN toClient
      BY <1>2, <2>3, <3>2
    <3> QED
      BY <3>1, <3>2
  <2> QED
    BY <2>2, <2>3
<1>3. ASSUME active' = active, UNCHANGED <<loaded, home, turn>>, NEW p \in Prompts, NEW k \in Kinds, k # "started", Tells(p, <<k>>)
      PROVE  Lock'
  <2> DEFINE said == <<k>>
  <2>1. said \in Seq(Kinds) /\ \A j \in DOMAIN said : said[j] = k
    OBVIOUS
  <2>t. Tells(p, said)
    BY <1>3
  <2> HIDE DEF said
  <2>2. \A i \in DOMAIN toClient' \ DOMAIN toClient : toClient'[i] = Notice(k, p)
    BY <2>t, <2>1, SaidNow
  <2>3. \A q \in Prompts : ~Locks(Notice(k, p), q)
    BY <1>3, NoticesDiffer DEF Locks, Kinds
  <2>4. \A i \in DOMAIN toClient : i \in DOMAIN toClient' /\ toClient'[i] = toClient[i]
    BY <2>t, <2>1, ServerSays
  <2> QED
    BY <1>2, <1>3, <2>2, <2>3, <2>4
<1>4. CASE Resolve
  <2>1. PICK c \in toServer : c.for = "decision" /\ (Tells(c.on, <<"resolved">>) \/ UNCHANGED toClient)
    BY <1>4 DEF Resolve
  <2>2. UNCHANGED <<active, loaded, home, turn>> /\ c.on \in Prompts
    BY <1>4, <2>1, CallTypes, <1>s DEF Resolve, page, view
  <2>3. "resolved" \in Kinds
    BY DEF Kinds
  <2>4. CASE UNCHANGED toClient
    BY <1>2, <2>2, <2>4
  <2> QED
    BY <1>3, <2>1, <2>2, <2>3, <2>4
<1>5. ASSUME toClient # <<>>, toClient' = Tail(toClient), UNCHANGED <<loaded, home, turn>>,
             \A p \in Prompts : \/ active' # p
                                \/ active = p /\ Head(toClient) # Notice("completed", p)
                                \/ Locks(Head(toClient), p)
      PROVE  Lock'
  <2> SUFFICES ASSUME NEW p \in Prompts
               PROVE  /\ active' = p => Runs(p, 0)'
                      /\ \A i \in DOMAIN toClient' : Locks(toClient'[i], p) => Runs(p, i)'
    BY DEF Lock, Locks
  <2>1. /\ Head(toClient) = toClient[1] /\ 1 \in DOMAIN toClient
        /\ \A i \in DOMAIN toClient' : i \in Nat /\ i + 1 \in DOMAIN toClient /\ toClient'[i] = toClient[i + 1]
    BY <1>5, Received
  <2>2. ASSUME Locks(Head(toClient), p) PROVE Runs(p, 0)'
    <3>1. Runs(p, 1) /\ 0 \in Nat /\ 1 \in Nat /\ 1 = 0 + 1
      BY <2>1, <2>2 DEF Lock
    <3> QED
      BY <1>5, <3>1, RunsTail
  <2>3. ASSUME NEW i \in DOMAIN toClient', Locks(toClient'[i], p) PROVE Runs(p, i)'
    <3>1. Runs(p, i + 1) /\ i \in Nat /\ i + 1 \in Nat
      BY <2>1, <2>3 DEF Lock
    <3> QED
      BY <1>5, <3>1, RunsTail
  <2>4. ASSUME active' = p, active = p, Head(toClient) # Notice("completed", p) PROVE Runs(p, 0)'
    <3>1. Runs(p, 0)
      BY <2>4 DEF Lock
    <3> QED
      BY <1>5, <2>4, <3>1, RunsTail
  <2> QED
    BY <1>5, <2>2, <2>3, <2>4
<1>6. ASSUME NEW c \in pending, NEW m \in Answers, Settled(c, m),
             \/ ToPrompt(c, m) \/ ToFailure(c, m) \/ ToCatalog(c, m)
             \/ \E n \in Calls : ToInitialize(c, n) \/ ToThread(c, m, n) \/ ToRefusal(c, m, n)
      PROVE  Lock'
  <2>1. /\ toClient # <<>> /\ toClient' = Tail(toClient) /\ UNCHANGED <<loaded, home, turn>>
        /\ m = Head(toClient) /\ m.for = c.for /\ m.kind = "answer"
    BY <1>6, CallTypes DEF Settled
  <2>2. active' = active \/ (m.ok /\ active' = c.for)
    BY <1>6 DEF ToPrompt, ToFailure, ToCatalog, ToInitialize, ToThread, ToRefusal, CallsNext
  <2>3. \A p \in Prompts : m # Notice("completed", p)
    BY NoticesDiffer DEF Kinds
  <2>4. \A p \in Prompts : m.ok /\ p = c.for => Locks(m, p)
    BY <2>1 DEF Locks
  <2> QED
    BY <1>5, <2>1, <2>2, <2>3, <2>4
<1>7. ASSUME NEW m \in Notices, Heard(m) PROVE Lock'
  <2>1. /\ toClient # <<>> /\ toClient' = Tail(toClient) /\ UNCHANGED <<loaded, home, turn>>
        /\ m = Head(toClient) /\ m = Notice(m.kind, m.turn) /\ m.turn \in Prompts
    BY <1>7, CallTypes DEF Heard
  <2>2. \A p \in Prompts : \/ active' # p
                           \/ active = p /\ m.kind # "completed"
                           \/ m.kind = "started" /\ m.turn = p
    <3>1. CASE m.kind = "started"
      BY <1>7, <3>1 DEF Heard
    <3>2. CASE m.kind = "completed"
      <4>1. active' = None
        BY <1>7, <3>2 DEF Heard
      <4> QED
        BY <1>s, <4>1
    <3>3. CASE m.kind \notin {"started", "completed"}
      BY <1>7, <3>3 DEF Heard
    <3> QED
      BY <3>1, <3>2, <3>3
  <2>3. \A p \in Prompts : (m = Notice("completed", p) => m.kind = "completed")
                           /\ (m.kind = "started" /\ m.turn = p => Locks(m, p))
    BY <2>1, NoticesDiffer DEF Locks
  <2> QED
    BY <1>5, <2>1, <2>2, <2>3
<1>8. ASSUME NEW p \in Prompts, Send(p) PROVE Lock'
  <2>1. /\ UNCHANGED <<toClient, loaded, turn>> /\ active' = None
        /\ home' = [home EXCEPT ![p] = thread] /\ pc[p] = "idle"
    BY <1>8 DEF Send, page, wire, server
  <2>2. turn[p] = "none"
    BY <2>1 DEF Sends
  <2>3. \A i : ~Runs(p, i)
    BY <2>2, RunsSent
  <2>4. \A q \in Prompts : \A i : Runs(q, i) => Runs(q, i)'
    BY <2>1, <2>3 DEF Runs
  <2> QED
    BY <1>s, <2>1, <2>4 DEF Lock, Locks
<1>9. ASSUME NEW p \in Prompts, Attached(p) \/ Decide(p) PROVE Lock'
  <2>1. UNCHANGED <<active, toClient, loaded, turn, home>>
    BY <1>9 DEF Attached, Decide, page, server
  <2> QED
    BY <1>2, <2>1
<1>10. ASSUME NEW p \in Prompts, Begin(p) PROVE Lock'
  <2>1. /\ UNCHANGED <<active, loaded, home>> /\ Tells(p, <<"started", "asked">>) /\ turn' = [turn EXCEPT ![p] = "running"]
    BY <1>10 DEF Begin, page, view
  <2> DEFINE said == <<"started", "asked">>
  <2>2. said \in Seq(Kinds) /\ \A k \in DOMAIN said : said[k] \in {"started", "asked"}
    BY DEF Kinds
  <2>t. Tells(p, said)
    BY <2>1
  <2> HIDE DEF said
  <2>3. ASSUME NEW i \in DOMAIN toClient' \ DOMAIN toClient, NEW q \in Prompts, Locks(toClient'[i], q)
        PROVE  Runs(q, i)'
    <3>1. loaded = home[p] /\ toClient'[i] \in {Notice("started", p), Notice("asked", p)}
      BY <2>t, <2>2, <2>3, SaidNow
    <3>2. q = p
      BY <2>3, <3>1, NoticesDiffer DEF Locks
    <3> QED
      BY <2>1, <3>1, <3>2 DEF Runs
  <2>4. \A i \in DOMAIN toClient : i \in DOMAIN toClient' /\ toClient'[i] = toClient[i]
    BY <2>t, <2>2, ServerSays
  <2> QED
    BY <1>2, <2>1, <2>3, <2>4
<1>11. ASSUME NEW p \in Prompts, Approve(p) PROVE Lock'
  <2>1. UNCHANGED <<active, loaded, home, turn>> /\ Tells(p, <<"approve">>)
    BY <1>11 DEF Approve, page, view
  <2>2. "approve" \in Kinds /\ "approve" # "started"
    BY DEF Kinds
  <2> QED
    BY <1>3, <2>1, <2>2
<1>12. ASSUME NEW p \in Prompts, End(p) PROVE Lock'
  <2>1. /\ UNCHANGED <<active, loaded, home>> /\ Tells(p, <<"replied", "completed">>) /\ turn' = [turn EXCEPT ![p] = "done"]
    BY <1>12 DEF End, page, view
  <2> DEFINE kinds == <<"replied", "completed">>
  <2>2. kinds \in Seq(Kinds) /\ DOMAIN kinds = {1, 2} /\ kinds[1] = "replied" /\ kinds[2] = "completed"
    BY DEF Kinds
  <2> HIDE DEF kinds
  <2>3. Tells(p, kinds)
    BY <2>1 DEF kinds
  <2>4. /\ \A i \in DOMAIN toClient : i \in Nat /\ i \in DOMAIN toClient' /\ toClient'[i] = toClient[i]
        /\ \A i \in DOMAIN toClient' : i \in DOMAIN toClient \/ toClient'[i] \in {Notice("replied", p), Notice("completed", p)}
    <3>1. \A i \in DOMAIN toClient : i \in Nat /\ i \in DOMAIN toClient' /\ toClient'[i] = toClient[i]
      BY <2>2, <2>3, ServerSays
    <3>2. ASSUME NEW i \in DOMAIN toClient' \ DOMAIN toClient
          PROVE  toClient'[i] \in {Notice("replied", p), Notice("completed", p)}
      BY <2>2, <2>3, SaidNow
    <3> QED
      BY <3>1, <3>2
  <2>5. loaded = home[p] => \E j \in DOMAIN toClient' :
          toClient'[j] = Notice("completed", p) /\ j > 0 /\ \A i \in DOMAIN toClient : i < j
    <3> SUFFICES ASSUME loaded = home[p]
                 PROVE  \E j \in DOMAIN toClient' :
                          toClient'[j] = Notice("completed", p) /\ j > 0 /\ \A i \in DOMAIN toClient : i < j
      OBVIOUS
    <3>1. /\ Len(toClient) + 2 \in DOMAIN toClient' /\ toClient'[Len(toClient) + 2] = Notice("completed", p)
          /\ \A i \in DOMAIN toClient : i < Len(toClient) + 2
      BY <2>2, <2>3, ServerSays
    <3>2. Len(toClient) + 2 > 0
      OBVIOUS
    <3> QED
      BY <3>1, <3>2
  <2>6. ASSUME NEW q \in Prompts, NEW i \in DOMAIN toClient \cup {0}, Runs(q, i) PROVE Runs(q, i)'
    <3>1. CASE q # p
      BY <2>1, <2>4, <2>6, <3>1 DEF Runs
    <3>2. CASE q = p
      <4>1. loaded = home[p]
        BY <2>6, <3>2 DEF Runs
      <4>2. PICK j \in DOMAIN toClient' :
              toClient'[j] = Notice("completed", p) /\ j > 0 /\ \A k \in DOMAIN toClient : k < j
        BY <2>5, <4>1
      <4>3. j \in Nat /\ j > i
        <5>1. j \in Nat /\ \A k \in DOMAIN toClient : k \in Nat
          BY <2>2, <2>3, ServerSays
        <5> QED
          BY <4>2, <5>1
      <4> QED
        BY <2>1, <3>2, <4>1, <4>2, <4>3 DEF Runs
    <3> QED
      BY <3>1, <3>2
  <2>7. \A i \in DOMAIN toClient', q \in Prompts : Locks(toClient'[i], q) => i \in DOMAIN toClient
    BY <2>4, NoticesDiffer DEF Locks
  <2> QED
    BY <2>1, <2>4, <2>6, <2>7 DEF Lock, Locks
<1>13. ASSUME NEW c \in pending, NEW m \in Answers, Gives(c, m),
              Plainly(c, m) \/ Resumes(c, m) \/ Starts(c, m) \/ Queues(c, m)
       PROVE  Lock'
  <2>1. /\ UNCHANGED <<active, home>> /\ m.for = c.for /\ m.kind = "answer" /\ c \in toServer
        /\ toClient' = Append(toClient, m) /\ m \in Msgs
    BY <1>13, CallTypes DEF Gives, page, view, Msgs
  <2>2. /\ \A i \in DOMAIN toClient : i \in DOMAIN toClient' /\ toClient'[i] = toClient[i]
        /\ \A i \in DOMAIN toClient' \ DOMAIN toClient : toClient'[i] = m
    BY <2>1, Given
  <2>3. \A p \in Prompts : Locks(m, p) => m.ok /\ p = c.for
    BY <2>1, NoticesDiffer DEF Locks, Kinds
  <2>4. CASE Plainly(c, m)
    BY <1>2, <1>s, <2>1, <2>2, <2>3, <2>4 DEF Plainly
  <2>5. CASE Queues(c, m)
    <3>1. home[c.for] = loaded /\ turn' = [turn EXCEPT ![c.for] = "queued"] /\ c.for \in Prompts /\ loaded' = loaded
      BY <2>5 DEF Queues, Wire, CallsWaited
    <3>2. \A i \in DOMAIN toClient' \ DOMAIN toClient, p \in Prompts : Locks(toClient'[i], p) => Runs(p, i)'
      BY <2>1, <2>2, <2>3, <3>1 DEF Runs
    <3> QED
      BY <1>2, <2>1, <2>2, <3>1, <3>2
  <2>6. CASE Resumes(c, m) \/ Starts(c, m)
    <3>1. loaded = None /\ c.for \in Stages
      BY <1>s, <2>1, <2>6 DEF Resumes, Starts, Session, Called
    <3>2. \A p \in Prompts : \A i : ~Runs(p, i)
      BY <3>1, RunsSent
    <3>3. \A p \in Prompts : active # p /\ \A i \in DOMAIN toClient : ~Locks(toClient[i], p)
      BY <3>2 DEF Lock
    <3>4. \A p \in Prompts, i \in DOMAIN toClient' : ~Locks(toClient'[i], p)
      BY <1>s, <2>2, <2>3, <3>1, <3>3
    <3> QED
      BY <2>1, <3>3, <3>4 DEF Lock, Locks
  <2> QED
    BY <1>13, <2>4, <2>5, <2>6
<1> QED
  BY <1>1, <1>4, <1>6, <1>7, <1>8, <1>9, <1>10, <1>11, <1>12, <1>13 DEF Step

-------------------------------------------------------------------------------
(* The inductive invariant and the theorems *)

CodexInv ==
  Shape /\ Wire /\ Sends /\ Session /\ Approvals /\ Truthful /\ Once /\ Ordered /\ Book /\ Lock

LEMMA InitInv == Init => CodexInv
  BY InitShape, InitWire, InitApprovals, InitSession, InitTruthful, InitOrder, InitBook, InitLock DEF CodexInv

LEMMA StepInv ==
  ASSUME CodexInv, Step
  PROVE  CodexInv'
<1>1. Shape'
  BY ShapeStep DEF CodexInv
<1>2. Wire' /\ Sends'
  BY <1>1, WireStep DEF CodexInv
<1>3. Approvals' /\ Session' /\ Truthful'
  BY ApprovalsStep, SessionStep, TruthfulStep DEF CodexInv
<1>4. Once' /\ Ordered' /\ Book' /\ Lock'
  BY OrderStep, BookStep, LockStep DEF CodexInv
<1> QED
  BY <1>1, <1>2, <1>3, <1>4 DEF CodexInv

LEMMA Stutter ==
  ASSUME CodexInv, UNCHANGED vars
  PROVE  CodexInv'
<1> USE DEF vars, page, view, wire, server, bounds
<1>1. Shape' /\ Wire' /\ Sends'
  BY DEF CodexInv, Shape, TypeOK, Wire, OpenOnly, OneCall, CallsWaited, AnswersWaited, AnsweredOnce, CallsGo,
         Held, Sends
<1>2. Approvals' /\ Session'
  BY DEF CodexInv, Approvals, Held, Session, Called, Fits, HasTurn, Live
<1>3. Truthful' /\ Once' /\ Ordered'
  BY DEF CodexInv, Truthful, Noticed, Happened, Held, Once, Setup, Ordered
<1>4. \A shown : Shows(shown)' <=> Shows(shown)
  BY DEF Shows, Held, Log
<1>5. Book' /\ Lock'
  BY <1>4 DEF CodexInv, Book, Held, Waits, Live, Lock, Runs
<1> QED
  BY <1>1, <1>2, <1>3, <1>5 DEF CodexInv

LEMMA NextInv == CodexInv /\ [Next]_vars => CodexInv'
<1>1. CodexInv /\ Next => CodexInv'
  BY NextSteps, StepInv DEF CodexInv
<1> QED
  BY <1>1, Stutter

LEMMA InvAlways == Spec => []CodexInv
  BY InitInv, NextInv, PTL DEF Spec

\* The answer to a waiting call that is not on the wire is on its way back.
LEMMA InvInFlight == CodexInv => InFlight
<1> SUFFICES ASSUME CodexInv PROVE InFlight
  OBVIOUS
<1>1. CallsInFlight
  BY DEF CodexInv, Wire, OpenOnly, CallsGo, Held, CallsInFlight
<1>2. ApprovalsInFlight
  BY DEF CodexInv, Approvals, Held, ApprovalsInFlight
<1> QED
  BY <1>1, <1>2 DEF InFlight

\* With nothing left to receive, what is shown is all that is stored.
LEMMA InvScreen == CodexInv => ScreenAgrees
<1> SUFFICES ASSUME CodexInv PROVE ScreenAgrees
  OBVIOUS
<1>1. ASSUME Quiet, ~overtaken
      PROVE  items = Log(thread) /\ \A p \in local : [turn |-> p, what |-> "asked"] \notin items
  <2>1. Live /\ Held(toClient) = {} /\ loaded = thread
    BY <1>1 DEF CodexInv, Quiet, Live, Held, Session
  <2>2. \A x \in Items : x \in Log(thread) <=> x \in items
    BY <1>1, <2>1 DEF CodexInv, Book, Shows
  <2>3. items \subseteq Items /\ Log(thread) \subseteq Items
    BY DEF CodexInv, Shape, TypeOK, Log
  <2> QED
    BY <2>2, <2>3 DEF CodexInv, Truthful
<1>2. ASSUME Quiet, \A p \in Prompts : home[p] = thread => turn[p] \in {"none", "done"}
      PROVE  active = None
  <2>1. loaded = thread /\ DOMAIN toClient = {}
    BY <1>2 DEF CodexInv, Quiet, Live, Session
  <2>2. ASSUME NEW p \in Prompts, active = p PROVE FALSE
    <3>1. Runs(p, 0)
      BY <2>2 DEF CodexInv, Lock
    <3> QED
      BY <1>2, <2>1, <3>1 DEF Runs
  <2> QED
    BY <2>2 DEF CodexInv, Shape, TypeOK
<1> QED
  BY <1>1, <1>2 DEF ScreenAgrees, ShowsThread, IdleUnlocked

\* Whatever the prompts, the threads and the connections lost, a reconnection
\* is scheduled exactly while the socket is closed, and every call, answer and
\* notice has the form that handleMessage expects.
THEOREM ClientTypes == Spec => []TypeOK
<1>1. CodexInv => TypeOK
  BY DEF CodexInv, Shape
<1> QED
  BY <1>1, InvAlways, PTL

\* No promise of rpc and no approval of a turn waits for something that is
\* nowhere: the close handler rejects every call of the connection, each call
\* on an open one is on the wire or answered, and each open approval is a card
\* or under way.
THEOREM NobodyWaits == Spec => []InFlight
  BY InvInFlight, InvAlways, PTL

\* After any number of lost connections and page loads the timeline is what the
\* server has stored, each prompt shown once, and send is not refused for a
\* turn whose end was lost with a connection.
THEOREM ScreenTrue == Spec => []ScreenAgrees
  BY InvScreen, InvAlways, PTL

\* A conversation is forgotten only by a connection lost during its
\* thread/resume: no other order of calls, refusals, drops and page loads makes
\* establishSession overwrite the saved thread.
THEOREM ThreadIsKept == Spec => KeepsThread
<1>1. CodexInv /\ [Next]_vars => [HasTurn(saved) /\ saved' # saved => Waits("resume") /\ sock' = "closed"]_vars
  BY NextSteps, ThreadKept DEF CodexInv
<1> QED
  BY <1>1, InvAlways, PTL DEF Spec, KeepsThread

===============================================================================
