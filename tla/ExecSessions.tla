------------------------------ MODULE ExecSessions ------------------------------
(***************************************************************************)
(* Interactive terminals: Terminal.vue starts a session of                 *)
(* IncusExecService by a mutation, types into it and stops it when it is   *)
(* unmounted; the service keeps a session per pair of websockets to Incus. *)
(* A session goes by its terminal.  Incus is external.  The names leave    *)
(* those of JailPanel alone, which models the rest of the same service.    *)
(***************************************************************************)
EXTENDS Naturals, FiniteSets

CONSTANTS
  Terminals,   \* terminals opened, each once
  MaxSessions, \* MAX_SESSIONS
  MaxFaults    \* bound: lost calls and answers, refusals of Incus, vanished tabs, restarts

ASSUME ExecAssumption ==
  IsFiniteSet(Terminals) /\ MaxSessions \in Nat \ {0} /\ MaxFaults \in Nat

VARIABLES
  term,    \* the component: "leaving" is unmounted with startJailExec under way
  stops,   \* stopJailExec calls under way
  req,     \* startJailExec on the server
  pending, \* pendingSessions
  sess,    \* sessions
  io, control, \* the two websockets of a session
  faults,  \* counter of the bound
  lost     \* history: terminals whose call or answer was lost

client   == <<term, stops>>
socks    == <<io, control>>
service  == <<req, pending, sess, socks>>
execVars == <<client, service, faults, lost>>

ExecFault == faults < MaxFaults /\ faults' = faults + 1
Live == {"connecting", "open"}

ExecInit ==
  /\ term = [t \in Terminals |-> "new"] /\ stops = {}
  /\ req = [t \in Terminals |-> "none"] /\ pending = 0 /\ sess = {}
  /\ io = [t \in Terminals |-> "none"] /\ control = [t \in Terminals |-> "none"]
  /\ faults = 0 /\ lost = {}

-------------------------------------------------------------------------------
(* The server: start *)

\* Slip: one session too many.
TooManyByOne == Cardinality(sess) + pending > MaxSessions

\* The limit counts the sessions that are being set up.
TooMany == Cardinality(sess) + pending >= MaxSessions

Request(t) ==
  /\ term[t] \in {"calling", "leaving"} /\ req[t] = "none"
  /\ \/ /\ TooMany /\ req' = [req EXCEPT ![t] = "refused"] /\ UNCHANGED pending
     \/ /\ ~TooMany /\ req' = [req EXCEPT ![t] = "asked"] /\ pending' = pending + 1
  /\ UNCHANGED <<client, sess, socks, faults, lost>>

\* Incus answers requestExec: both websockets are opened, the session is kept.
Granted(t) ==
  /\ req[t] = "asked" /\ req' = [req EXCEPT ![t] = "served"] /\ pending' = pending - 1
  /\ sess' = sess \cup {t}
  /\ io' = [io EXCEPT ![t] = "connecting"] /\ control' = [control EXCEPT ![t] = "connecting"]
  /\ UNCHANGED <<client, faults, lost>>

\* Slip: only a session that is kept is taken off the count.
RefusedKeepsCount(t) ==
  /\ req[t] = "asked" /\ ExecFault /\ req' = [req EXCEPT ![t] = "refused"]
  /\ UNCHANGED <<pending, client, sess, socks, lost>>

\* Incus refuses, or its answer lacks a websocket.
Refused(t) ==
  /\ req[t] = "asked" /\ ExecFault /\ req' = [req EXCEPT ![t] = "refused"]
  /\ pending' = pending - 1
  /\ UNCHANGED <<client, sess, socks, lost>>

-------------------------------------------------------------------------------
(* The server: the life of a session *)

\* cleanupSession: a socket is terminated or closed; nothing if it is gone.
Cleanup(t) ==
  /\ sess' = sess \ {t}
  /\ io' = [io EXCEPT ![t] = "closed"] /\ control' = [control EXCEPT ![t] = "closed"]

Opens(t) ==
  /\ \/ io[t] = "connecting" /\ io' = [io EXCEPT ![t] = "open"] /\ UNCHANGED control
     \/ control[t] = "connecting" /\ control' = [control EXCEPT ![t] = "open"] /\ UNCHANGED io
  /\ UNCHANGED <<client, req, pending, sess, faults, lost>>

\* The shell exits or Incus closes a socket, in any state of it; the idle or
\* the lifetime timer runs out.
Over(t) ==
  /\ t \in sess /\ Cleanup(t)
  /\ UNCHANGED <<client, req, pending, faults, lost>>

\* stopJailExec
StopSession(t) ==
  /\ t \in stops /\ stops' = stops \ {t}
  /\ \/ t \in sess /\ Cleanup(t)
     \/ t \notin sess /\ UNCHANGED <<sess, socks>>
  /\ UNCHANGED <<term, req, pending, faults, lost>>

\* The API process ends, with all its sockets; its calls under way fail.
ServiceRestarts ==
  /\ ExecFault
  /\ req' = [t \in Terminals |-> IF req[t] = "asked" THEN "refused" ELSE req[t]]
  /\ pending' = 0 /\ sess' = {}
  /\ io' = [t \in Terminals |-> IF io[t] \in Live THEN "closed" ELSE io[t]]
  /\ control' = [t \in Terminals |-> IF control[t] \in Live THEN "closed" ELSE control[t]]
  /\ UNCHANGED <<client, lost>>

-------------------------------------------------------------------------------
(* The terminal *)

Becomes(t, s) == term' = [term EXCEPT ![t] = s]

\* start, after the emulator is loaded; a terminal closed before that calls nothing.
Mount(t) ==
  /\ term[t] = "new" /\ Becomes(t, "calling")
  /\ UNCHANGED <<stops, service, faults, lost>>

\* Slip: a session that starts after the terminal was closed is left alone.
StartedLeaves(t) ==
  /\ req[t] = "served"
  /\ \/ term[t] = "calling" /\ Becomes(t, "connected")
     \/ term[t] = "leaving" /\ Becomes(t, "closed")
  /\ UNCHANGED <<stops, service, faults, lost>>

\* startJailExec is answered; an orphan is stopped.
SessionStarted(t) ==
  /\ req[t] = "served"
  /\ \/ term[t] = "calling" /\ Becomes(t, "connected") /\ UNCHANGED stops
     \/ term[t] = "leaving" /\ Becomes(t, "closed") /\ stops' = stops \cup {t}
  /\ UNCHANGED <<service, faults, lost>>

Fails(t) ==
  \/ term[t] = "calling" /\ Becomes(t, "disconnected")
  \/ term[t] = "leaving" /\ Becomes(t, "closed")

\* startJailExec fails.
SessionFails(t) ==
  /\ req[t] = "refused" /\ Fails(t)
  /\ UNCHANGED <<stops, service, faults, lost>>

\* The call or its answer is lost on the way.
StartLost(t) ==
  /\ req[t] # "refused" /\ Fails(t)
  /\ ExecFault /\ lost' = lost \cup {t}
  /\ UNCHANGED <<stops, service>>

\* sendJailExecInput, resizeJailExec: an unknown session is an error, a
\* socket that is not open yet or no longer drops what was typed.
Type(t) ==
  /\ term[t] = "connected" /\ t \notin sess /\ Becomes(t, "disconnected")
  /\ UNCHANGED <<stops, service, faults, lost>>

\* stop: unmounted; the session is stopped if its number is known.
Close(t) ==
  /\ \/ term[t] = "calling" /\ Becomes(t, "leaving") /\ UNCHANGED stops
     \/ /\ term[t] \in {"connected", "disconnected"} /\ Becomes(t, "closed")
        /\ stops' = IF req[t] = "served" /\ t \notin lost THEN stops \cup {t} ELSE stops
  /\ UNCHANGED <<service, faults, lost>>

\* stopJailExec is lost, or the tab goes away without calling it.
StopLost(t) ==
  /\ t \in stops /\ stops' = stops \ {t} /\ ExecFault /\ lost' = lost \cup {t}
  /\ UNCHANGED <<term, service>>

Vanish(t) ==
  /\ term[t] \in {"calling", "leaving", "connected", "disconnected"} /\ Becomes(t, "closed")
  /\ ExecFault /\ lost' = lost \cup {t}
  /\ UNCHANGED <<stops, service>>

-------------------------------------------------------------------------------
ExecNext ==
  \/ \E t \in Terminals :
       \/ Request(t) \/ Granted(t) \/ Refused(t) \/ Opens(t) \/ Over(t) \/ StopSession(t)
       \/ Mount(t) \/ SessionStarted(t) \/ SessionFails(t) \/ StartLost(t) \/ Type(t) \/ Close(t) \/ StopLost(t) \/ Vanish(t)
  \/ ServiceRestarts

ExecSpec == ExecInit /\ [][ExecNext]_execVars

FairExecSpec ==
  /\ ExecSpec
  /\ \A t \in Terminals : /\ WF_execVars(Request(t)) /\ WF_execVars(Granted(t)) /\ WF_execVars(StopSession(t))
                          /\ WF_execVars(SessionStarted(t)) /\ WF_execVars(SessionFails(t))

-------------------------------------------------------------------------------
\* Type correctness; the sessions being set up never exceed the limit.
ExecTypeOK ==
  /\ term \in [Terminals -> {"new", "calling", "leaving", "connected", "disconnected", "closed"}]
  /\ req \in [Terminals -> {"none", "asked", "refused", "served"}]
  /\ stops \subseteq Terminals /\ sess \subseteq Terminals /\ lost \subseteq Terminals
  /\ pending \in 0 .. MaxSessions
  /\ io \in [Terminals -> Live \cup {"none", "closed"}]
  /\ control \in [Terminals -> Live \cup {"none", "closed"}]

\* The limit is kept exactly: it counts each session under way once, no
\* failure leaves one counted, and a websocket to Incus, hence a shell, lives
\* only as long as its session is counted, both sockets or none.
Accounted ==
  /\ pending = Cardinality({t \in Terminals : req[t] = "asked"})
  /\ Cardinality(sess) + pending <= MaxSessions
  /\ \A t \in Terminals : /\ t \in sess => io[t] \in Live /\ control[t] \in Live
                          /\ t \notin sess => io[t] \notin Live /\ control[t] \notin Live

\* A session ends with its terminal, without waiting for the timers, also when
\* the terminal is closed before startJailExec is answered; unless a call or
\* an answer is lost.
Stopped ==
  \A t \in Terminals :
    <>[](term[t] \in {"leaving", "closed"} => t \in lost \/ t \notin sess)
===============================================================================
