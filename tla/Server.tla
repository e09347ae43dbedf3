------------------------------- MODULE Server -------------------------------
(***************************************************************************)
(* The life of the process and of the requests in it: main                 *)
(* (src/cmd/api/main.go), the connection pool (src/internal/database) and  *)
(* the handlers (src/internal/httpapi).                                    *)
(*                                                                         *)
(* A handler is the sequence of its uses of what lies outside the process: *)
(* a statement or a transaction on a connection of the pool, the ping of   *)
(* the readiness probe, a message to the mail server.  Whatever it writes  *)
(* is in the modules of the components; here are the connections it needs, *)
(* and what is left of it when its client goes or the process ends.  The   *)
(* mail server may never answer: smtp.SendMail takes no context.           *)
(***************************************************************************)
EXTENDS Naturals, Sequences, FiniteSets

CONSTANTS
  Reqs,        \* the requests that may arrive
  Kinds,       \* the handlers they may ask for
  MaxConns     \* DATABASE_MAX_CONNECTIONS

\* int32Env refuses a limit below 1.
ASSUME PoolAssumption == MaxConns \in Nat \ {0}

\* What a handler may use: one statement, a transaction, a ping, a message.
Use == {"query", "tx", "ping", "mail"}

\* Two statements, one after the other.
ListCapabilities == <<"query", "query">>

\* The session with its user, and what the user may do.
Authenticate == <<"query">> \o ListCapabilities

\* The user again, after a change that has been committed.
LoadUser == <<"query">> \o ListCapabilities

RequireOwner == <<"query">>

\* What each handler asks of the pool and of the mail server, in order, when
\* nothing fails.  Handlers that ask for the same share a name: a list or a
\* change in one statement is ownerVenues, or venueRecord where it is about a
\* part of one venue, and a new item or a new order of the menu is venueMenu.
Uses ==
  [ health               |-> <<>>,
    ready                |-> <<"ping">>,
    register             |-> <<"tx">>,
    login                |-> <<"query", "query", "tx">> \o ListCapabilities,
    logout               |-> <<"query">>,
    me                   |-> Authenticate,
    requestPasswordReset |-> <<"query", "tx", "mail">>,
    resetPassword        |-> <<"tx">>,
    changePassword       |-> Authenticate \o <<"tx">>,
    changeEmail          |-> Authenticate \o <<"tx">> \o LoadUser,
    updateProfile        |-> Authenticate \o <<"query">> \o ListCapabilities,
    updateAvatar         |-> Authenticate \o <<"query">> \o LoadUser,
    avatar               |-> Authenticate \o <<"query">>,
    ownerVenues          |-> Authenticate \o <<"query">>,
    createVenue          |-> Authenticate \o <<"tx">>,
    ownerSubscription    |-> Authenticate \o <<"query", "tx">>,
    venueRecord          |-> Authenticate \o RequireOwner \o <<"query">>,
    venueMenu            |-> Authenticate \o RequireOwner \o <<"tx">> ]

ASSUME KindsAssumption == Kinds \subseteq DOMAIN Uses

VARIABLES
  main,        \* where main is
  forced,      \* the process ended, or closed connections, with work left
  pc,          \* where each request is
  todo,        \* the uses each request has left, the current one first
  held,        \* the requests that hold a connection of the pool
  gone,        \* the requests whose connection to the client is closed
  late         \* the requests past the WriteTimeout

vars == <<main, forced, pc, todo, held, gone, late>>

Active == {"waiting", "running", "sending", "answering"}

Places == Active \cup {"idle", "answered", "lost", "killed"}

TypeOK ==
  /\ main \in {"starting", "serving", "draining", "closingPool", "exited"}
  /\ forced \in BOOLEAN
  /\ pc \in [Reqs -> Places]
  /\ todo \in [Reqs -> Seq(Use)]
  /\ held \subseteq Reqs
  /\ Cardinality(held) <= MaxConns
  /\ gone \subseteq Reqs /\ late \subseteq Reqs

Init ==
  /\ main = "starting"
  /\ forced = FALSE
  /\ pc = [r \in Reqs |-> "idle"]
  /\ todo = [r \in Reqs |-> <<>>]
  /\ held = {} /\ gone = {} /\ late = {}

-----------------------------------------------------------------------------
(* main                                                                     *)

\* The configuration is read, the pool opened and the services made.
StartServing ==
  /\ main = "starting"
  /\ main' = "serving"
  /\ UNCHANGED <<forced, pc, todo, held, gone, late>>

\* The process ends, with every handler that is still running.
Exit ==
  /\ main' = "exited"
  /\ pc' = [r \in Reqs |-> IF pc[r] \in Active THEN "killed" ELSE pc[r]]
  /\ held' = {}
  /\ UNCHANGED <<todo, gone, late>>

\* os.Exit(1): one of the steps of the start, or ListenAndServe, has failed.
Fatal ==
  /\ main \in {"starting", "serving"}
  /\ forced' = TRUE
  /\ Exit

\* SIGINT or SIGTERM; a second signal stays in the channel.
Signal ==
  /\ main = "serving"
  /\ main' = "draining"
  /\ UNCHANGED <<forced, pc, todo, held, gone, late>>

\* Variant: main goes on as soon as ListenAndServe has returned.
DrainedAtOnce ==
  /\ main = "draining"
  /\ main' = "closingPool"
  /\ UNCHANGED <<forced, pc, todo, held, gone, late>>

\* Shutdown has found no connection with a request on it.
Drained ==
  /\ main = "draining"
  /\ \A r \in Reqs : pc[r] \notin Active
  /\ main' = "closingPool"
  /\ UNCHANGED <<forced, pc, todo, held, gone, late>>

\* SHUTDOWN_TIMEOUT is over: Close drops the connections to the clients.
Timeout ==
  /\ main = "draining"
  /\ \E r \in Reqs : pc[r] \in Active
  /\ main' = "closingPool"
  /\ forced' = TRUE
  /\ gone' = gone \cup {r \in Reqs : pc[r] \in Active}
  /\ UNCHANGED <<pc, todo, held, late>>

\* Variant: the end of the process waits for every handler.
ReturnLast ==
  /\ main = "closingPool"
  /\ \A r \in Reqs : pc[r] \notin Active
  /\ UNCHANGED forced
  /\ Exit

\* The deferred Close of the pool waits for its connections; main returns.
Return ==
  /\ main = "closingPool"
  /\ held = {}
  /\ UNCHANGED forced
  /\ Exit

Main == StartServing \/ Drained \/ Timeout \/ Return

-----------------------------------------------------------------------------
(* The handlers                                                             *)

\* Where a handler with these uses left goes on.
Place(uses) ==
  IF uses = <<>> THEN "answering"
  ELSE IF Head(uses) = "mail" THEN "sending" ELSE "waiting"

Continue(r, uses) ==
  /\ todo' = [todo EXCEPT ![r] = uses]
  /\ pc' = [pc EXCEPT ![r] = Place(uses)]

\* A request is read, while draining too, from a connection that was
\* accepted before.
Accept(r) ==
  /\ main \in {"serving", "draining"}
  /\ pc[r] = "idle"
  /\ \E k \in Kinds : Continue(r, Uses[k])
  /\ UNCHANGED <<main, forced, held, gone, late>>

\* Variant: the pool opens one connection more than it may.
AcquireOver(r) ==
  /\ main \in {"serving", "draining"}
  /\ pc[r] = "waiting"
  /\ Cardinality(held) <= MaxConns
  /\ held' = held \cup {r}
  /\ pc' = [pc EXCEPT ![r] = "running"]
  /\ UNCHANGED <<main, forced, todo, gone, late>>

\* The pool lends a connection to the next use.
Acquire(r) ==
  /\ main \in {"serving", "draining"}
  /\ pc[r] = "waiting"
  /\ Cardinality(held) < MaxConns
  /\ held' = held \cup {r}
  /\ pc' = [pc EXCEPT ![r] = "running"]
  /\ UNCHANGED <<main, forced, todo, gone, late>>

\* Variant: Ping with the context of the request, which has no timeout.
GiveUpPatient(r) ==
  /\ pc[r] = "waiting" /\ main = "closingPool"
  /\ Continue(r, <<>>)
  /\ UNCHANGED <<main, forced, held, gone, late>>

\* The wait for a connection ends with the context of a client that has
\* gone, where net/http has noticed.
Cancel(r) ==
  /\ pc[r] = "waiting" /\ r \in gone
  /\ Continue(r, <<>>)
  /\ UNCHANGED <<main, forced, held, gone, late>>

\* A use ends without the database: the pool is closed, or the ping has
\* lasted two seconds.
GiveUp(r) ==
  /\ \/ pc[r] = "waiting" /\ main = "closingPool"
     \/ pc[r] \in {"waiting", "running"} /\ Head(todo[r]) = "ping"
  /\ Continue(r, <<>>)
  /\ held' = held \ {r}
  /\ UNCHANGED <<main, forced, gone, late>>

\* Variant: the message is sent before the COMMIT that ends the transaction.
FinishLater(r) ==
  /\ pc[r] = "running"
  /\ \E uses \in {Tail(todo[r]), <<>>} :
       /\ Continue(r, uses)
       /\ held' = IF Place(uses) = "sending" THEN held ELSE held \ {r}
  /\ UNCHANGED <<main, forced, gone, late>>

\* Variant: an early return that leaves its transaction open.
FinishOpen(r) ==
  /\ pc[r] = "running"
  /\ \E uses \in {Tail(todo[r]), <<>>} :
       /\ Continue(r, uses)
       /\ held' = IF uses = Tail(todo[r]) THEN held \ {r} ELSE held
  /\ UNCHANGED <<main, forced, gone, late>>

\* PostgreSQL answers, or the connection fails: the handler goes on, or it
\* returns early and its deferred Rollback gives the connection back.
Finish(r) ==
  /\ pc[r] = "running"
  /\ \E uses \in {Tail(todo[r]), <<>>} : Continue(r, uses)
  /\ held' = held \ {r}
  /\ UNCHANGED <<main, forced, gone, late>>

\* The mail server answers.  A message that is refused has its reset link
\* withdrawn, in a statement of its own.
Send(r) ==
  /\ pc[r] = "sending"
  /\ \E uses \in {Tail(todo[r]), <<"query">>} : Continue(r, uses)
  /\ UNCHANGED <<main, forced, held, gone, late>>

\* The handler writes its response, to a client that may not be there.
Answer(r) ==
  /\ pc[r] = "answering"
  /\ pc' = [pc EXCEPT ![r] = IF r \in gone \cup late THEN "lost" ELSE "answered"]
  /\ UNCHANGED <<main, forced, todo, held, gone, late>>

\* The client closes the connection; net/http may cancel the context.
Leave(r) ==
  /\ pc[r] \in Active /\ r \notin gone
  /\ gone' = gone \cup {r}
  /\ UNCHANGED <<main, forced, pc, todo, held, late>>

\* The WriteTimeout is over, and nobody notices before the response.
Overrun(r) ==
  /\ pc[r] \in Active /\ r \notin gone \cup late
  /\ late' = late \cup {r}
  /\ UNCHANGED <<main, forced, pc, todo, held, gone>>

Next ==
  \/ Main \/ Fatal \/ Signal
  \/ \E r \in Reqs :
       \/ Accept(r) \/ Acquire(r) \/ Cancel(r) \/ GiveUp(r) \/ Finish(r)
       \/ Send(r) \/ Answer(r) \/ Leave(r) \/ Overrun(r)
  \/ main = "exited" /\ UNCHANGED vars

Spec == Init /\ [][Next]_vars

\* main goes on, its timeout runs out, and the scheduler and the pool serve
\* every handler; the mail server and PostgreSQL need not answer, and net/http
\* need not notice that a client has gone: it reads the body first.
Fairness ==
  /\ WF_vars(Main)
  /\ \A r \in Reqs : WF_vars(Acquire(r)) /\ WF_vars(GiveUp(r)) /\ WF_vars(Answer(r))

FairSpec == Spec /\ Fairness

-----------------------------------------------------------------------------
(* Properties                                                               *)

\* A handler holds a connection only while it uses it: never while it waits
\* for another, which with every connection held would wait for ever, never
\* while it talks to the mail server, and never once it has returned.
HeldOnlyInUse == \A r \in held : pc[r] = "running"

\* A process that ends without a failure and within SHUTDOWN_TIMEOUT has let
\* every handler come to its end, the message of a reset link sent, and has
\* answered every client that was still there and within the WriteTimeout.
OrderlyShutdown ==
  main = "exited" /\ ~forced
    => \A r \in Reqs : \/ pc[r] \in {"idle", "answered"}
                       \/ pc[r] = "lost" /\ r \in gone \cup late

\* PostgreSQL, or the end of the connection to it, answers every use.
DatabaseAnswers == \A r \in Reqs : WF_vars(Finish(r))

\* While PostgreSQL answers, the process ends once it has been told to, a
\* mail server that hangs notwithstanding: the timeout cuts it off.
ShutdownEnds == DatabaseAnswers => (main = "draining" ~> main = "exited")

\* While PostgreSQL answers, whoever waits for a connection gets one or ends,
\* although other handlers wait for a mail server that hangs.
WaitersServed ==
  DatabaseAnswers => \A r \in Reqs : pc[r] = "waiting" ~> pc[r] # "waiting"

\* The readiness probe is answered although PostgreSQL never is: neither a
\* statement that hangs nor a pool with nothing left holds it up.
ProbeAnswered ==
  \A r \in Reqs :
    pc[r] \in Active /\ todo[r] = <<"ping">> ~> pc[r] \notin Active
=============================================================================
