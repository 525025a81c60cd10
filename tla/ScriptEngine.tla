---------------------------- MODULE ScriptEngine ----------------------------
(* The scripts of a tab in its worker: MongoWorker's handlers of scripts and  *)
(* completions, its timers, and the ScriptEngine that runs a script statement *)
(* by statement in mongo's JavaScript scope.                                  *)
(*                                                                            *)
(* Requests are handled one at a time, but the GUI thread changes the shell   *)
(* timeout, and the server fails and recovers, in the middle of a statement.  *)
EXTENDS Integers, Sequences, SequencesExt

CONSTANTS Script,       \* scripts: sequences of statements
          Timeout,      \* values of the shell timeout, 0 among them
          MaxRequests,  \* bound on the requests of the tab
          MaxChanges,   \* bound on changes of timeout, server and collections
          NULL

\* A query, which asks nothing of the server before its result is printed; any
\* other statement; and text that does not parse.
Statement == {"find", "value", "garbage"}

ASSUME ScriptAssumption ==
  /\ \A s \in Script : s \in Seq(Statement)
  /\ Timeout \subseteq Nat
  /\ MaxRequests \in Nat /\ MaxChanges \in Nat

VARIABLES
  isReplicaSet,  \* the connection is one to a replica set
  client,        \* _dbclient, or _dbclientRepSet of a set once a name of it was found, is there
  reachable,     \* the server, or the set's primary, can be connected to
  engine,        \* "none": no _scriptEngine; "noScope": its _scope is null; "ready"
  failedScope,   \* _failedScope
  timeoutSec,    \* _timeoutSec
  timers,        \* the ping and cache timers run
  lastRes,       \* __robomongoLastRes: <<request, statement>> if it is a query, else NULL
  cache,         \* __robomongoAutocompletionCache: NULL or the collections it was made of
  collections,   \* the collections of the database, as a version number
  requests,      \* requests posted to the worker
  run,           \* the script being executed, or NULL
  reply,         \* the response to the last request if that was a script, or NULL
  asked,         \* number of scripts so far
  changes,       \* changes of timeout, server and collections so far
  crashed        \* the scope, or the client of a set, was used although it is null

engineVars == <<engine, failedScope, timers, lastRes, cache>>
envVars == <<isReplicaSet, client, reachable, timeoutSec, collections, changes>>
vars == <<engineVars, envVars, requests, run, reply, asked, crashed>>

-----------------------------------------------------------------------------
(* The engine.                                                                *)

\* ScriptEngine::init: a new scope, which connects when it is made, and an empty
\* cache; when the connection fails an exception leaves everything as it was.
InitScope ==
  /\ reachable
  /\ engine' = "ready" /\ failedScope' = FALSE
  /\ lastRes' = NULL /\ cache' = NULL

\* MongoWorker::init: the engine is there even if its scope cannot be made, the
\* timers only if it can.
InitWorker ==
  \/ /\ engine = "ready" /\ timers = TRUE
  \/ /\ engine = "noScope" /\ timers = FALSE
  \/ /\ engine = "none" /\ timers = FALSE

Parses(script) == \A i \in DOMAIN script : script[i] # "garbage"

\* ScriptEngine::statementize and what exec() makes of its failure: the only
\* statement of a script that does not parse prints the error.
statementize(script) == IF Parses(script) THEN script ELSE <<"value">>

\* A run of the script: attempt 1, or 2 after the primary was looked up again.
\* done counts how often each statement took effect, once it has ended.
Start(script, attempt, done) ==
  [script |-> script, statements |-> statementize(script), attempt |-> attempt,
   at |-> 1, phase |-> "next", began |-> 0, elapsed |-> 0, results |-> <<>>,
   timeoutReached |-> FALSE, failed |-> FALSE, done |-> done]

NothingDone(script) == [i \in DOMAIN statementize(script) |-> 0]

Respond(error, results, timeoutReached) ==
  reply' = [error |-> error, results |-> results, timeoutReached |-> timeoutReached, request |-> asked,
            script |-> run.script, statements |-> run.statements, done |-> run.done]

-----------------------------------------------------------------------------
(* The tab and its surroundings.                                              *)

ExecuteScriptRequest(s) == [type |-> "script", script |-> s]
AutocompleteRequest == [type |-> "autocomplete"]

Execute ==
  /\ asked + Len(requests) < MaxRequests
  /\ \E s \in Script : requests' = Append(requests, ExecuteScriptRequest(s))
  /\ UNCHANGED <<engineVars, envVars, run, reply, asked, crashed>>

Autocomplete ==
  /\ asked + Len(requests) < MaxRequests
  /\ requests' = Append(requests, AutocompleteRequest)
  /\ UNCHANGED <<engineVars, envVars, run, reply, asked, crashed>>

\* changeShellTimeoutDialog(), in the GUI thread: no lock, and no engine either
\* before the connection is there.
ChangeTimeout(t) ==
  /\ changes < MaxChanges /\ t # timeoutSec
  /\ engine # "none"
  /\ timeoutSec' = t /\ changes' = changes + 1
  /\ UNCHANGED <<engineVars, isReplicaSet, client, reachable, collections, requests, run, reply, asked, crashed>>

ServerChanges ==
  /\ changes < MaxChanges
  /\ changes' = changes + 1
  /\ \/ reachable' = ~ reachable /\ UNCHANGED collections
     \/ collections' = collections + 1 /\ UNCHANGED reachable
  /\ UNCHANGED <<engineVars, isReplicaSet, client, timeoutSec, requests, run, reply, asked, crashed>>

-----------------------------------------------------------------------------
(* MongoWorker::handle(ExecuteScriptRequest)                                  *)

Idle(type) == run = NULL /\ ~ crashed /\ requests # <<>> /\ Head(requests).type = type

Take(type) == Idle(type) /\ requests' = Tail(requests)

\* There is no engine: the connection was never made.
RefuseScript ==
  /\ Take("script") /\ engine = "none"
  /\ asked' = asked + 1
  /\ reply' = [error |-> TRUE, results |-> <<>>, timeoutReached |-> FALSE, request |-> asked',
               script |-> Head(requests).script, statements |-> statementize(Head(requests).script),
               done |-> NothingDone(Head(requests).script)]
  /\ UNCHANGED <<engineVars, envVars, run, crashed>>

\* A scope that failed is made again; without a scope the run fails at once.
TakeScript ==
  LET s == Head(requests).script
  IN  /\ Take("script") /\ engine # "none"
      /\ asked' = asked + 1
      /\ \/ failedScope /\ InitScope
         \/ (failedScope => ~ reachable) /\ UNCHANGED <<engine, failedScope, lastRes, cache>>
      /\ run' = Start(s, 1, NothingDone(s))
      /\ reply' = NULL
      /\ UNCHANGED <<timers, envVars, crashed>>

\* exec() without a scope.
NoScope ==
  /\ run # NULL /\ run.phase = "next" /\ engine = "noScope"
  /\ failedScope' = TRUE
  /\ run' = [run EXCEPT !.phase = "end", !.failed = TRUE]
  /\ UNCHANGED <<engine, timers, lastRes, cache, envVars, requests, reply, asked, crashed>>

\* A statement is handed to the scope with the timeout of the moment.
BeginStatement ==
  /\ run # NULL /\ run.phase = "next" /\ engine = "ready"
  /\ run.at <= Len(run.statements)
  /\ run' = [run EXCEPT !.phase = "running", !.began = timeoutSec]
  /\ UNCHANGED <<engineVars, envVars, requests, reply, asked, crashed>>

\* Mutant: the failure of a statement that was stopped is not told.
StopsNever(failed, timeoutReached) == FALSE

\* A statement that failed ends the script, unless the timeout was reached: by
\* this statement or by an earlier one.
StopsScript(failed, timeoutReached) == failed /\ ~ timeoutReached

IsQuery == run.statements[run.at] = "find"

\* Mutant: the result of a statement is taken before the statement's own.
LastResKept == lastRes

\* __robomongoLastRes is set when the result of a statement is printed, only.
LastRes == IF IsQuery THEN <<asked, run.at>> ELSE NULL

\* How long an exec() may take: no time, or longer than one timeout or another.
Duration == {0} \cup {t + 1 : t \in Timeout \ {0}}

\* An exec() that would take that long is stopped by the timeout it began with.
Stopped(duration) == run.began > 0 /\ duration > run.began

Elapsed(duration) == run.elapsed + (IF Stopped(duration) THEN run.began + 1 ELSE duration)

\* What follows the execs of a statement: the time of both is compared with the
\* timeout of now, and what was printed is a result.
Conclude(failed, elapsed, output, effect) ==
  LET reached == run.timeoutReached \/ elapsed > timeoutSec
  IN  run' = [run EXCEPT
        !.done[run.at] = @ + effect,
        !.timeoutReached = reached,
        !.failed = StopsScript(failed, reached),
        !.phase = IF StopsScript(failed, reached) THEN "end" ELSE "next",
        !.results = IF output /\ ~ StopsScript(failed, reached)
                    THEN Append(@, [statement |-> run.at, info |-> lastRes', failed |-> failed]) ELSE @,
        !.began = 0, !.elapsed = 0, !.at = @ + 1]

\* The exec() of a statement ends after some time, by itself or stopped. A query
\* has not asked the server yet; a statement that fails may have taken effect.
EndStatement(duration, ok, output) ==
  /\ run # NULL /\ run.phase = "running"
  /\ ok => IsQuery \/ reachable
  /\ UNCHANGED <<engineVars, envVars, requests, reply, asked, crashed>>
  /\ \/ /\ ok /\ ~ Stopped(duration)
        /\ run' = [run EXCEPT !.phase = "printing", !.began = timeoutSec, !.elapsed = Elapsed(duration)]
     \/ /\ ~ ok \/ Stopped(duration)
        /\ \E effect \in {0, 1} : Conclude(TRUE, Elapsed(duration), output, effect)

\* A second exec() sets __robomongoLastRes and prints the result, under a timeout of
\* its own; a query takes effect here. Its failure is not looked at.
PrintResult(duration, ok, output) ==
  /\ run # NULL /\ run.phase = "printing"
  /\ ok => ~ IsQuery \/ reachable
  /\ lastRes' = LastRes
  /\ LET shown == ok /\ ~ Stopped(duration)
     IN  Conclude(FALSE, Elapsed(duration), output, IF IsQuery /\ ~ shown THEN 0 ELSE 1)
  /\ UNCHANGED <<engine, failedScope, timers, cache, envVars, requests, reply, asked, crashed>>

Ended == run # NULL /\ (run.phase = "end" \/ (run.phase = "next" /\ engine = "ready" /\ run.at > Len(run.statements)))

\* The client of a set is asked for the primary after the first attempt, whatever
\* came of it; a set whose name was never found has no client.
ClientMissing == isReplicaSet /\ ~ client

UseMissingClient ==
  /\ Ended /\ run.attempt = 1 /\ ClientMissing /\ ~ crashed
  /\ crashed' = TRUE
  /\ UNCHANGED <<engineVars, envVars, requests, run, reply, asked>>

\* The script is answered: an error of a second attempt is not looked at, and
\* its timeout is not told.
Answer ==
  /\ Ended
  /\ run.attempt = 1 => ~ ClientMissing
  /\ run.failed => run.attempt = 2
  /\ Respond(FALSE, IF run.failed THEN <<>> ELSE run.results, run.attempt = 1 /\ run.timeoutReached)
  /\ run' = NULL
  /\ UNCHANGED <<engineVars, envVars, requests, asked, crashed>>

\* Mutant: only the failure to find a primary is answered.
AnswerErrorOfSet ==
  /\ Ended /\ run.failed /\ run.attempt = 1 /\ ~ ClientMissing
  /\ isReplicaSet /\ ~ reachable
  /\ Respond(TRUE, <<>>, FALSE)
  /\ run' = NULL
  /\ UNCHANGED <<engineVars, envVars, requests, asked, crashed>>

\* An error, of a single server or of a set whose primary cannot be found.
AnswerError ==
  /\ Ended /\ run.failed /\ run.attempt = 1 /\ ~ ClientMissing
  /\ isReplicaSet => ~ reachable
  /\ Respond(TRUE, <<>>, FALSE)
  /\ run' = NULL
  /\ UNCHANGED <<engineVars, envVars, requests, asked, crashed>>

\* On a replica set the script is run again from its start, with a scope that is
\* connected to the primary of now.
Retry ==
  /\ Ended /\ run.failed /\ run.attempt = 1 /\ ~ ClientMissing
  /\ isReplicaSet
  /\ InitScope
  /\ run' = Start(run.script, 2, run.done)
  /\ UNCHANGED <<timers, envVars, requests, reply, asked, crashed>>

-----------------------------------------------------------------------------
(* Completions and timers.                                                    *)

\* MongoWorker::handle(AutocompleteRequest): the scope is not looked at.
Complete ==
  /\ Take("autocomplete")
  /\ asked' = asked + 1
  /\ crashed' = (engine = "noScope")
  /\ cache' = IF engine = "ready" /\ reachable /\ cache = NULL THEN collections ELSE cache
  /\ reply' = NULL
  /\ UNCHANGED <<engine, failedScope, timers, lastRes, envVars, run>>

\* MongoWorker::timerEvent: a ping, or the cache timer, whose condition is true
\* only without an engine.
TimerEvent ==
  /\ run = NULL /\ ~ crashed /\ timers
  /\ crashed' = (engine = "none")
  /\ UNCHANGED <<engineVars, envVars, requests, run, reply, asked>>

-----------------------------------------------------------------------------
Init ==
  /\ isReplicaSet \in BOOLEAN /\ client \in {TRUE, ~ isReplicaSet} /\ reachable = TRUE
  /\ InitWorker /\ failedScope = FALSE
  /\ timeoutSec \in Timeout
  /\ lastRes = NULL /\ cache = NULL /\ collections = 0
  /\ requests = <<>> /\ run = NULL /\ reply = NULL
  /\ asked = 0 /\ changes = 0 /\ crashed = FALSE

Environment ==
  \/ Execute \/ Autocomplete \/ ServerChanges
  \/ \E t \in Timeout : ChangeTimeout(t)

Worker ==
  \/ RefuseScript \/ TakeScript \/ NoScope \/ BeginStatement
  \/ \E duration \in Duration, ok, output \in BOOLEAN :
       EndStatement(duration, ok, output) \/ PrintResult(duration, ok, output)
  \/ UseMissingClient \/ Answer \/ AnswerError \/ Retry \/ Complete

Next == Environment \/ Worker \/ TimerEvent

Spec == Init /\ [][Next]_vars

\* An exec() that began without a timeout may never end.
Unlimited == run # NULL /\ run.phase \in {"running", "printing"} /\ run.began = 0

FairSpec == Spec /\ WF_vars(Worker /\ ~ Unlimited)

-----------------------------------------------------------------------------
(* Properties.                                                                *)

\* The shape of the state.
TypeOK ==
  /\ engine \in {"none", "noScope", "ready"}
  /\ {isReplicaSet, client, reachable, failedScope, timers, crashed} \subseteq BOOLEAN
  /\ timeoutSec \in Timeout
  /\ run # NULL => /\ run.script \in Script /\ run.attempt \in {1, 2}
                   /\ run.at \in 1 .. Len(run.statements) + 1
                   /\ run.phase \in {"next", "running", "printing", "end"}
                   /\ Len(run.results) < run.at
  /\ cache # NULL => cache \in 0 .. collections

\* exec() and handle(ExecuteScriptRequest) on a single server: an answer that is
\* neither an error nor a timeout means that every statement took effect, once,
\* whatever the timeout was changed to meanwhile. Two kinds of success are weaker in
\* the code: a script that does not parse is answered without error and nothing of it
\* is executed, and a query may have failed while its result was printed.
SuccessMeansExecuted ==
  reply # NULL /\ ~ isReplicaSet /\ ~ reply.error /\ ~ reply.timeoutReached /\ Parses(reply.script) =>
    \A i \in DOMAIN reply.script :
      /\ reply.done[i] <= 1
      /\ reply.script[i] # "find" => reply.done[i] = 1

\* The query of a statement: what its results should be shown with.
OwnQuery(request, statements, i) == IF statements[i] = "find" THEN <<request, i>> ELSE NULL

\* prepareResult(): a result is shown with the query of the statement it is the
\* result of, so that paging and editing work on the right collection, on single
\* servers and on sets. The exception is a statement that failed, or was stopped, when
\* a timeout had been reached: __robomongoLastRes is then still that of an earlier
\* statement. The answer tells of the timeout, except that of a set's second attempt.
InfoOfOwnStatement ==
  reply # NULL =>
    \A i \in DOMAIN reply.results :
      LET r == reply.results[i]
      IN  \/ r.info = OwnQuery(reply.request, reply.statements, r.statement)
          \/ r.failed /\ (reply.timeoutReached \/ isReplicaSet)

\* The script of a single server is never run twice, that of a set at most twice.
EffectsBounded ==
  run # NULL => \A i \in DOMAIN run.statements : run.done[i] <= IF isReplicaSet THEN run.attempt ELSE 1

\* What is answered is what happened: success means that every statement took effect,
\* and none took effect more often than it was attempted.
AnswerMeansExecuted == SuccessMeansExecuted /\ EffectsBounded

\* Every script is answered, whatever fails in its scope, its server or its second
\* attempt: unless an exec() runs without a timeout for ever, or the script is that of
\* a set without a client, which handle(ExecuteScriptRequest) uses without looking.
EveryScriptAnswered == run # NULL ~> (run = NULL \/ Unlimited \/ (crashed /\ ClientMissing))

\* timerEvent() calls the engine where it tests that there is none: the timers
\* run only once there is one. What crashes is a completion without a scope and a
\* script on a set without a client.
TimersNeedEngine == crashed => engine = "noScope" \/ ClientMissing

\* The engine is used as it is: an answer without error means what the user reads
\* in it, and the timers find an engine.
EngineFaithful == AnswerMeansExecuted /\ TimersNeedEngine
=============================================================================
