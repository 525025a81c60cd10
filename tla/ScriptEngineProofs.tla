------------------------- MODULE ScriptEngineProofs -------------------------
(* What the answers to a script mean, for any scripts, timeouts and number of *)
(* requests.                                                                  *)
EXTENDS ScriptEngine, SequenceTheorems, TLAPS

Info == {NULL} \cup (Nat \X Nat)

Results == [statement : Nat, info : Info, failed : BOOLEAN]

Runs ==
  [script : Script, statements : Seq(Statement), attempt : {1, 2}, at : Nat \ {0},
   phase : {"next", "running", "printing", "end"}, began : Nat, elapsed : Nat, results : Seq(Results),
   timeoutReached : BOOLEAN, failed : BOOLEAN, done : Seq(Nat)]

\* The types, of the queue and of the run too.
Types ==
  /\ engine \in {"none", "noScope", "ready"}
  /\ isReplicaSet \in BOOLEAN /\ client \in BOOLEAN /\ reachable \in BOOLEAN /\ failedScope \in BOOLEAN
  /\ timers \in BOOLEAN /\ crashed \in BOOLEAN
  /\ timeoutSec \in Timeout
  /\ collections \in Nat /\ (cache # NULL => cache \in 0 .. collections)
  /\ asked \in Nat /\ changes \in Nat /\ lastRes \in Info
  /\ requests \in Seq({ExecuteScriptRequest(s) : s \in Script} \cup {AutocompleteRequest})
  /\ run \in Runs \cup {NULL}

\* What a run r has done: a statement before the current one took effect unless
\* the timeout was reached or it is a query, the current one and those after it only
\* in an earlier attempt; a failure ends the run.
ProgressSound(r) ==
  /\ r.statements = statementize(r.script)
  /\ r.done \in [DOMAIN r.statements -> Nat]
  /\ r.at <= Len(r.statements) + 1
  /\ r.phase \in {"running", "printing"} => r.at <= Len(r.statements)
  /\ r.failed <=> r.phase = "end"
  /\ \A i \in DOMAIN r.statements :
       /\ r.done[i] <= r.attempt
       /\ i >= r.at => r.done[i] <= r.attempt - 1
       /\ r.attempt = 1 /\ i < r.at /\ ~ r.timeoutReached /\ ~ r.failed /\ r.statements[i] # "find"
            => r.done[i] = 1

\* What a run r has to show: results of the statements before the current one, each
\* with its own query unless it failed and a timeout was reached.
ResultsSound(r, request) ==
  /\ Len(r.results) < r.at
  /\ \A i \in DOMAIN r.results :
       /\ r.results[i].statement \in 1 .. r.at - 1
       /\ \/ r.results[i].info = OwnQuery(request, r.statements, r.results[i].statement)
          \/ r.results[i].failed /\ r.timeoutReached

\* A script is run again on a set only, and runs only where an engine is; what crashes
\* while it runs is the missing client of a set.
RunSound ==
  run # NULL =>
    /\ ProgressSound(run) /\ ResultsSound(run, asked)
    /\ run.attempt = 2 => isReplicaSet
    /\ engine # "none" /\ (crashed => ClientMissing)

\* The timers need an engine, and so does a scope that is missing.
EngineSound == (timers => engine # "none") /\ TimersNeedEngine

\* The inductive invariant.
IInv == Types /\ RunSound /\ EngineSound /\ SuccessMeansExecuted /\ InfoOfOwnStatement

\* Nothing the answered script depends on has changed.
ReplyKept == UNCHANGED <<reply, isReplicaSet>>

\* There is no answer to speak of.
NoReply == reply' = NULL

-----------------------------------------------------------------------------
\* What the last answer says stays true as long as there is no new one.
LEMMA OldReply ==
  ASSUME SuccessMeansExecuted, InfoOfOwnStatement, ReplyKept \/ NoReply
  PROVE  SuccessMeansExecuted' /\ InfoOfOwnStatement'
  BY DEF ReplyKept, NoReply, SuccessMeansExecuted, InfoOfOwnStatement

\* A request of type "script" carries a script.
LEMMA RequestAtHead ==
  ASSUME Types, requests # <<>>
  PROVE  /\ Tail(requests) \in Seq({ExecuteScriptRequest(s) : s \in Script} \cup {AutocompleteRequest})
         /\ Head(requests).type = "script" => Head(requests).script \in Script
<1> DEFINE R == {ExecuteScriptRequest(s) : s \in Script} \cup {AutocompleteRequest}
<1>1. requests \in Seq(R)
  BY DEF Types
<1>2. Head(requests) \in R /\ Tail(requests) \in Seq(R)
  <2> HIDE DEF R
  <2> QED BY <1>1
<1>3. CASE Head(requests) = AutocompleteRequest
  BY <1>2, <1>3 DEF AutocompleteRequest
<1>4. CASE Head(requests) # AutocompleteRequest
  <2>1. PICK s \in Script : Head(requests) = ExecuteScriptRequest(s)
    BY <1>2, <1>4
  <2> QED BY <2>1, <1>2 DEF ExecuteScriptRequest
<1> QED BY <1>3, <1>4

\* What is run of a script is a sequence of statements.
LEMMA ScriptsAreSequences ==
  ASSUME NEW s \in Script
  PROVE  /\ statementize(s) \in Seq(Statement)
         /\ DOMAIN statementize(s) = 1 .. Len(statementize(s)) /\ Len(statementize(s)) \in Nat
<1>1. s \in Seq(Statement) /\ <<"value">> \in Seq(Statement)
  BY ScriptAssumption DEF Statement
<1>2. statementize(s) \in Seq(Statement)
  BY <1>1 DEF statementize
<1> QED BY <1>2

\* A run that starts has nothing to show; in the first attempt it has done nothing,
\* in the second what the first did.
LEMMA StartSound ==
  ASSUME NEW s \in Script, NEW attempt \in {1, 2}, NEW done \in [DOMAIN statementize(s) -> Nat],
         \A i \in DOMAIN statementize(s) : done[i] <= attempt - 1
  PROVE  /\ Start(s, attempt, done) \in Runs
         /\ ProgressSound(Start(s, attempt, done))
         /\ \A request : ResultsSound(Start(s, attempt, done), request)
<1> DEFINE st == statementize(s)
<1>1. st \in Seq(Statement) /\ DOMAIN st = 1 .. Len(st) /\ Len(st) \in Nat
  BY ScriptsAreSequences
<1> DEFINE r == Start(s, attempt, done)
<1>2. /\ r.script = s /\ r.statements = st /\ r.attempt = attempt /\ r.at = 1 /\ r.phase = "next"
      /\ r.results = <<>> /\ r.timeoutReached = FALSE /\ r.failed = FALSE /\ r.done = done
  BY DEF Start
<1>3. r \in Runs
  <2>1. r = [script |-> s, statements |-> st, attempt |-> attempt, at |-> 1, phase |-> "next", began |-> 0,
             elapsed |-> 0, results |-> <<>>, timeoutReached |-> FALSE, failed |-> FALSE, done |-> done]
    BY DEF Start
  <2>2. done \in Seq(Nat)
    BY <1>1
  <2> HIDE DEF st, r
  <2> QED BY <1>1, <2>1, <2>2 DEF Runs
<1>4. ProgressSound(r)
  <2> HIDE DEF r
  <2> QED BY <1>1, <1>2 DEF ProgressSound
<1>5. \A request : ResultsSound(r, request)
  <2> HIDE DEF r
  <2> QED BY <1>2 DEF ResultsSound
<1> QED BY <1>3, <1>4, <1>5

-----------------------------------------------------------------------------
(* The steps of the tab and its surroundings, and of the timers.              *)

\* A step that leaves the run, the engine and the answer alone keeps what is known
\* of them.
LEMMA SurroundingsSound ==
  ASSUME IInv, Types', UNCHANGED <<run, asked, engine, timers, isReplicaSet, client, reply, crashed>>
  PROVE  IInv'
  BY OldReply DEF IInv, RunSound, EngineSound, TimersNeedEngine, ClientMissing, ReplyKept

\* Requests of the tab, changes of the timeout, of the server and of its collections.
LEMMA EnvironmentStep == ASSUME IInv, Environment PROVE IInv'
<1> USE DEF IInv
<1> DEFINE R == {ExecuteScriptRequest(s) : s \in Script} \cup {AutocompleteRequest}
<1>1. ASSUME NEW q \in R, requests' = Append(requests, q),
             UNCHANGED <<engineVars, envVars, run, reply, asked, crashed>>
      PROVE  IInv'
  <2>1. requests' \in Seq(R)
    <3>1. requests \in Seq(R)
      BY DEF Types
    <3> HIDE DEF R
    <3> QED BY <1>1, <3>1
  <2>2. Types'
    BY <1>1, <2>1 DEF Types, engineVars, envVars
  <2> QED BY <1>1, <2>2, SurroundingsSound DEF engineVars, envVars
<1>2. CASE Execute
  <2>1. PICK s \in Script : requests' = Append(requests, ExecuteScriptRequest(s))
    BY <1>2 DEF Execute
  <2> QED BY <1>1, <1>2, <2>1 DEF Execute
<1>3. CASE Autocomplete
  BY <1>1, <1>3 DEF Autocomplete
<1>4. CASE ServerChanges
  <2>1. Types'
    <3>1. reachable' \in BOOLEAN
      BY <1>4, Zenon DEF ServerChanges, Types
    <3>2. changes' \in Nat
      BY <1>4 DEF ServerChanges, Types
    <3>3. collections' \in Nat /\ collections <= collections' /\ cache' = cache
      BY <1>4 DEF ServerChanges, Types, engineVars
    <3>4. cache' # NULL => cache' \in 0 .. collections'
      BY <3>3 DEF Types
    <3> QED BY <1>4, <3>1, <3>2, <3>3, <3>4 DEF ServerChanges, Types, engineVars
  <2> QED BY <1>4, <2>1, SurroundingsSound DEF ServerChanges, engineVars
<1>5. ASSUME NEW t \in Timeout, ChangeTimeout(t) PROVE IInv'
  <2>1. Types'
    BY <1>5 DEF ChangeTimeout, Types, engineVars
  <2> QED BY <1>5, <2>1, SurroundingsSound DEF ChangeTimeout, engineVars
<1> QED BY <1>2, <1>3, <1>4, <1>5 DEF Environment

\* timerEvent() never meets a missing engine: the timers were started with one.
LEMMA TimerStep == ASSUME IInv, TimerEvent PROVE IInv'
<1> USE DEF IInv
<1>1. ~ crashed'
  BY DEF TimerEvent, EngineSound, Types
<1>2. Types' /\ RunSound' /\ EngineSound'
  BY <1>1 DEF TimerEvent, Types, RunSound, EngineSound, TimersNeedEngine, ClientMissing, engineVars, envVars
<1> QED BY <1>2, OldReply DEF TimerEvent, ReplyKept, envVars

-----------------------------------------------------------------------------
(* The steps of the worker.                                                   *)

\* A completion uses the scope that is missing; no script is run after that.
LEMMA CompleteStep == ASSUME IInv, Complete PROVE IInv'
<1> USE DEF IInv
<1>1. requests # <<>> /\ requests' = Tail(requests) /\ run = NULL
  BY DEF Complete, Take, Idle
<1>2. Types'
  BY <1>1, RequestAtHead DEF Complete, Types, envVars
<1>3. RunSound' /\ EngineSound'
  BY <1>1 DEF Complete, RunSound, EngineSound, TimersNeedEngine, ClientMissing, envVars
<1> QED BY <1>2, <1>3, OldReply DEF Complete, NoReply

\* Without an engine the answer is an error, which shows nothing.
LEMMA RefuseStep == ASSUME IInv, RefuseScript PROVE IInv'
<1> USE DEF IInv
<1>1. requests # <<>> /\ requests' = Tail(requests) /\ run = NULL
  BY DEF RefuseScript, Take, Idle
<1>2. Types'
  BY <1>1, RequestAtHead DEF RefuseScript, Types, envVars, engineVars
<1>3. RunSound' /\ EngineSound'
  BY <1>1 DEF RefuseScript, RunSound, EngineSound, TimersNeedEngine, ClientMissing, envVars, engineVars
<1>4. reply'.error = TRUE /\ reply'.results = <<>>
  BY DEF RefuseScript
<1> QED BY <1>2, <1>3, <1>4 DEF SuccessMeansExecuted, InfoOfOwnStatement

\* A script is started with nothing done, in the scope that is there or in a new one.
LEMMA TakeStep == ASSUME IInv, TakeScript PROVE IInv'
<1> USE DEF IInv
<1> DEFINE s == Head(requests).script
           done == NothingDone(s)
<1>1. /\ requests # <<>> /\ requests' = Tail(requests) /\ ~ crashed /\ engine # "none"
      /\ Head(requests).type = "script" /\ run' = Start(s, 1, done)
      /\ UNCHANGED <<timers, envVars, crashed>> /\ asked' = asked + 1 /\ reply' = NULL
      /\ engine' \in {engine, "ready"} /\ failedScope' \in BOOLEAN /\ lastRes' \in {lastRes, NULL}
      /\ cache' \in {cache, NULL}
  BY DEF TakeScript, Take, Idle, InitScope, Types
<1>2. s \in Script /\ Tail(requests) \in Seq({ExecuteScriptRequest(z) : z \in Script} \cup {AutocompleteRequest})
  BY <1>1, RequestAtHead
<1>3. done \in [DOMAIN statementize(s) -> Nat] /\ \A i \in DOMAIN statementize(s) : done[i] <= 0
  BY DEF NothingDone
<1> HIDE DEF s, done
<1>4. run' \in Runs /\ ProgressSound(run') /\ ResultsSound(run', asked') /\ run'.attempt = 1
  BY <1>1, <1>2, <1>3, StartSound DEF Start
<1>5. Types'
  BY <1>1, <1>2, <1>4 DEF Types, envVars, Info
<1>6. RunSound' /\ EngineSound'
  BY <1>1, <1>4 DEF RunSound, EngineSound, TimersNeedEngine, Types
<1> QED BY <1>1, <1>5, <1>6, OldReply DEF NoReply

\* A statement that begins, or whose result is to be printed, and a run that has no
\* scope, have done nothing new.
LEMMA PhaseSound ==
  ASSUME IInv, run # NULL, run' \in Runs, run.phase # "end",
         run'.phase \in {"running", "printing", "end"}, run'.failed = (run'.phase = "end"),
         run'.phase # "end" => run.at <= Len(run.statements),
         run'.script = run.script, run'.statements = run.statements, run'.attempt = run.attempt,
         run'.at = run.at, run'.results = run.results, run'.timeoutReached = run.timeoutReached,
         run'.done = run.done, Types', UNCHANGED <<engine, timers, envVars, reply, asked, crashed>>
  PROVE  IInv'
<1> USE DEF IInv
<1>1. run \in Runs /\ ProgressSound(run) /\ ResultsSound(run, asked)
  BY DEF Types, RunSound
<1>2. ProgressSound(run')
  BY <1>1 DEF ProgressSound
<1>3. ResultsSound(run', asked)
  BY <1>1 DEF ResultsSound
<1>4. RunSound' /\ EngineSound'
  BY <1>2, <1>3 DEF RunSound, EngineSound, TimersNeedEngine, ClientMissing, envVars
<1> QED BY <1>4, OldReply DEF ReplyKept, envVars

\* The two ways on from the end of a statement.
LEMMA NextStep == ASSUME IInv, NoScope \/ BeginStatement PROVE IInv'
<1>1. run # NULL /\ run \in Runs /\ run.phase = "next" /\ timeoutSec \in Nat
  BY ScriptAssumption DEF NoScope, BeginStatement, Types, IInv
<1>2. CASE NoScope
  <2>1. /\ run' \in Runs /\ run'.phase = "end" /\ run'.failed = TRUE /\ run'.script = run.script
        /\ run'.statements = run.statements
        /\ run'.attempt = run.attempt /\ run'.at = run.at /\ run'.results = run.results
        /\ run'.timeoutReached = run.timeoutReached /\ run'.done = run.done
    BY <1>1, <1>2 DEF NoScope, Runs
  <2>2. Types'
    BY <1>2, <2>1 DEF NoScope, IInv, Types, envVars
  <2> QED BY <1>1, <1>2, <2>1, <2>2, PhaseSound DEF NoScope
<1>3. CASE BeginStatement
  <2>1. /\ run' \in Runs /\ run'.phase = "running" /\ run'.failed = run.failed /\ run'.script = run.script
        /\ run'.statements = run.statements
        /\ run'.attempt = run.attempt /\ run'.at = run.at /\ run'.results = run.results
        /\ run'.timeoutReached = run.timeoutReached /\ run'.done = run.done
    BY <1>1, <1>3 DEF BeginStatement, Runs
  <2>2. Types'
    BY <1>3, <2>1 DEF BeginStatement, IInv, Types, envVars, engineVars
  <2>3. run'.failed = (run'.phase = "end")
    BY <1>1, <2>1 DEF IInv, RunSound, ProgressSound, Runs
  <2> QED BY <1>1, <1>3, <2>1, <2>2, <2>3, PhaseSound DEF BeginStatement, engineVars
<1> QED BY <1>2, <1>3

\* A statement ends. When it failed and no timeout was reached, the script ends with it;
\* otherwise it took effect, is a query, or the timeout will be told, and what it shows
\* goes with its own query unless it failed.
LEMMA ConcludeStep ==
  ASSUME IInv, run # NULL, run.phase \in {"running", "printing"},
         NEW failed \in BOOLEAN, NEW elapsed, NEW output \in BOOLEAN, NEW effect \in {0, 1},
         Conclude(failed, elapsed, output, effect),
         lastRes' \in Info, ~ failed => lastRes' = OwnQuery(asked, run.statements, run.at),
         failed \/ effect = 1 \/ run.statements[run.at] = "find",
         UNCHANGED <<engine, failedScope, timers, cache, envVars, requests, reply, asked, crashed>>
  PROVE  IInv'
<1> USE DEF IInv
<1> DEFINE reached == run.timeoutReached \/ elapsed > timeoutSec
           stops == StopsScript(failed, reached)
           result == [statement |-> run.at, info |-> lastRes', failed |-> failed]
<1>1. run \in Runs /\ ProgressSound(run) /\ ResultsSound(run, asked)
  BY DEF Types, RunSound
<1>2. run' = [run EXCEPT
             !.done[run.at] = @ + effect,
             !.timeoutReached = reached,
             !.failed = stops,
             !.phase = IF stops THEN "end" ELSE "next",
             !.results = IF output /\ ~ stops THEN Append(@, result) ELSE @,
             !.began = 0, !.elapsed = 0, !.at = @ + 1]
  BY DEF Conclude
<1>4. reached \in BOOLEAN /\ stops \in BOOLEAN /\ (stops <=> failed /\ ~ reached)
  BY <1>1 DEF StopsScript, Runs
<1>6. run.timeoutReached => reached
  OBVIOUS
<1> HIDE DEF reached, stops
<1>7. /\ run.statements \in Seq(Statement) /\ DOMAIN run.statements = 1 .. Len(run.statements)
      /\ Len(run.statements) \in Nat /\ run.at \in 1 .. Len(run.statements)
      /\ run.done \in [1 .. Len(run.statements) -> Nat] /\ ~ run.failed /\ run.attempt \in {1, 2}
      /\ run.results \in Seq(Results)
  <2>1. run.statements \in Seq(Statement) /\ run.at \in Nat \ {0} /\ run.attempt \in {1, 2} /\ run.results \in Seq(Results)
    BY <1>1 DEF Runs
  <2> QED BY <1>1, <2>1 DEF ProgressSound
<1>9. /\ run'.script = run.script /\ run'.statements = run.statements /\ run'.attempt = run.attempt
      /\ run'.began = 0 /\ run'.elapsed = 0
      /\ run'.done = [run.done EXCEPT ![run.at] = @ + effect]
      /\ run'.timeoutReached = reached /\ run'.failed = stops
      /\ run'.phase = IF stops THEN "end" ELSE "next"
      /\ run'.results = IF output /\ ~ stops THEN Append(run.results, result) ELSE run.results
      /\ run'.at = run.at + 1
  BY <1>1, <1>2 DEF Runs
<1>10. result \in Results /\ result.statement = run.at /\ result.info = lastRes' /\ result.failed = failed
  BY <1>7 DEF Results
<1>11. /\ run'.results \in Seq(Results)
       /\ Len(run'.results) <= Len(run.results) + 1
       /\ \A i \in DOMAIN run'.results :
            \/ i \in DOMAIN run.results /\ run'.results[i] = run.results[i]
            \/ ~ stops /\ run'.results[i] = result
  <2> HIDE DEF result
  <2>1. CASE output /\ ~ stops
    <3> DEFINE longer == Append(run.results, result)
    <3>1. /\ longer \in Seq(Results) /\ Len(longer) = Len(run.results) + 1
          /\ \A i \in DOMAIN longer : IF i \in DOMAIN run.results THEN longer[i] = run.results[i]
                                                                 ELSE longer[i] = result
      BY <1>7, <1>10
    <3> HIDE DEF longer
    <3>2. run'.results = longer
      BY <1>9, <2>1 DEF longer
    <3> QED BY <1>7, <2>1, <3>1, <3>2
  <2>2. CASE ~ (output /\ ~ stops)
    BY <1>7, <1>9, <2>2
  <2> QED BY <2>1, <2>2
<1>12. run' \in Runs
  <2>1. run.done \in Seq(Nat) /\ run.at \in 1 .. Len(run.done) /\ run.done[run.at] + effect \in Nat
    BY <1>1, <1>7 DEF Runs
  <2>2. run'.done \in Seq(Nat)
    BY <1>9, <2>1, ExceptSeq
  <2>3. /\ run.script \in Script /\ run.at + 1 \in Nat \ {0}
        /\ run'.phase \in {"next", "running", "printing", "end"}
    BY <1>1, <1>7, <1>9 DEF Runs
  <2>4. run' = [script |-> run'.script, statements |-> run'.statements, attempt |-> run'.attempt,
                at |-> run'.at, phase |-> run'.phase, began |-> run'.began, elapsed |-> run'.elapsed,
                results |-> run'.results, timeoutReached |-> run'.timeoutReached,
                failed |-> run'.failed, done |-> run'.done]
    BY <1>1, <1>2 DEF Runs
  <2>5. /\ run'.script \in Script /\ run'.statements \in Seq(Statement) /\ run'.attempt \in {1, 2}
        /\ run'.at \in Nat \ {0} /\ run'.began \in Nat /\ run'.elapsed \in Nat
        /\ run'.timeoutReached \in BOOLEAN /\ run'.failed \in BOOLEAN
    BY <1>4, <1>7, <1>9, <2>3
  <2> HIDE DEF result
  <2> QED BY <1>11, <2>2, <2>3, <2>4, <2>5 DEF Runs
<1>13. ProgressSound(run')
  <2>1. ASSUME NEW i \in DOMAIN run.statements
        PROVE  /\ run'.done[i] <= run.attempt
               /\ i >= run.at + 1 => run'.done[i] <= run.attempt - 1
               /\ run.attempt = 1 /\ i < run.at + 1 /\ ~ reached /\ ~ stops /\ run.statements[i] # "find"
                    => run'.done[i] = 1
    <3>1. /\ run.done[i] \in Nat /\ run.done[i] <= run.attempt
          /\ (i >= run.at => run.done[i] <= run.attempt - 1)
          /\ (run.attempt = 1 /\ i < run.at /\ ~ run.timeoutReached /\ ~ run.failed /\ run.statements[i] # "find"
                => run.done[i] = 1)
      BY <1>1, <1>7 DEF ProgressSound
    <3>2. CASE i = run.at
      BY <3>1, <3>2, <1>4, <1>7, <1>9
    <3>3. CASE i # run.at
      BY <3>1, <3>3, <1>6, <1>7, <1>9
    <3> QED BY <3>2, <3>3
  <2>2. run'.done \in [DOMAIN run.statements -> Nat]
    BY <1>7, <1>9
  <2>3. stops <=> run'.phase = "end"
    BY <1>4, <1>9
  <2>4. run'.phase \notin {"running", "printing"}
    BY <1>9
  <2>5. /\ run'.script = run.script /\ run'.attempt = run.attempt /\ run'.at = run.at + 1
        /\ run'.timeoutReached = reached /\ run'.failed = stops
        /\ run'.statements = run.statements /\ run.statements = statementize(run.script)
    BY <1>1, <1>9 DEF ProgressSound
  <2>6. run'.at <= Len(run.statements) + 1
    BY <1>7, <2>5
  <2> QED BY <2>1, <2>2, <2>3, <2>4, <2>5, <2>6 DEF ProgressSound
<1>14. ResultsSound(run', asked)
  <2>1. Len(run'.results) < run.at + 1
    BY <1>1, <1>7, <1>11 DEF ResultsSound
  <2>2. ASSUME NEW i \in DOMAIN run'.results
        PROVE  /\ run'.results[i].statement \in 1 .. run.at
               /\ \/ run'.results[i].info = OwnQuery(asked, run.statements, run'.results[i].statement)
                  \/ run'.results[i].failed /\ reached
    <3>1. CASE i \in DOMAIN run.results /\ run'.results[i] = run.results[i]
      BY <3>1, <1>1, <1>6, <1>7 DEF ResultsSound
    <3>2. CASE ~ stops /\ run'.results[i] = result
      <4> HIDE DEF result
      <4> QED BY <3>2, <1>4, <1>7, <1>10
    <3> QED BY <3>1, <3>2, <1>11
  <2> QED BY <2>1, <2>2, <1>7, <1>9 DEF ResultsSound
<1>15. Types' /\ RunSound' /\ EngineSound'
  BY <1>1, <1>9, <1>12, <1>13, <1>14 DEF Types, RunSound, EngineSound, TimersNeedEngine, ClientMissing, envVars
<1> QED BY <1>15, OldReply DEF ReplyKept, envVars

\* What an exec() took is a number.
LEMMA ElapsedIsTime ==
  ASSUME NEW duration \in Duration, run \in Runs PROVE Elapsed(duration) \in Nat
<1>1. duration \in Nat
  BY ScriptAssumption DEF Duration
<1>2. run.began \in Nat /\ run.elapsed \in Nat
  BY DEF Runs
<1> QED BY <1>1, <1>2 DEF Elapsed

\* The exec() of a statement ends: the statement failed, or its result is printed.
LEMMA EndStep ==
  ASSUME IInv, NEW duration \in Duration, NEW ok \in BOOLEAN, NEW output \in BOOLEAN,
         EndStatement(duration, ok, output)
  PROVE  IInv'
<1>1. /\ run # NULL /\ run \in Runs /\ run.phase = "running" /\ lastRes' = lastRes /\ lastRes \in Info
      /\ UNCHANGED <<engine, failedScope, timers, cache, envVars, requests, reply, asked, crashed>>
      /\ timeoutSec \in Nat
  BY ScriptAssumption DEF EndStatement, IInv, Types, engineVars
<1>2. CASE \E effect \in {0, 1} : Conclude(TRUE, Elapsed(duration), output, effect)
  BY <1>1, <1>2, ConcludeStep
<1>3. CASE run' = [run EXCEPT !.phase = "printing", !.began = timeoutSec, !.elapsed = Elapsed(duration)]
  <2>1. /\ run' \in Runs /\ run'.phase = "printing" /\ run'.failed = run.failed /\ run'.script = run.script
        /\ run'.statements = run.statements
        /\ run'.attempt = run.attempt /\ run'.at = run.at /\ run'.results = run.results
        /\ run'.timeoutReached = run.timeoutReached /\ run'.done = run.done
    BY <1>1, <1>3, ElapsedIsTime DEF Runs
  <2>2. Types'
    BY <1>1, <2>1 DEF IInv, Types, envVars
  <2>3. run'.failed = (run'.phase = "end") /\ run.at <= Len(run.statements)
    BY <1>1, <2>1 DEF IInv, RunSound, ProgressSound, Runs
  <2> QED BY <1>1, <2>1, <2>2, <2>3, PhaseSound
<1> QED BY <1>2, <1>3 DEF EndStatement

\* The result of a statement was printed, or not: the statement counts as executed.
LEMMA PrintStep ==
  ASSUME IInv, NEW duration \in Duration, NEW ok \in BOOLEAN, NEW output \in BOOLEAN,
         PrintResult(duration, ok, output)
  PROVE  IInv'
<1> DEFINE effect == IF IsQuery /\ ~ (ok /\ ~ Stopped(duration)) THEN 0 ELSE 1
<1>1. /\ run # NULL /\ run \in Runs /\ run.phase = "printing" /\ lastRes' = LastRes
      /\ UNCHANGED <<engine, failedScope, timers, cache, envVars, requests, reply, asked, crashed>>
      /\ Conclude(FALSE, Elapsed(duration), output, effect) /\ asked \in Nat
  BY DEF PrintResult, IInv, Types
<1>2. effect \in {0, 1} /\ (effect = 1 \/ run.statements[run.at] = "find")
  BY DEF IsQuery
<1>3. lastRes' \in Info /\ lastRes' = OwnQuery(asked, run.statements, run.at)
  BY <1>1 DEF LastRes, IsQuery, OwnQuery, Info, Runs
<1> HIDE DEF effect
<1> QED BY <1>1, <1>2, <1>3, ConcludeStep

\* An answer ends the run. Without error it is that of a run that came to its end.
LEMMA AnswerStep == ASSUME IInv, Answer \/ AnswerError PROVE IInv'
<1> USE DEF IInv
<1>1. /\ run # NULL /\ run \in Runs /\ Ended /\ ProgressSound(run) /\ ResultsSound(run, asked)
      /\ (run.attempt = 2 => isReplicaSet) /\ run' = NULL
      /\ UNCHANGED <<engineVars, envVars, requests, asked, crashed>>
  BY DEF Answer, AnswerError, Ended, Types, RunSound
<1>2. Types' /\ RunSound' /\ EngineSound'
  BY <1>1 DEF Types, RunSound, EngineSound, TimersNeedEngine, ClientMissing, envVars, engineVars
<1>3. CASE AnswerError
  <2>1. reply'.error = TRUE /\ reply'.results = <<>>
    BY <1>3 DEF AnswerError, Respond
  <2> QED BY <1>2, <2>1 DEF SuccessMeansExecuted, InfoOfOwnStatement
<1>4. CASE Answer
  <2>1. /\ reply'.results = (IF run.failed THEN <<>> ELSE run.results)
        /\ reply'.timeoutReached = (run.attempt = 1 /\ run.timeoutReached) /\ reply'.request = asked
        /\ reply'.script = run.script /\ reply'.statements = run.statements /\ reply'.done = run.done
        /\ run.failed => run.attempt = 2
        /\ isReplicaSet' = isReplicaSet
    BY <1>1, <1>4 DEF Answer, Respond, envVars
  <2>2. InfoOfOwnStatement'
    <3>0. CASE run.failed
      BY <2>1, <3>0 DEF InfoOfOwnStatement
    <3>1. SUFFICES ASSUME ~ run.failed, NEW i \in DOMAIN run.results
                   PROVE  \/ run.results[i].info = OwnQuery(asked, run.statements, run.results[i].statement)
                          \/ run.results[i].failed /\ ((run.attempt = 1 /\ run.timeoutReached) \/ isReplicaSet)
      <4>1. SUFFICES ASSUME ~ run.failed PROVE InfoOfOwnStatement'
        BY <3>0
      <4>2. reply'.results = run.results
        BY <2>1, <4>1
      <4> QED BY <2>1, <4>1, <4>2 DEF InfoOfOwnStatement
    <3>2. \/ run.results[i].info = OwnQuery(asked, run.statements, run.results[i].statement)
          \/ run.results[i].failed /\ run.timeoutReached
      BY <1>1 DEF ResultsSound
    <3>3. run.attempt = 1 \/ isReplicaSet
      BY <1>1 DEF Runs
    <3> QED BY <3>2, <3>3
  <2>3. SuccessMeansExecuted'
    <3>1. SUFFICES ASSUME ~ isReplicaSet, ~ (run.attempt = 1 /\ run.timeoutReached), Parses(run.script),
                          NEW i \in DOMAIN run.script
                   PROVE  run.done[i] <= 1 /\ (run.script[i] # "find" => run.done[i] = 1)
      BY <2>1 DEF SuccessMeansExecuted
    <3>2. run.attempt = 1 /\ ~ run.failed /\ ~ run.timeoutReached /\ run.statements = run.script
      BY <1>1, <2>1, <3>1 DEF Runs, ProgressSound, statementize
    <3>3. run.at > Len(run.statements)
      BY <1>1, <3>2 DEF Ended, ProgressSound
    <3>4. DOMAIN run.statements = 1 .. Len(run.statements) /\ Len(run.statements) \in Nat /\ run.at \in Nat
      BY <1>1 DEF Runs
    <3> QED BY <1>1, <3>1, <3>2, <3>3, <3>4 DEF ProgressSound
  <2> QED BY <1>2, <2>2, <2>3
<1> QED BY <1>3, <1>4

\* A script that met the missing client of a set stays as it was.
LEMMA CrashStep == ASSUME IInv, UseMissingClient PROVE IInv'
<1>1. /\ run # NULL /\ ClientMissing /\ crashed' = TRUE
      /\ UNCHANGED <<engineVars, envVars, requests, run, reply, asked>>
  BY DEF UseMissingClient, Ended
<1>2. Types' /\ RunSound' /\ EngineSound'
  BY <1>1 DEF IInv, Types, RunSound, EngineSound, TimersNeedEngine, ClientMissing, envVars, engineVars
<1> QED BY <1>1, <1>2, OldReply DEF IInv, ReplyKept, envVars

\* A second attempt starts with what the first did.
LEMMA RetryStep == ASSUME IInv, Retry PROVE IInv'
<1> USE DEF IInv
<1>1. /\ run # NULL /\ run \in Runs /\ ProgressSound(run) /\ run.attempt = 1 /\ isReplicaSet
      /\ run' = Start(run.script, 2, run.done) /\ engine' = "ready" /\ ~ crashed /\ ~ ClientMissing
      /\ failedScope' = FALSE /\ lastRes' = NULL /\ cache' = NULL
      /\ UNCHANGED <<timers, envVars, requests, reply, asked, crashed>>
  BY DEF Retry, Ended, Types, RunSound, InitScope
<1>2. /\ run.script \in Script /\ run.done \in [DOMAIN statementize(run.script) -> Nat]
      /\ \A i \in DOMAIN statementize(run.script) : run.done[i] <= 2 - 1
  BY <1>1 DEF Runs, ProgressSound
<1>3. run' \in Runs /\ ProgressSound(run') /\ ResultsSound(run', asked)
  BY <1>1, <1>2, StartSound
<1>4. Types' /\ RunSound' /\ EngineSound'
  BY <1>1, <1>3 DEF Types, RunSound, EngineSound, TimersNeedEngine, envVars, Info
<1> QED BY <1>1, <1>4, OldReply DEF ReplyKept, envVars

-----------------------------------------------------------------------------
(* The theorems.                                                              *)

\* The invariant holds in every state of the engine: each step of the tab, of its
\* surroundings, of the worker and of its timers keeps it.
THEOREM Invariance == Spec => []IInv
<1>1. Init => IInv
  <2> SUFFICES ASSUME Init PROVE IInv
    OBVIOUS
  <2>1. Types
    <3>1. engine \in {"none", "noScope", "ready"} /\ timers \in BOOLEAN
      BY DEF Init, InitWorker
    <3>2. requests \in Seq({ExecuteScriptRequest(s) : s \in Script} \cup {AutocompleteRequest})
      BY DEF Init
    <3> QED BY <3>1, <3>2 DEF Init, Types, Info
  <2>2. RunSound /\ EngineSound /\ SuccessMeansExecuted /\ InfoOfOwnStatement
    BY DEF Init, InitWorker, RunSound, EngineSound, TimersNeedEngine, SuccessMeansExecuted, InfoOfOwnStatement
  <2> QED BY <2>1, <2>2 DEF IInv
<1>2. IInv /\ [Next]_vars => IInv'
  <2> SUFFICES ASSUME IInv, [Next]_vars PROVE IInv'
    OBVIOUS
  <2>1. CASE Environment
    BY <2>1, EnvironmentStep
  <2>2. CASE TimerEvent
    BY <2>2, TimerStep
  <2>3. CASE RefuseScript
    BY <2>3, RefuseStep
  <2>4. CASE TakeScript
    BY <2>4, TakeStep
  <2>5. CASE NoScope \/ BeginStatement
    BY <2>5, NextStep
  <2>6. CASE \E duration \in Duration, ok, output \in BOOLEAN :
               EndStatement(duration, ok, output) \/ PrintResult(duration, ok, output)
    BY <2>6, EndStep, PrintStep
  <2>7. CASE Answer \/ AnswerError
    BY <2>7, AnswerStep
  <2>8. CASE Retry
    BY <2>8, RetryStep
  <2>9. CASE Complete
    BY <2>9, CompleteStep
  <2>11. CASE UseMissingClient
    BY <2>11, CrashStep
  <2>10. CASE UNCHANGED vars
    BY <2>10, SurroundingsSound DEF vars, engineVars, envVars, IInv, Types
  <2> QED BY <2>1, <2>2, <2>3, <2>4, <2>5, <2>6, <2>7, <2>8, <2>9, <2>10, <2>11 DEF Next, Worker
<1> QED BY <1>1, <1>2, PTL DEF Spec

\* The state of the worker and of its engine keeps its shape.
THEOREM TypeCorrect == Spec => []TypeOK
<1>1. IInv => TypeOK
  <2> SUFFICES ASSUME IInv PROVE TypeOK
    OBVIOUS
  <2>1. ASSUME run # NULL
        PROVE  /\ run.script \in Script /\ run.attempt \in {1, 2}
               /\ run.at \in 1 .. Len(run.statements) + 1
               /\ run.phase \in {"next", "running", "printing", "end"}
               /\ Len(run.results) < run.at
    BY <2>1, ScriptsAreSequences DEF IInv, Types, RunSound, Runs, ProgressSound, ResultsSound
  <2> QED BY <2>1 DEF IInv, Types, TypeOK
<1> QED BY <1>1, Invariance, PTL

\* exec() and handle(ExecuteScriptRequest): an answer of a single server without error
\* or timeout to a script that parses means that every statement took effect once, a
\* query at most once; no statement takes effect more often than the script is
\* attempted, and the timers never meet a missing engine.
THEOREM AnswersFaithful == Spec => []EngineFaithful
<1>1. IInv => EngineFaithful
  <2> SUFFICES ASSUME IInv PROVE EngineFaithful
    OBVIOUS
  <2>1. EffectsBounded
    <3> SUFFICES ASSUME run # NULL, NEW i \in DOMAIN run.statements
                 PROVE  run.done[i] <= IF isReplicaSet THEN run.attempt ELSE 1
      BY DEF EffectsBounded
    <3> QED BY DEF IInv, Types, RunSound, Runs, ProgressSound
  <2> QED BY <2>1 DEF IInv, EngineSound, EngineFaithful, AnswerMeansExecuted
<1> QED BY <1>1, Invariance, PTL

\* prepareResult(): every result, of a single server or of a set, is shown with the query
\* of its own statement, or is that of a statement that failed once a timeout was reached,
\* of which the answer tells unless it is that of a set.
THEOREM OwnQueries == Spec => []InfoOfOwnStatement
<1>1. IInv => InfoOfOwnStatement
  BY DEF IInv
<1> QED BY <1>1, Invariance, PTL
=============================================================================
