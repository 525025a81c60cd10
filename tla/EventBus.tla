------------------------------ MODULE EventBus ------------------------------
(* The bus all parts of the program talk over (core/EventBus.cpp,             *)
(* core/EventBusDispatcher.cpp) with the threads on its two sides: the GUI    *)
(* thread, which publishes, subscribes, creates and stops workers, and the    *)
(* worker threads (MongoWorker, SshTunnelWorker), each an event loop that     *)
(* handles one request at a time and replies to the GUI object that sent it.  *)
(*                                                                            *)
(* An event for the thread one is on is delivered before the call returns,    *)
(* with the bus's mutex held for as long as the handlers run; an event for    *)
(* another thread is posted to that thread's dispatcher.  A GUI handler may   *)
(* publish again, or open a message box, whose nested event loop goes on      *)
(* delivering posted events while the outer delivery is still under way: the  *)
(* deliveries in progress on the GUI thread form a stack.                     *)
EXTENDS Integers, Sequences, SequencesExt

CONSTANTS Object,       \* GUI objects: receivers, and senders, of events
          Worker,       \* worker threads, each with its worker object
          Addr,         \* heap addresses a worker's QThread can have
          NULL,
          ReuseAddr,    \* may the allocator hand out a freed QThread's address
          MaxRequests,  \* bound on the requests one worker is sent
          MaxDepth,     \* bound on nested deliveries
          MaxCalls,     \* bound on the publishes and dialogs of one handler
          MaxSubs       \* bound on subscriptions

ASSUME BusAssumption ==
  /\ NULL \notin Object \cup Worker \cup Addr
  /\ NULL \notin [receiver : Worker, sender : Object, num : Nat]
  /\ ReuseAddr \in BOOLEAN
  /\ {MaxRequests, MaxDepth, MaxCalls, MaxSubs} \subseteq Nat

VARIABLES
  alive,        \* GUI objects that have not been destroyed
  subscribers,  \* _subscribersByEventType, for one event type
  stack,        \* deliveries in progress on the GUI thread, innermost last
  guiQueue,     \* replies posted to the GUI thread's dispatcher
  thread,       \* worker thread: unborn, running, finished or deleted
  addr,         \* address of the worker's QThread
  isQuiting,    \* stopAndDelete() has been called
  used,         \* addresses that have been a QThread's
  dispatchersByThread,  \* address -> the thread its dispatcher was moved to
  queue,        \* requests posted to the dispatcher of a worker thread
  current,      \* the request the worker is handling, NULL between requests
  replying,     \* the worker is past the test of _isQuiting in reply()
  sent, taken, delivered,   \* requests sent and taken, replies delivered
  dangling      \* a destroyed object has been called: nothing is specified after

guiVars == <<alive, subscribers, stack>>
threadVars == <<thread, addr, isQuiting, used>>
busVars == <<dispatchersByThread, queue, guiQueue>>
workerVars == <<current, replying>>
countVars == <<sent, taken, delivered>>
vars == <<guiVars, threadVars, busVars, workerVars, countVars, dangling>>

\* The recursive mutex: the GUI thread holds it during a synchronous delivery.
Locked == \E i \in DOMAIN stack : stack[i].locked

\* GUI code runs: a handler that has no dialog open, or a click in the main loop.
GuiRuns == ~ dangling /\ (stack # <<>> => ~ Last(stack).modal)

\* The GUI thread is in an event loop: the main one or a message box's.
GuiLoops == ~ dangling /\ (stack # <<>> => Last(stack).modal)

\* The worker thread has its turn.
Runs(w) == ~ dangling /\ thread[w] = "running"

\* A handler publishes, or opens a message box, a bounded number of times.
CallsLeft == stack # <<>> => Last(stack).calls < MaxCalls
OneMoreCall ==
  IF stack = <<>> THEN stack ELSE [stack EXCEPT ![Len(stack)].calls = @ + 1]

-----------------------------------------------------------------------------
(* The bus.                                                                   *)

\* dispatcher(): the one registered under the QThread's address, else a new
\* one moved to the thread that has that address now.
dispatcher(a, w) ==
  IF dispatchersByThread[a] # NULL THEN dispatchersByThread[a] ELSE w

\* sendEvent() to a dispatcher of the thread one is on: the receivers' handlers
\* run inside the call.  Only synchronous deliveries keep the mutex.
Deliver(frames, receivers, locked) ==
  /\ stack' = Append(frames,
       [receivers |-> receivers, locked |-> locked, modal |-> FALSE, calls |-> 0])
  /\ dangling' = (Head(receivers) \notin alive)

\* A loop over s that passes on the elements at the positions in kept, in their order.
Sublist(s, kept) ==
  LET upTo[i \in 0 .. Len(s)] ==
        IF i = 0 THEN << >>
        ELSE IF i \in kept THEN Append(upTo[i - 1], s[i]) ELSE upTo[i - 1]
  IN  upTo[Len(s)]

\* The receivers publish() collects, in the order of the subscriptions.
Receivers(sender) ==
  LET wanted == Sublist(subscribers, {i \in DOMAIN subscribers : subscribers[i].sender \in {NULL, sender}})
  IN  [i \in DOMAIN wanted |-> wanted[i].receiver]

\* publish(): all subscriptions are made on the GUI thread, so their dispatchers
\* are one and the test for a second one never throws.
publish(sender) ==
  /\ GuiRuns /\ CallsLeft /\ Len(stack) < MaxDepth
  /\ sender \in alive
  /\ Receivers(sender) # <<>>
  /\ Deliver(OneMoreCall, Receivers(sender), TRUE)
  /\ UNCHANGED <<alive, subscribers, threadVars, busVars, workerVars, countVars>>

subscribe(receiver, sender) ==
  /\ GuiRuns /\ receiver \in alive
  /\ Len(subscribers) < MaxSubs
  /\ subscribers' = Append(subscribers, [receiver |-> receiver, sender |-> sender])
  /\ UNCHANGED <<alive, stack, threadVars, busVars, workerVars, countVars, dangling>>

\* Mutant: only the first subscription of the receiver is erased.
UnsubscribeFirst(receiver) ==
  LET mine == {i \in DOMAIN subscribers : subscribers[i].receiver = receiver}
  IN  subscribers' = IF mine = {} THEN subscribers
                     ELSE RemoveAt(subscribers, CHOOSE i \in mine : \A j \in mine : i <= j)

unsubscibe(receiver) ==
  subscribers' = Sublist(subscribers, {i \in DOMAIN subscribers : subscribers[i].receiver # receiver})

\* A GUI object is deleted; its destroyed() signal runs unsubscibe() at once.
Destroy(o) ==
  /\ GuiRuns /\ o \in alive
  /\ alive' = alive \ {o}
  /\ unsubscibe(o)
  /\ UNCHANGED <<stack, threadVars, busVars, workerVars, countVars, dangling>>

\* send() of a request by the object that owns the worker.
send(w, o) ==
  /\ GuiRuns /\ o \in alive
  /\ thread[w] = "running" /\ ~ isQuiting[w]
  /\ sent[w] < MaxRequests
  /\ sent' = [sent EXCEPT ![w] = @ + 1]
  /\ LET d == dispatcher(addr[w], w) IN
       /\ dispatchersByThread' = [dispatchersByThread EXCEPT ![addr[w]] = d]
       /\ queue' = [queue EXCEPT ![d] = Append(@, [receiver |-> w, sender |-> o, num |-> sent'[w]])]
  /\ UNCHANGED <<guiVars, threadVars, guiQueue, workerVars, taken, delivered, dangling>>

-----------------------------------------------------------------------------
(* The GUI thread.                                                            *)

\* EventBusDispatcher::event(): the handler of the first receiver returns; the
\* next one is invoked, whether or not it still exists, or the delivery ends.
HandlerReturns ==
  /\ stack # <<>> /\ GuiRuns
  /\ LET rest == Tail(Last(stack).receivers) IN
       \/ /\ rest = <<>>
          /\ stack' = Front(stack)
          /\ UNCHANGED dangling
       \/ /\ rest # <<>>
          /\ stack' = [stack EXCEPT ![Len(stack)] = [@ EXCEPT !.receivers = rest, !.calls = 0]]
          /\ dangling' = (Head(rest) \notin alive)
  /\ UNCHANGED <<alive, subscribers, threadVars, busVars, workerVars, countVars>>

OpenMessageBox ==
  /\ stack # <<>> /\ GuiRuns /\ CallsLeft
  /\ stack' = [OneMoreCall EXCEPT ![Len(stack)].modal = TRUE]
  /\ UNCHANGED <<alive, subscribers, threadVars, busVars, workerVars, countVars, dangling>>

CloseMessageBox ==
  /\ stack # <<>> /\ GuiLoops
  /\ stack' = [stack EXCEPT ![Len(stack)].modal = FALSE]
  /\ UNCHANGED <<alive, subscribers, threadVars, busVars, workerVars, countVars, dangling>>

\* An event loop of the GUI thread takes the oldest posted reply.
GuiTakes ==
  /\ GuiLoops /\ Len(stack) < MaxDepth
  /\ guiQueue # <<>>
  /\ LET r == Head(guiQueue) IN
       /\ Deliver(stack, <<r.receiver>>, FALSE)
       /\ delivered' = [delivered EXCEPT ![r.worker] = r.num]
  /\ guiQueue' = Tail(guiQueue)
  /\ UNCHANGED <<alive, subscribers, threadVars, dispatchersByThread, queue,
                 workerVars, sent, taken>>

\* A worker's constructor: a QThread is allocated and started.
NewWorker(w, a) ==
  /\ GuiRuns
  /\ thread[w] = "unborn"
  /\ \A v \in Worker : addr[v] = a => thread[v] = "deleted"
  /\ a \in used => ReuseAddr
  /\ thread' = [thread EXCEPT ![w] = "running"]
  /\ addr' = [addr EXCEPT ![w] = a]
  /\ used' = used \cup {a}
  /\ UNCHANGED <<guiVars, isQuiting, busVars, workerVars, countVars, dangling>>

\* stopAndDelete(): the flag is set and the thread's event loop told to quit.
StopAndDelete(w) ==
  /\ GuiRuns
  /\ thread[w] = "running" /\ ~ isQuiting[w]
  /\ isQuiting' = [isQuiting EXCEPT ![w] = TRUE]
  /\ UNCHANGED <<guiVars, thread, addr, used, busVars, workerVars, countVars, dangling>>

\* The deleteLater() of a finished QThread, run by the GUI thread's event loop.
DeleteThread(w) ==
  /\ GuiLoops
  /\ thread[w] = "finished"
  /\ thread' = [thread EXCEPT ![w] = "deleted"]
  /\ UNCHANGED <<guiVars, addr, isQuiting, used, busVars, workerVars, countVars, dangling>>

-----------------------------------------------------------------------------
(* The worker threads.                                                        *)

\* The thread's event loop hands its dispatcher the oldest posted request.
Take(w) ==
  /\ Runs(w) /\ ~ isQuiting[w] /\ current[w] = NULL
  /\ queue[w] # <<>>
  /\ current' = [current EXCEPT ![w] = Head(queue[w])]
  /\ taken' = [taken EXCEPT ![w] = Head(queue[w]).num]
  /\ queue' = [queue EXCEPT ![w] = Tail(@)]
  /\ UNCHANGED <<guiVars, threadVars, dispatchersByThread, guiQueue, replying, sent, delivered, dangling>>

\* Mutant: a reply is given up when the bus is busy.
ReplyUnlessBusy(w) ==
  /\ Runs(w) /\ current[w] # NULL /\ ~ replying[w]
  /\ IF isQuiting[w] \/ Locked
       THEN /\ current' = [current EXCEPT ![w] = NULL]
            /\ UNCHANGED replying
       ELSE /\ replying' = [replying EXCEPT ![w] = TRUE]
            /\ UNCHANGED current
  /\ UNCHANGED <<guiVars, threadVars, busVars, countVars, dangling>>

\* reply(), up to the call of the bus: dropped when the worker is quitting.
Reply(w) ==
  /\ Runs(w) /\ current[w] # NULL /\ ~ replying[w]
  /\ IF isQuiting[w]
       THEN /\ current' = [current EXCEPT ![w] = NULL]
            /\ UNCHANGED replying
       ELSE /\ replying' = [replying EXCEPT ![w] = TRUE]
            /\ UNCHANGED current
  /\ UNCHANGED <<guiVars, threadVars, busVars, countVars, dangling>>

\* send() of the reply, once the mutex is free (it reads the receiver's
\* thread); the handler then returns.
Post(w) ==
  /\ Runs(w) /\ replying[w]
  /\ ~ Locked
  /\ guiQueue' = Append(guiQueue,
       [receiver |-> current[w].sender, worker |-> w, num |-> current[w].num])
  /\ dangling' = (current[w].sender \notin alive)
  /\ current' = [current EXCEPT ![w] = NULL]
  /\ replying' = [replying EXCEPT ![w] = FALSE]
  /\ UNCHANGED <<guiVars, threadVars, dispatchersByThread, queue, countVars>>

\* The event loop has quit: the worker object is deleted with its thread's end.
Finish(w) ==
  /\ Runs(w) /\ isQuiting[w] /\ current[w] = NULL
  /\ thread' = [thread EXCEPT ![w] = "finished"]
  /\ UNCHANGED <<guiVars, addr, isQuiting, used, busVars, workerVars, countVars, dangling>>

-----------------------------------------------------------------------------
Init ==
  /\ alive = Object /\ subscribers = <<>> /\ stack = <<>>
  /\ thread = [w \in Worker |-> "unborn"]
  /\ addr = [w \in Worker |-> NULL]
  /\ isQuiting = [w \in Worker |-> FALSE]
  /\ used = {}
  /\ dispatchersByThread = [a \in Addr |-> NULL]
  /\ queue = [w \in Worker |-> <<>>] /\ guiQueue = <<>>
  /\ current = [w \in Worker |-> NULL]
  /\ replying = [w \in Worker |-> FALSE]
  /\ sent = [w \in Worker |-> 0]
  /\ taken = [w \in Worker |-> 0]
  /\ delivered = [w \in Worker |-> 0]
  /\ dangling = FALSE

GuiNext ==
  \/ HandlerReturns \/ OpenMessageBox \/ CloseMessageBox \/ GuiTakes
  \/ \E o \in Object : publish(o) \/ Destroy(o)
  \/ \E o \in Object, s \in Object \cup {NULL} : subscribe(o, s)
  \/ \E w \in Worker, o \in Object : send(w, o)
  \/ \E w \in Worker, a \in Addr : NewWorker(w, a)
  \/ \E w \in Worker : StopAndDelete(w) \/ DeleteThread(w)

WorkerNext(w) == Take(w) \/ Reply(w) \/ Post(w) \/ Finish(w)

Next == GuiNext \/ \E w \in Worker : WorkerNext(w)

Spec == Init /\ [][Next]_vars

\* Every thread is scheduled, handlers return, and the user closes a message
\* box sooner or later.  An event loop serves a posted event although the GUI
\* thread runs other code again and again, and a worker that waits for the mutex
\* gets it although the GUI thread takes it again and again: strong fairness.
FairSpec ==
  /\ Spec
  /\ WF_vars(HandlerReturns) /\ WF_vars(CloseMessageBox) /\ SF_vars(GuiTakes)
  /\ \A w \in Worker : WF_vars(Take(w)) /\ WF_vars(Reply(w)) /\ SF_vars(Post(w))

-----------------------------------------------------------------------------
(* Properties.                                                                *)

Request == [receiver : Worker, sender : Object, num : 1 .. MaxRequests]
ReplyEvent == [receiver : Object, worker : Worker, num : 1 .. MaxRequests]
Frame == [receivers : Seq(Object) \ {<<>>}, locked : BOOLEAN, modal : BOOLEAN, calls : 0 .. MaxCalls]
Subscription == [receiver : Object, sender : Object \cup {NULL}]

\* Types of the bus's containers, of the GUI thread's stack of deliveries and of
\* the workers' state.
TypeOK ==
  /\ alive \subseteq Object
  /\ subscribers \in Seq(Subscription)
  /\ stack \in Seq(Frame)
  /\ thread \in [Worker -> {"unborn", "running", "finished", "deleted"}]
  /\ addr \in [Worker -> Addr \cup {NULL}]
  /\ isQuiting \in [Worker -> BOOLEAN]
  /\ used \subseteq Addr
  /\ dispatchersByThread \in [Addr -> Worker \cup {NULL}]
  /\ queue \in [Worker -> Seq(Request)] /\ guiQueue \in Seq(ReplyEvent)
  /\ current \in [Worker -> Request \cup {NULL}]
  /\ replying \in [Worker -> BOOLEAN]
  /\ {sent, taken, delivered} \subseteq [Worker -> 0 .. MaxRequests]
  /\ dangling \in BOOLEAN

\* The list publish() walks never names a destroyed object, whatever handlers
\* destroy while a delivery is in progress (EventBus::unsubscibe).
SubscribersAlive == \A i \in DOMAIN subscribers : subscribers[i].receiver \in alive

\* A worker handles the requests sent to it in the order they were sent, and the GUI
\* thread is given its replies in the order of the requests, none twice and none
\* skipped, even by the nested event loops of message boxes (EventBus::sendEvent).
DeliveredInOrder ==
  [][\A w \in Worker : /\ taken'[w] \in {taken[w], taken[w] + 1}
                       /\ delivered'[w] \in {delivered[w], delivered[w] + 1}]_vars

\* The requests for w reach w's thread: no dispatcher of a deleted QThread is left
\* under the address its own QThread has (EventBus::dispatcher never removes one).
OwnDispatcher(w) == dispatchersByThread[addr[w]] = w

\* A request that was sent is taken up, and its reply is handled, unless the worker is
\* stopped first: a message box open inside a synchronous delivery keeps the mutex,
\* and with it every reply, only until it is closed. Of a worker whose QThread reuses
\* the address of a deleted one nothing is said: its requests are posted to the
\* dispatcher of a thread that has ended (EventBus::dispatcher), and are lost.
BusDelivers ==
  \A w \in Worker, n \in 1 .. MaxRequests :
    sent[w] >= n /\ OwnDispatcher(w) ~> delivered[w] >= n \/ isQuiting[w] \/ dangling
=============================================================================
