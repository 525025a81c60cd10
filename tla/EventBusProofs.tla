--------------------------- MODULE EventBusProofs ---------------------------
(* What holds of the bus for any number of objects, workers, addresses and    *)
(* requests, whether or not the allocator reuses the address of a thread.     *)
EXTENDS EventBus, SequenceTheorems, WellFoundedInduction, TLAPS

\* A worker has an address once it is born, two workers share one only when the
\* older is deleted, and a dispatcher is registered under its thread's address.
AddressSound ==
  /\ \A w \in Worker : IF thread[w] = "unborn" THEN addr[w] = NULL ELSE addr[w] \in Addr
  /\ \A v, w \in Worker :
       v # w /\ addr[v] = addr[w] /\ addr[w] # NULL => thread[v] = "deleted" \/ thread[w] = "deleted"
  /\ \A a \in Addr : dispatchersByThread[a] # NULL => addr[dispatchersByThread[a]] = a

\* The requests posted to the dispatcher of a thread that is not deleted are the next
\* ones it takes; one that is not its own holds none of them.
QueueSound ==
  \A w \in Worker :
    /\ thread[w] = "unborn" => queue[w] = << >> /\ sent[w] = 0 /\ taken[w] = 0 /\ current[w] = NULL
    /\ thread[w] \notin {"unborn", "deleted"} =>
         /\ \A i \in DOMAIN queue[w] : queue[w][i].num = taken[w] + i
         /\ dispatchersByThread[addr[w]] = w => taken[w] + Len(queue[w]) = sent[w]
         /\ dispatchersByThread[addr[w]] # w => queue[w] = << >>
         /\ dispatchersByThread[addr[w]] = NULL => sent[w] = 0 /\ taken[w] = 0

\* Among the first k events of Q is the reply of w to its request n.
Replied(Q, k, w, n) == \E j \in 1 .. k : Q[j].worker = w /\ Q[j].num = n

\* The replies posted by w are those after the last one delivered, in the order of the
\* requests, without a gap, up to the request it handles now.
ReplySound(Q, w, d, t) ==
  \A i \in DOMAIN Q : Q[i].worker = w =>
    /\ Q[i].num > d /\ Q[i].num <= t
    /\ \A j \in 1 .. i - 1 : Q[j].worker = w => Q[j].num < Q[i].num
    /\ \A n \in d + 1 .. Q[i].num - 1 : Replied(Q, i - 1, w, n)

RepliesSound ==
  \A w \in Worker :
    /\ delivered[w] <= taken[w]
    /\ ReplySound(guiQueue, w, delivered[w], taken[w])
    /\ current[w] # NULL =>
         /\ current[w].num = taken[w] /\ delivered[w] < taken[w]
         /\ \A i \in DOMAIN guiQueue : guiQueue[i].worker = w => guiQueue[i].num < taken[w]
         /\ \A n \in delivered[w] + 1 .. taken[w] - 1 : Replied(guiQueue, Len(guiQueue), w, n)
    /\ current[w] = NULL =>
         /\ ~ replying[w]
         /\ ~ isQuiting[w] => \A n \in delivered[w] + 1 .. taken[w] : Replied(guiQueue, Len(guiQueue), w, n)

\* The inductive invariant.
IInv == TypeOK /\ SubscribersAlive /\ AddressSound /\ QueueSound /\ RepliesSound

-----------------------------------------------------------------------------
(* Loops: what Sublist returns. Induction on the position is an argument about *)
(* the least position at which something fails.                               *)

Less == {p \in Nat \X Nat : p[1] < p[2]}

\* Every set of numbers that is not empty has a least one.
LEMMA LeastNumber == ASSUME NEW T, T \subseteq Nat, T # {} PROVE \E n \in T : \A m \in T : n <= m
<1>1. IsWellFoundedOn(Less, Nat)
  BY NatLessThanWellFounded DEF Less, OpToRel
<1>2. PICK n \in T : \A m \in T : ~ (<<m, n>> \in Less)
  BY <1>1, WFMin
<1>3. ASSUME NEW m \in T PROVE n <= m
  <2>1. m \in Nat /\ n \in Nat /\ ~ (<<m, n>> \in Less)
    BY <1>2
  <2> QED BY <2>1 DEF Less
<1> QED BY <1>3

\* f is what the loop over s has passed on after each of its first n steps.
LoopOver(s, kept, f, n) ==
  f = [i \in 0 .. n |-> IF i = 0 THEN << >>
                        ELSE IF i \in kept THEN Append(f[i - 1], s[i]) ELSE f[i - 1]]

\* The loop can be carried on to its end.
LEMMA LoopExists ==
  ASSUME NEW S, NEW s \in Seq(S), NEW kept PROVE \E f : LoopOver(s, kept, f, Len(s))
<1> DEFINE T == {n \in Nat : n <= Len(s) /\ ~ \E f : LoopOver(s, kept, f, n)}
<1>1. Len(s) \in Nat /\ T \subseteq Nat
  OBVIOUS
<1>2. SUFFICES ASSUME T # {} PROVE FALSE
  BY <1>1
<1>3. PICK n \in T : \A m \in T : n <= m
  <2> HIDE DEF T
  <2> QED BY <1>1, <1>2, LeastNumber
<1>4. n \in Nat /\ n <= Len(s) /\ ~ \E f : LoopOver(s, kept, f, n)
  OBVIOUS
<1>5. n # 0
  <2> SUFFICES ASSUME n = 0 PROVE FALSE
    OBVIOUS
  <2>1. LoopOver(s, kept, [i \in 0 .. 0 |-> << >>], 0)
    BY DEF LoopOver
  <2> QED BY <2>1, <1>4
<1>6. PICK f : LoopOver(s, kept, f, n - 1)
  <2>1. n - 1 \in Nat /\ n - 1 <= Len(s) /\ ~ (n <= n - 1)
    BY <1>4, <1>5
  <2> QED BY <2>1, <1>3
<1> DEFINE g == [i \in 0 .. n |-> IF i = n THEN (IF n \in kept THEN Append(f[n - 1], s[n]) ELSE f[n - 1])
                                  ELSE f[i]]
<1>7. LoopOver(s, kept, g, n)
  <2>1. ASSUME NEW i \in 0 .. n
        PROVE  g[i] = IF i = 0 THEN << >> ELSE IF i \in kept THEN Append(g[i - 1], s[i]) ELSE g[i - 1]
    <3>1. CASE i = n
      BY <1>4, <1>5, <3>1
    <3>2. CASE i # n
      <4>1. i \in 0 .. n - 1
        BY <1>4, <3>2
      <4>2. f[i] = IF i = 0 THEN << >> ELSE IF i \in kept THEN Append(f[i - 1], s[i]) ELSE f[i - 1]
        BY <1>6, <4>1 DEF LoopOver
      <4>3. i # 0 => i - 1 \in 0 .. n /\ i - 1 # n
        BY <1>4, <4>1
      <4> QED BY <1>4, <3>2, <4>1, <4>2, <4>3
    <3> QED BY <3>1, <3>2
  <2> HIDE DEF g
  <2>2. g = [i \in 0 .. n |-> g[i]]
    BY DEF g
  <2> QED BY <2>1, <2>2 DEF LoopOver
<1> QED BY <1>4, <1>7

\* After every step the loop has passed on elements at kept positions it has seen, only.
LEMMA LoopPasses ==
  ASSUME NEW S, NEW s \in Seq(S), NEW kept, NEW f, LoopOver(s, kept, f, Len(s))
  PROVE  \A i \in 0 .. Len(s) :
           f[i] \in Seq(S) /\ \A k \in 1 .. Len(f[i]) : \E j \in 1 .. i : j \in kept /\ f[i][k] = s[j]
<1> DEFINE P(i) == f[i] \in Seq(S) /\ \A k \in 1 .. Len(f[i]) : \E j \in 1 .. i : j \in kept /\ f[i][k] = s[j]
           T == {i \in Nat : i <= Len(s) /\ ~ P(i)}
<1>1. Len(s) \in Nat /\ T \subseteq Nat
  OBVIOUS
<1>2. SUFFICES ASSUME T # {} PROVE FALSE
  BY <1>1
<1>3. PICK n \in T : \A m \in T : n <= m
  <2> HIDE DEF T
  <2> QED BY <1>1, <1>2, LeastNumber
<1>4. n \in Nat /\ n <= Len(s) /\ ~ P(n)
  OBVIOUS
<1>5. f[n] = IF n = 0 THEN << >> ELSE IF n \in kept THEN Append(f[n - 1], s[n]) ELSE f[n - 1]
  <2>1. n \in 0 .. Len(s)
    BY <1>1, <1>4
  <2> QED BY <2>1 DEF LoopOver
<1>6. n # 0
  <2> SUFFICES ASSUME n = 0 PROVE P(n)
    BY <1>4
  <2>1. f[n] = << >>
    BY <1>5
  <2>2. f[n] \in Seq(S) /\ Len(f[n]) = 0
    BY <2>1
  <2> QED BY <2>2
<1>7. P(n - 1)
  <2>1. n - 1 \in Nat /\ n - 1 <= Len(s) /\ ~ (n <= n - 1)
    BY <1>1, <1>4, <1>6
  <2>2. n - 1 \notin T
    BY <2>1, <1>3
  <2> QED BY <2>1, <2>2
<1>8. s[n] \in S
  BY <1>4, <1>6
<1>9. CASE n \in kept
  <2>1. f[n] = Append(f[n - 1], s[n])
    BY <1>5, <1>6, <1>9
  <2>2. f[n] \in Seq(S)
    BY <1>7, <1>8, <2>1
  <2>3. ASSUME NEW k \in 1 .. Len(f[n]) PROVE \E j \in 1 .. n : j \in kept /\ f[n][k] = s[j]
    <3>1. CASE k = Len(f[n - 1]) + 1
      <4>1. f[n][k] = s[n] /\ n \in 1 .. n
        BY <1>4, <1>6, <1>7, <1>8, <2>1, <3>1
      <4> QED BY <1>9, <4>1
    <3>2. CASE k # Len(f[n - 1]) + 1
      <4>1. k \in 1 .. Len(f[n - 1]) /\ f[n][k] = f[n - 1][k]
        BY <1>7, <1>8, <2>1, <3>2
      <4>2. PICK j \in 1 .. n - 1 : j \in kept /\ f[n - 1][k] = s[j]
        BY <1>7, <4>1
      <4>3. j \in 1 .. n
        BY <1>4
      <4> QED BY <4>1, <4>2, <4>3
    <3> QED BY <3>1, <3>2
  <2> QED BY <1>4, <2>2, <2>3
<1>10. CASE n \notin kept
  <2>1. f[n] = f[n - 1]
    BY <1>5, <1>6, <1>10
  <2>2. ASSUME NEW k \in 1 .. Len(f[n]) PROVE \E j \in 1 .. n : j \in kept /\ f[n][k] = s[j]
    <3>1. PICK j \in 1 .. n - 1 : j \in kept /\ f[n - 1][k] = s[j]
      BY <1>7, <2>1
    <3>2. j \in 1 .. n
      BY <1>4
    <3> QED BY <2>1, <3>1, <3>2
  <2> QED BY <1>4, <1>7, <2>1, <2>2
<1> QED BY <1>9, <1>10

\* A sublist is made of elements at kept positions.
LEMMA SublistElements ==
  ASSUME NEW S, NEW s \in Seq(S), NEW kept
  PROVE  /\ Sublist(s, kept) \in Seq(S)
         /\ \A k \in DOMAIN Sublist(s, kept) : \E j \in DOMAIN s : j \in kept /\ Sublist(s, kept)[k] = s[j]
<1> DEFINE f == CHOOSE f : LoopOver(s, kept, f, Len(s))
<1>1. LoopOver(s, kept, f, Len(s))
  BY LoopExists
<1>2. Sublist(s, kept) = f[Len(s)]
  BY DEF Sublist, LoopOver
<1> HIDE DEF f
<1>3. Len(s) \in 0 .. Len(s) /\ DOMAIN s = 1 .. Len(s)
  OBVIOUS
<1>4. /\ f[Len(s)] \in Seq(S)
      /\ \A k \in 1 .. Len(f[Len(s)]) : \E j \in 1 .. Len(s) : j \in kept /\ f[Len(s)][k] = s[j]
  BY <1>1, <1>3, LoopPasses
<1>5. DOMAIN f[Len(s)] = 1 .. Len(f[Len(s)])
  BY <1>4
<1> QED BY <1>2, <1>3, <1>4, <1>5, Zenon

-----------------------------------------------------------------------------
(* The GUI thread: publishing, subscribing, destroying, message boxes.        *)

\* A step that leaves threads, queues and counters alone.
LEMMA GuiOnly ==
  ASSUME IInv, UNCHANGED <<threadVars, busVars, workerVars, countVars>>,
         alive' \subseteq Object, subscribers' \in Seq(Subscription), stack' \in Seq(Frame),
         dangling' \in BOOLEAN, SubscribersAlive'
  PROVE  IInv'
<1> USE DEF threadVars, busVars, workerVars, countVars
<1>1. TypeOK'
  BY DEF IInv, TypeOK
<1>2. AddressSound' /\ QueueSound'
  BY DEF IInv, AddressSound, QueueSound
<1>3. RepliesSound'
  BY DEF IInv, RepliesSound, ReplySound, Replied
<1> QED BY <1>1, <1>2, <1>3 DEF IInv

\* One more call keeps the stack a stack.
LEMMA OneMore == ASSUME stack \in Seq(Frame), CallsLeft PROVE OneMoreCall \in Seq(Frame) /\ Len(OneMoreCall) = Len(stack)
<1>1. CASE stack = << >>
  BY <1>1 DEF OneMoreCall
<1>2. CASE stack # << >>
  <2> DEFINE n == Len(stack)
             e == [stack[n] EXCEPT !.calls = stack[n].calls + 1]
  <2>1. n \in 1 .. Len(stack) /\ stack[n] \in Frame
    BY <1>2
  <2>2. stack[n].calls < MaxCalls /\ MaxCalls \in Nat
    BY <1>2, BusAssumption DEF CallsLeft, Last
  <2>3. e \in Frame
    <3> HIDE DEF n
    <3>1. stack[n].calls + 1 \in 0 .. MaxCalls
      BY <2>1, <2>2 DEF Frame
    <3> QED BY <2>1, <3>1 DEF Frame
  <2>4. OneMoreCall = [stack EXCEPT ![n] = e]
    BY <1>2 DEF OneMoreCall
  <2> HIDE DEF n, e
  <2> QED BY <2>1, <2>3, <2>4, ExceptSeq
<1> QED BY <1>1, <1>2

\* The receivers collected by publish() are objects.
LEMMA ReceiversAreObjects == ASSUME TypeOK, NEW sender PROVE Receivers(sender) \in Seq(Object)
<1> DEFINE K == {i \in DOMAIN subscribers : subscribers[i].sender \in {NULL, sender}}
           wanted == Sublist(subscribers, K)
<1>1. subscribers \in Seq(Subscription)
  BY DEF TypeOK
<1>2. wanted \in Seq(Subscription)
  <2> HIDE DEF K
  <2> QED BY <1>1, SublistElements
<1>3. Receivers(sender) = [i \in DOMAIN wanted |-> wanted[i].receiver]
  BY DEF Receivers
<1> HIDE DEF wanted
<1>4. ASSUME NEW i \in 1 .. Len(wanted) PROVE wanted[i].receiver \in Object
  <2>1. wanted[i] \in Subscription
    BY <1>2
  <2> QED BY <2>1 DEF Subscription
<1> QED BY <1>2, <1>3, <1>4

\* unsubscibe() leaves no subscription of the receiver.
LEMMA Unsubscribed ==
  ASSUME TypeOK, NEW o, unsubscibe(o)
  PROVE  /\ subscribers' \in Seq(Subscription)
         /\ \A i \in DOMAIN subscribers' :
              /\ subscribers'[i].receiver # o
              /\ \E j \in DOMAIN subscribers : subscribers'[i] = subscribers[j]
<1> DEFINE K == {i \in DOMAIN subscribers : subscribers[i].receiver # o}
<1>1. subscribers \in Seq(Subscription) /\ subscribers' = Sublist(subscribers, K)
  BY DEF TypeOK, unsubscibe
<1>2. \A j \in K : subscribers[j].receiver # o
  OBVIOUS
<1> HIDE DEF K
<1>3. /\ Sublist(subscribers, K) \in Seq(Subscription)
      /\ \A i \in DOMAIN Sublist(subscribers, K) :
           \E j \in DOMAIN subscribers : j \in K /\ Sublist(subscribers, K)[i] = subscribers[j]
  BY <1>1, SublistElements
<1> QED BY <1>1, <1>2, <1>3

\* Publishing, subscribing and the death of an object.
LEMMA SubscriptionStep ==
  ASSUME IInv, \/ \E o \in Object : publish(o) \/ Destroy(o)
               \/ \E o \in Object, s \in Object \cup {NULL} : subscribe(o, s)
  PROVE  IInv'
<1> USE DEF IInv
<1>0. alive \subseteq Object /\ subscribers \in Seq(Subscription) /\ stack \in Seq(Frame) /\ dangling \in BOOLEAN
  BY DEF TypeOK
<1>1. ASSUME NEW o \in Object, publish(o) PROVE IInv'
  <2> DEFINE f == [receivers |-> Receivers(o), locked |-> TRUE, modal |-> FALSE, calls |-> 0]
  <2>1. f \in Frame
    BY <1>1, ReceiversAreObjects, BusAssumption DEF publish, Frame
  <2>2. stack' = Append(OneMoreCall, f) /\ dangling' \in BOOLEAN
    BY <1>1 DEF publish, Deliver
  <2> HIDE DEF f
  <2>3. stack' \in Seq(Frame)
    BY <1>0, <1>1, <2>1, <2>2, OneMore DEF publish
  <2>4. SubscribersAlive'
    BY <1>1 DEF publish, SubscribersAlive
  <2> QED BY <1>0, <1>1, <2>2, <2>3, <2>4, GuiOnly DEF publish
<1>2. ASSUME NEW o \in Object, Destroy(o) PROVE IInv'
  <2>1. alive' = alive \ {o} /\ unsubscibe(o)
    BY <1>2 DEF Destroy
  <2>2. SubscribersAlive'
    BY <2>1, Unsubscribed DEF SubscribersAlive
  <2> QED BY <1>0, <1>2, <2>1, <2>2, Unsubscribed, GuiOnly DEF Destroy
<1>3. ASSUME NEW o \in Object, NEW s \in Object \cup {NULL}, subscribe(o, s) PROVE IInv'
  <2> DEFINE e == [receiver |-> o, sender |-> s]
  <2>1. e \in Subscription /\ e.receiver = o /\ o \in alive /\ subscribers' = Append(subscribers, e) /\ UNCHANGED alive
    BY <1>3 DEF subscribe, Subscription
  <2> HIDE DEF e
  <2>2. subscribers' \in Seq(Subscription) /\ SubscribersAlive'
    BY <1>0, <2>1 DEF SubscribersAlive
  <2> QED BY <1>0, <1>3, <2>1, <2>2, GuiOnly DEF subscribe
<1> QED BY <1>1, <1>2, <1>3

\* Handlers that return, and message boxes.
LEMMA HandlerStep ==
  ASSUME IInv, HandlerReturns \/ OpenMessageBox \/ CloseMessageBox PROVE IInv'
<1> USE DEF IInv
<1> DEFINE n == Len(stack)
           top == stack[n]
<1>1. /\ stack # << >> /\ alive \subseteq Object /\ subscribers \in Seq(Subscription)
      /\ stack \in Seq(Frame) /\ dangling \in BOOLEAN
      /\ UNCHANGED <<alive, subscribers, threadVars, busVars, workerVars, countVars>>
  BY DEF TypeOK, HandlerReturns, OpenMessageBox, CloseMessageBox
<1>2. n \in 1 .. Len(stack) /\ top \in Frame /\ Last(stack) = top
  BY <1>1 DEF Last
<1>3. SubscribersAlive'
  BY <1>1 DEF SubscribersAlive
<1>4. ASSUME stack' \in Seq(Frame), dangling' \in BOOLEAN PROVE IInv'
  BY <1>1, <1>3, <1>4, GuiOnly
<1>5. CASE HandlerReturns
  <2> DEFINE rest == Tail(top.receivers)
             next == [top EXCEPT !.receivers = rest, !.calls = 0]
  <2>1. \/ stack' = Front(stack) /\ UNCHANGED dangling
        \/ rest # << >> /\ stack' = [stack EXCEPT ![n] = next] /\ dangling' \in BOOLEAN
    BY <1>2, <1>5 DEF HandlerReturns
  <2>2. Front(stack) \in Seq(Frame)
    BY <1>1 DEF Front
  <2>3. ASSUME rest # << >> PROVE next \in Frame
    <3>1. top.receivers \in Seq(Object) /\ top.receivers # << >>
      BY <1>2 DEF Frame
    <3>2. rest \in Seq(Object) \ {<< >>}
      BY <2>3, <3>1
    <3>3. 0 \in 0 .. MaxCalls
      BY BusAssumption
    <3> HIDE DEF rest, top
    <3> QED BY <1>2, <3>2, <3>3 DEF Frame
  <2> HIDE DEF rest, next, n, top
  <2> QED BY <1>1, <1>2, <1>4, <2>1, <2>2, <2>3, ExceptSeq
<1>6. CASE OpenMessageBox
  <2> DEFINE e == [OneMoreCall[n] EXCEPT !.modal = TRUE]
  <2>1. OneMoreCall \in Seq(Frame) /\ Len(OneMoreCall) = n
    BY <1>1, <1>6, OneMore DEF OpenMessageBox
  <2>2. stack' = [OneMoreCall EXCEPT ![n] = e] /\ UNCHANGED dangling
    BY <1>6 DEF OpenMessageBox
  <2>3. OneMoreCall[n] \in Frame
    BY <1>2, <2>1
  <2>4. e \in Frame
    BY <2>3 DEF Frame
  <2> HIDE DEF n, e
  <2> QED BY <1>1, <1>2, <1>4, <2>1, <2>2, <2>4, ExceptSeq
<1>7. CASE CloseMessageBox
  <2> DEFINE e == [top EXCEPT !.modal = FALSE]
  <2>1. stack' = [stack EXCEPT ![n] = e] /\ UNCHANGED dangling
    BY <1>7 DEF CloseMessageBox
  <2>2. e \in Frame
    <3> HIDE DEF top
    <3> QED BY <1>2 DEF Frame
  <2> HIDE DEF n, e, top
  <2> QED BY <1>1, <1>2, <1>4, <2>1, <2>2, ExceptSeq
<1> QED BY <1>5, <1>6, <1>7

-----------------------------------------------------------------------------
(* The threads: birth, stop and death.                                        *)

\* The types of the thread's state and of the queues, one by one.
LEMMA Typed ==
  ASSUME TypeOK
  PROVE  /\ thread \in [Worker -> {"unborn", "running", "finished", "deleted"}]
         /\ addr \in [Worker -> Addr \cup {NULL}] /\ isQuiting \in [Worker -> BOOLEAN] /\ used \subseteq Addr
         /\ dispatchersByThread \in [Addr -> Worker \cup {NULL}]
         /\ queue \in [Worker -> Seq(Request)] /\ guiQueue \in Seq(ReplyEvent)
         /\ current \in [Worker -> Request \cup {NULL}] /\ replying \in [Worker -> BOOLEAN]
         /\ sent \in [Worker -> 0 .. MaxRequests] /\ taken \in [Worker -> 0 .. MaxRequests]
         /\ delivered \in [Worker -> 0 .. MaxRequests]
         /\ MaxRequests \in Nat /\ NULL \notin Worker /\ NULL \notin Addr
  BY BusAssumption DEF TypeOK

\* A worker is born at an address no living thread has, with nothing sent to it.
LEMMA NewWorkerStep ==
  ASSUME IInv, NEW w \in Worker, NEW a \in Addr, NewWorker(w, a) PROVE IInv'
<1> USE DEF IInv
<1>1. /\ thread[w] = "unborn" /\ thread' = [thread EXCEPT ![w] = "running"]
      /\ addr' = [addr EXCEPT ![w] = a] /\ used' = used \cup {a}
      /\ \A v \in Worker : addr[v] = a => thread[v] = "deleted"
      /\ UNCHANGED <<guiVars, isQuiting, busVars, workerVars, countVars, dangling>>
  BY DEF NewWorker
<1> USE DEF guiVars, busVars, workerVars, countVars
<1>2. TypeOK' /\ SubscribersAlive'
  BY <1>1, Typed DEF TypeOK, SubscribersAlive
<1>3. /\ addr'[w] = a /\ thread'[w] = "running" /\ addr[w] = NULL
      /\ \A v \in Worker \ {w} : addr'[v] = addr[v] /\ thread'[v] = thread[v]
  BY <1>1, Typed DEF AddressSound
<1>4. AddressSound'
  <2>1. \A v \in Worker : IF thread'[v] = "unborn" THEN addr'[v] = NULL ELSE addr'[v] \in Addr
    BY <1>1, <1>3 DEF AddressSound
  <2>2. ASSUME NEW u \in Worker, NEW v \in Worker, u # v, addr'[u] = addr'[v], addr'[v] # NULL
        PROVE  thread'[u] = "deleted" \/ thread'[v] = "deleted"
    BY <1>1, <1>3, <2>2 DEF AddressSound
  <2>3. ASSUME NEW b \in Addr, dispatchersByThread[b] # NULL PROVE addr'[dispatchersByThread[b]] = b
    <3>1. dispatchersByThread[b] \in Worker /\ addr[dispatchersByThread[b]] = b /\ b # NULL
      BY <2>3, Typed DEF AddressSound
    <3> QED BY <1>3, <3>1
  <2> QED BY <1>1, <2>1, <2>2, <2>3 DEF AddressSound
<1>5. QueueSound'
  <2>1. queue[w] = << >> /\ sent[w] = 0 /\ taken[w] = 0
    BY <1>1 DEF QueueSound
  <2>2. dispatchersByThread[a] # w
    BY <1>3, Typed DEF AddressSound
  <2> QED BY <1>1, <1>3, <2>1, <2>2 DEF QueueSound
<1>6. RepliesSound'
  BY <1>1 DEF RepliesSound, ReplySound, Replied
<1> QED BY <1>2, <1>4, <1>5, <1>6

\* A worker is told to stop; its thread ends, and is deleted later.
LEMMA StopStep ==
  ASSUME IInv, NEW w \in Worker, StopAndDelete(w) \/ Finish(w) \/ DeleteThread(w) PROVE IInv'
<1> USE DEF IInv, guiVars, busVars, workerVars, countVars
<1>1. /\ UNCHANGED <<guiVars, addr, used, busVars, workerVars, countVars, dangling>>
      /\ \A v \in Worker : /\ thread'[v] = "unborn" <=> thread[v] = "unborn"
                           /\ thread[v] = "deleted" => thread'[v] = "deleted"
                           /\ isQuiting[v] => isQuiting'[v]
      /\ thread' \in [Worker -> {"unborn", "running", "finished", "deleted"}]
      /\ isQuiting' \in [Worker -> BOOLEAN]
  <2>1. CASE StopAndDelete(w)
    BY <2>1, Typed DEF StopAndDelete
  <2>2. CASE Finish(w)
    BY <2>2, Typed DEF Finish, Runs
  <2>3. CASE DeleteThread(w)
    BY <2>3, Typed DEF DeleteThread
  <2> QED BY <2>1, <2>2, <2>3
<1>2. TypeOK' /\ SubscribersAlive'
  BY <1>1, Typed DEF TypeOK, SubscribersAlive
<1>3. AddressSound'
  BY <1>1 DEF AddressSound
<1>4. QueueSound'
  BY <1>1 DEF QueueSound
<1>5. RepliesSound'
  BY <1>1 DEF RepliesSound, ReplySound, Replied
<1> QED BY <1>2, <1>3, <1>4, <1>5

-----------------------------------------------------------------------------
(* Requests.                                                                  *)

\* The address of a thread that runs is an address, under which its own dispatcher is
\* registered, none, or that of a deleted thread that had it before.
LEMMA DispatcherOf ==
  ASSUME IInv, NEW w \in Worker, thread[w] = "running"
  PROVE  /\ addr[w] \in Addr /\ dispatcher(addr[w], w) \in Worker
         /\ \/ dispatcher(addr[w], w) = w /\ dispatchersByThread[addr[w]] \in {w, NULL}
            \/ /\ dispatcher(addr[w], w) # w /\ dispatchersByThread[addr[w]] = dispatcher(addr[w], w)
               /\ thread[dispatcher(addr[w], w)] = "deleted"
  BY Typed DEF IInv, AddressSound, dispatcher

\* send(): the request is the last of the queue of its worker, or goes to the dispatcher
\* of a deleted thread, which nobody serves.
LEMMA SendStep == ASSUME IInv, NEW w \in Worker, NEW o \in Object, send(w, o) PROVE IInv'
<1> USE DEF IInv, guiVars, threadVars, workerVars
<1> DEFINE d == dispatcher(addr[w], w)
           n == sent[w] + 1
           q == [receiver |-> w, sender |-> o, num |-> n]
<1>1. /\ thread[w] = "running" /\ sent[w] < MaxRequests /\ sent' = [sent EXCEPT ![w] = n]
      /\ dispatchersByThread' = [dispatchersByThread EXCEPT ![addr[w]] = d]
      /\ queue' = [queue EXCEPT ![d] = Append(queue[d], q)]
      /\ UNCHANGED <<guiVars, threadVars, guiQueue, workerVars, taken, delivered, dangling>>
  BY Typed DEF send
<1>2. n \in 1 .. MaxRequests /\ n \in 0 .. MaxRequests /\ q \in Request /\ q.num = n
  BY <1>1, Typed DEF Request
<1>3. /\ addr[w] \in Addr /\ d \in Worker
      /\ \/ d = w /\ dispatchersByThread[addr[w]] \in {w, NULL}
         \/ d # w /\ dispatchersByThread[addr[w]] = d /\ thread[d] = "deleted"
  BY <1>1, DispatcherOf
<1> HIDE DEF d, q
<1>4. /\ queue' \in [Worker -> Seq(Request)] /\ sent' \in [Worker -> 0 .. MaxRequests]
      /\ dispatchersByThread' \in [Addr -> Worker \cup {NULL}]
  BY <1>1, <1>2, <1>3, Typed
<1>5. TypeOK' /\ SubscribersAlive'
  BY <1>1, <1>4, Typed DEF TypeOK, SubscribersAlive
<1>6. AddressSound'
  <2>1. addr[d] = addr[w]
    BY <1>3, Typed DEF AddressSound
  <2>2. ASSUME NEW b \in Addr, dispatchersByThread'[b] # NULL PROVE addr[dispatchersByThread'[b]] = b
    <3>1. CASE b = addr[w]
      BY <1>1, <1>3, <2>1, <3>1, Typed
    <3>2. CASE b # addr[w]
      BY <1>1, <2>2, <3>2, Typed DEF AddressSound
    <3> QED BY <3>1, <3>2
  <2> QED BY <1>1, <2>2 DEF AddressSound
<1>7. QueueSound'
  <2> SUFFICES ASSUME NEW v \in Worker
               PROVE  /\ thread[v] = "unborn" => queue'[v] = << >> /\ sent'[v] = 0 /\ taken[v] = 0 /\ current[v] = NULL
                      /\ thread[v] \notin {"unborn", "deleted"} =>
                           /\ \A i \in DOMAIN queue'[v] : queue'[v][i].num = taken[v] + i
                           /\ dispatchersByThread'[addr[v]] = v => taken[v] + Len(queue'[v]) = sent'[v]
                           /\ dispatchersByThread'[addr[v]] # v => queue'[v] = << >>
                           /\ dispatchersByThread'[addr[v]] = NULL => sent'[v] = 0 /\ taken[v] = 0
    BY <1>1 DEF QueueSound
  <2>1. CASE v # w
    <3>1. thread[v] # "deleted" => v # d
      BY <1>3, <2>1
    <3>2. thread[v] \notin {"unborn", "deleted"} => addr[v] # addr[w] /\ addr[v] \in Addr
      BY <1>1, <1>3, <2>1, Typed DEF AddressSound
    <3>3. thread[v] # "deleted" => queue'[v] = queue[v] /\ sent'[v] = sent[v]
      BY <1>1, <2>1, <3>1, Typed
    <3>4. thread[v] \notin {"unborn", "deleted"} => dispatchersByThread'[addr[v]] = dispatchersByThread[addr[v]]
      BY <1>1, <3>2, Typed
    <3>5. thread[v] = "unborn" => thread[v] # "deleted"
      OBVIOUS
    <3> QED BY <3>3, <3>4, <3>5 DEF QueueSound
  <2>2. CASE v = w
    <3>1. sent'[w] = n /\ dispatchersByThread'[addr[w]] = d /\ d # NULL /\ thread[w] \notin {"unborn", "deleted"}
      BY <1>1, <1>3, Typed
    <3>2. CASE d = w
      <4>1. queue[w] \in Seq(Request) /\ taken[w] \in Nat /\ sent[w] \in Nat
        BY Typed
      <4>2. taken[w] + Len(queue[w]) = sent[w] /\ \A i \in DOMAIN queue[w] : queue[w][i].num = taken[w] + i
        <5>1. CASE dispatchersByThread[addr[w]] = w
          BY <3>1, <5>1 DEF QueueSound
        <5>2. CASE dispatchersByThread[addr[w]] = NULL
          <6>1. queue[w] = << >> /\ sent[w] = 0 /\ taken[w] = 0
            BY <3>1, <5>2, Typed DEF QueueSound
          <6> QED BY <6>1
        <5> QED BY <1>3, <3>2, <5>1, <5>2
      <4>3. queue'[w] = Append(queue[w], q)
        BY <1>1, <3>2, Typed
      <4>4. Len(queue'[w]) = Len(queue[w]) + 1 /\ \A i \in DOMAIN queue'[w] : queue'[w][i].num = taken[w] + i
        <5>1. /\ Len(queue'[w]) = Len(queue[w]) + 1 /\ DOMAIN queue'[w] = 1 .. Len(queue[w]) + 1
              /\ queue'[w][Len(queue[w]) + 1] = q /\ \A i \in 1 .. Len(queue[w]) : queue'[w][i] = queue[w][i]
          BY <1>2, <4>1, <4>3
        <5>2. q.num = taken[w] + (Len(queue[w]) + 1)
          BY <1>2, <4>1, <4>2
        <5>3. ASSUME NEW i \in 1 .. Len(queue[w]) + 1 PROVE queue'[w][i].num = taken[w] + i
          <6>1. CASE i = Len(queue[w]) + 1
            BY <5>1, <5>2, <6>1
          <6>2. CASE i # Len(queue[w]) + 1
            <7>1. i \in 1 .. Len(queue[w]) /\ i \in DOMAIN queue[w]
              BY <4>1, <6>2
            <7> QED BY <4>2, <5>1, <7>1
          <6> QED BY <6>1, <6>2
        <5> QED BY <5>1, <5>3
      <4> QED BY <2>2, <3>1, <3>2, <4>1, <4>2, <4>4
    <3>3. CASE d # w
      <4>1. queue'[w] = queue[w] /\ queue[w] = << >>
        BY <1>1, <1>3, <3>1, <3>3, Typed DEF QueueSound
      <4> QED BY <2>2, <3>1, <3>3, <4>1
    <3> QED BY <3>2, <3>3
  <2> QED BY <2>1, <2>2
<1>8. RepliesSound'
  BY <1>1 DEF RepliesSound, ReplySound, Replied
<1> QED BY <1>5, <1>6, <1>7, <1>8

\* The event loop of a thread hands over the next request: the first of its queue.
LEMMA NextRequest ==
  ASSUME IInv, NEW w \in Worker, thread[w] = "running", queue[w] # << >>
  PROVE  /\ Head(queue[w]) \in Request /\ Head(queue[w]) # NULL
         /\ Head(queue[w]).num = taken[w] + 1 /\ taken[w] + 1 \in 0 .. MaxRequests
<1>1. queue[w] \in Seq(Request) /\ taken[w] \in Nat
  BY Typed DEF IInv
<1>2. Head(queue[w]) \in Request /\ 1 \in DOMAIN queue[w] /\ Head(queue[w]) = queue[w][1]
  BY <1>1
<1>3. Head(queue[w]).num = taken[w] + 1
  BY <1>2 DEF IInv, QueueSound
<1>4. Head(queue[w]).num \in 1 .. MaxRequests /\ Head(queue[w]) \in [receiver : Worker, sender : Object, num : Nat]
  BY <1>2, Typed DEF IInv, Request
<1> QED BY <1>1, <1>2, <1>3, <1>4, BusAssumption

\* A worker takes its next request when every earlier one is answered.
LEMMA TakeStep == ASSUME IInv, NEW w \in Worker, Take(w) PROVE IInv'
<1> USE DEF IInv, guiVars, threadVars
<1> DEFINE q == Head(queue[w])
           t == taken[w] + 1
<1>1. /\ thread[w] = "running" /\ ~ isQuiting[w] /\ current[w] = NULL /\ queue[w] # << >>
      /\ current' = [current EXCEPT ![w] = q] /\ taken' = [taken EXCEPT ![w] = q.num]
      /\ queue' = [queue EXCEPT ![w] = Tail(queue[w])]
      /\ UNCHANGED <<guiVars, threadVars, dispatchersByThread, guiQueue, replying, sent, delivered, dangling>>
  BY DEF Take, Runs
<1>2. q \in Request /\ q # NULL /\ q.num = t /\ t \in 0 .. MaxRequests
  BY <1>1, NextRequest
<1> HIDE DEF q
<1>3. queue[w] \in Seq(Request) /\ Tail(queue[w]) \in Seq(Request) /\ Len(queue[w]) \in Nat \ {0}
  BY <1>1, Typed
<1>4. TypeOK' /\ SubscribersAlive'
  <2>1. /\ queue' \in [Worker -> Seq(Request)] /\ current' \in [Worker -> Request \cup {NULL}]
        /\ taken' \in [Worker -> 0 .. MaxRequests]
    BY <1>1, <1>2, <1>3, Typed
  <2> QED BY <1>1, <2>1, Typed DEF TypeOK, SubscribersAlive
<1>5. /\ taken'[w] = t /\ current'[w] = q /\ queue'[w] = Tail(queue[w]) /\ taken[w] \in Nat /\ delivered[w] \in Nat
      /\ \A v \in Worker \ {w} : taken'[v] = taken[v] /\ current'[v] = current[v] /\ queue'[v] = queue[v]
  BY <1>1, <1>2, Typed
<1>6. AddressSound'
  BY <1>1 DEF AddressSound
<1>7. QueueSound'
  <2>1. /\ \A i \in DOMAIN queue[w] : queue[w][i].num = taken[w] + i
        /\ dispatchersByThread[addr[w]] = w /\ taken[w] + Len(queue[w]) = sent[w]
    BY <1>1 DEF QueueSound
  <2>2. Len(Tail(queue[w])) = Len(queue[w]) - 1
        /\ \A i \in 1 .. Len(queue[w]) - 1 : Tail(queue[w])[i] = queue[w][i + 1] /\ i + 1 \in DOMAIN queue[w]
    BY <1>3
  <2>3. ASSUME NEW i \in DOMAIN Tail(queue[w]) PROVE Tail(queue[w])[i].num = t + i
    <3>1. i \in 1 .. Len(queue[w]) - 1
      BY <1>3, <2>2
    <3>2. Tail(queue[w])[i].num = taken[w] + (i + 1)
      BY <2>1, <2>2, <3>1
    <3>3. i \in Nat
      BY <3>1
    <3> QED BY <1>5, <3>2, <3>3
  <2>4. t + Len(Tail(queue[w])) = sent[w]
    BY <1>3, <1>5, <2>1, <2>2
  <2>5. thread[w] # "unborn" /\ w # NULL
    BY <1>1, Typed
  <2>6. ASSUME NEW v \in Worker
        PROVE  /\ thread[v] = "unborn" => queue'[v] = << >> /\ sent[v] = 0 /\ taken'[v] = 0 /\ current'[v] = NULL
               /\ thread[v] \notin {"unborn", "deleted"} =>
                    /\ \A i \in DOMAIN queue'[v] : queue'[v][i].num = taken'[v] + i
                    /\ dispatchersByThread[addr[v]] = v => taken'[v] + Len(queue'[v]) = sent[v]
                    /\ dispatchersByThread[addr[v]] # v => queue'[v] = << >>
                    /\ dispatchersByThread[addr[v]] = NULL => sent[v] = 0 /\ taken'[v] = 0
    <3>1. CASE v = w
      BY <1>5, <2>1, <2>3, <2>4, <2>5, <3>1
    <3>2. CASE v # w
      BY <1>5, <3>2 DEF QueueSound
    <3> QED BY <3>1, <3>2
  <2> QED BY <1>1, <2>6 DEF QueueSound
<1>8. RepliesSound'
  <2>1. /\ delivered[w] <= taken[w] /\ ~ replying[w]
        /\ \A n \in delivered[w] + 1 .. taken[w] : Replied(guiQueue, Len(guiQueue), w, n)
        /\ ReplySound(guiQueue, w, delivered[w], taken[w])
    BY <1>1 DEF RepliesSound
  <2>2. \A i \in DOMAIN guiQueue : guiQueue[i].num \in Nat
    <3>1. guiQueue \in Seq(ReplyEvent)
      BY Typed
    <3>2. ASSUME NEW i \in DOMAIN guiQueue PROVE guiQueue[i] \in ReplyEvent
      BY <3>1
    <3> QED BY <3>2, Typed DEF ReplyEvent
  <2>3. \A i \in DOMAIN guiQueue : guiQueue[i].worker = w => guiQueue[i].num < t
    BY <1>5, <2>1, <2>2 DEF ReplySound
  <2>4. ReplySound(guiQueue, w, delivered[w], t)
    BY <1>5, <2>1, <2>2 DEF ReplySound
  <2>5. t - 1 = taken[w] /\ delivered[w] < t /\ delivered[w] <= t
    BY <1>5, <2>1
  <2>6. ASSUME NEW v \in Worker \ {w}
        PROVE  delivered'[v] = delivered[v] /\ taken'[v] = taken[v] /\ current'[v] = current[v]
    BY <1>1, <1>5
  <2>7. \A n \in delivered[w] + 1 .. t - 1 : Replied(guiQueue, Len(guiQueue), w, n)
    BY <2>1, <2>5
  <2> HIDE DEF t
  <2> QED BY <1>1, <1>2, <1>5, <2>3, <2>4, <2>5, <2>6, <2>7 DEF RepliesSound
<1> QED BY <1>4, <1>6, <1>7, <1>8

-----------------------------------------------------------------------------
(* Replies.                                                                   *)

\* reply(): a worker that quits gives its reply up, another goes on to post it.
LEMMA ReplyStep == ASSUME IInv, NEW w \in Worker, Reply(w) PROVE IInv'
<1> USE DEF IInv, guiVars, threadVars, busVars, countVars
<1>1. /\ current[w] # NULL /\ ~ replying[w] /\ thread[w] = "running"
      /\ UNCHANGED <<guiVars, threadVars, busVars, countVars, dangling>>
  BY DEF Reply, Runs
<1>2. \/ isQuiting[w] /\ current' = [current EXCEPT ![w] = NULL] /\ UNCHANGED replying
      \/ replying' = [replying EXCEPT ![w] = TRUE] /\ UNCHANGED current
  BY DEF Reply
<1>3. TypeOK' /\ SubscribersAlive'
  BY <1>1, <1>2, Typed DEF TypeOK, SubscribersAlive
<1>4. AddressSound' /\ QueueSound'
  BY <1>1, <1>2, Typed DEF AddressSound, QueueSound
<1>5. \A v \in Worker : /\ v # w => current'[v] = current[v] /\ replying'[v] = replying[v]
                        /\ v = w => \/ isQuiting[w] /\ current'[w] = NULL /\ ~ replying'[w]
                                    \/ current'[w] = current[w]
  BY <1>1, <1>2, Typed
<1>6. RepliesSound'
  BY <1>1, <1>5 DEF RepliesSound, ReplySound, Replied
<1> QED BY <1>3, <1>4, <1>6

\* A reply stays among the events when another is posted behind it.
LEMMA RepliedLonger ==
  ASSUME NEW S, NEW Q \in Seq(S), NEW e \in S, NEW k \in 0 .. Len(Q), NEW m \in Nat, k <= m, NEW w, NEW n,
         Replied(Q, k, w, n)
  PROVE  Replied(Append(Q, e), m, w, n)
<1>1. PICK j \in 1 .. k : Q[j].worker = w /\ Q[j].num = n
  BY DEF Replied
<1>2. j \in 1 .. m /\ Append(Q, e)[j] = Q[j]
  BY <1>1
<1> QED BY <1>1, <1>2 DEF Replied

\* A reply that is not the one taken stays among the events, one place further.
LEMMA RepliedTail ==
  ASSUME NEW S, NEW Q \in Seq(S), Q # << >>, NEW k \in 1 .. Len(Q), NEW w, NEW n,
         Replied(Q, k, w, n), ~ (Q[1].worker = w /\ Q[1].num = n)
  PROVE  Replied(Tail(Q), k - 1, w, n)
<1>1. PICK j \in 1 .. k : Q[j].worker = w /\ Q[j].num = n
  BY DEF Replied
<1>2. j - 1 \in 1 .. k - 1 /\ Tail(Q)[j - 1] = Q[j]
  BY <1>1
<1> QED BY <1>1, <1>2 DEF Replied

\* send() of a reply: it comes behind those to the earlier requests of the worker.
LEMMA PostStep == ASSUME IInv, NEW w \in Worker, Post(w) PROVE IInv'
<1> USE DEF IInv, guiVars, threadVars, countVars
<1> DEFINE c == current[w]
           e == [receiver |-> c.sender, worker |-> w, num |-> c.num]
           Q == Append(guiQueue, e)
<1>1. /\ replying[w] /\ thread[w] = "running" /\ guiQueue' = Q /\ dangling' \in BOOLEAN
      /\ current' = [current EXCEPT ![w] = NULL] /\ replying' = [replying EXCEPT ![w] = FALSE]
      /\ UNCHANGED <<guiVars, threadVars, dispatchersByThread, queue, countVars>>
  BY DEF Post, Runs
<1>2. c # NULL /\ c \in Request
  BY <1>1, Typed DEF RepliesSound
<1>3. e \in ReplyEvent /\ e.worker = w /\ e.num = c.num /\ c.num \in Nat
  BY <1>2, Typed DEF Request, ReplyEvent
<1>4. guiQueue \in Seq(ReplyEvent) /\ \A i \in DOMAIN guiQueue : guiQueue[i].num \in Nat
  <2>1. guiQueue \in Seq(ReplyEvent)
    BY Typed
  <2>2. ASSUME NEW i \in DOMAIN guiQueue PROVE guiQueue[i] \in ReplyEvent
    BY <2>1
  <2> QED BY <2>1, <2>2, Typed DEF ReplyEvent
<1> HIDE DEF c, e
<1>5. /\ Q \in Seq(ReplyEvent) /\ Len(Q) = Len(guiQueue) + 1 /\ DOMAIN Q = 1 .. Len(guiQueue) + 1
      /\ Len(guiQueue) \in Nat /\ DOMAIN guiQueue = 1 .. Len(guiQueue)
      /\ Q[Len(guiQueue) + 1] = e /\ \A i \in 1 .. Len(guiQueue) : Q[i] = guiQueue[i]
  BY <1>3, <1>4
<1>6. TypeOK' /\ SubscribersAlive'
  <2>1. current' \in [Worker -> Request \cup {NULL}] /\ replying' \in [Worker -> BOOLEAN]
    BY <1>1, Typed
  <2> QED BY <1>1, <1>5, <2>1, Typed DEF TypeOK, SubscribersAlive
<1>7. AddressSound' /\ QueueSound'
  <2>1. \A v \in Worker : current'[v] \in {current[v], NULL}
    BY <1>1, Typed
  <2> QED BY <1>1, <2>1 DEF AddressSound, QueueSound
<1>8. RepliesSound'
  <2> SUFFICES ASSUME NEW v \in Worker
               PROVE  /\ delivered[v] <= taken[v]
                      /\ ReplySound(Q, v, delivered[v], taken[v])
                      /\ current'[v] # NULL =>
                           /\ current'[v].num = taken[v] /\ delivered[v] < taken[v]
                           /\ \A i \in DOMAIN Q : Q[i].worker = v => Q[i].num < taken[v]
                           /\ \A n \in delivered[v] + 1 .. taken[v] - 1 : Replied(Q, Len(Q), v, n)
                      /\ current'[v] = NULL =>
                           /\ ~ replying'[v]
                           /\ ~ isQuiting[v] => \A n \in delivered[v] + 1 .. taken[v] : Replied(Q, Len(Q), v, n)
    BY <1>1 DEF RepliesSound
  <2>1. delivered[v] \in Nat /\ taken[v] \in Nat /\ delivered[v] <= taken[v]
        /\ ReplySound(guiQueue, v, delivered[v], taken[v])
    BY Typed DEF RepliesSound
  <2>2. \A n, k : k \in 0 .. Len(guiQueue) /\ Replied(guiQueue, k, v, n) =>
                     Replied(Q, k, v, n) /\ Replied(Q, Len(Q), v, n)
    <3> TAKE n, k
    <3> HAVE k \in 0 .. Len(guiQueue) /\ Replied(guiQueue, k, v, n)
    <3>1. k \in Nat /\ k <= k /\ Len(Q) \in Nat /\ k <= Len(Q)
      BY <1>5
    <3>2. Replied(Q, k, v, n)
      BY <1>3, <1>4, <3>1, RepliedLonger
    <3>3. Replied(Q, Len(Q), v, n)
      BY <1>3, <1>4, <3>1, RepliedLonger
    <3> QED BY <3>2, <3>3
  <2> HIDE DEF Q
  <2>3. ASSUME NEW i \in 1 .. Len(guiQueue), Q[i].worker = v
        PROVE  /\ Q[i].num > delivered[v] /\ Q[i].num <= taken[v]
               /\ \A j \in 1 .. i - 1 : Q[j].worker = v => Q[j].num < Q[i].num
               /\ \A n \in delivered[v] + 1 .. Q[i].num - 1 : Replied(Q, i - 1, v, n)
    <3>1. Q[i] = guiQueue[i] /\ i \in DOMAIN guiQueue /\ i - 1 \in 0 .. Len(guiQueue)
          /\ \A j \in 1 .. i - 1 : Q[j] = guiQueue[j]
      BY <1>5
    <3> QED BY <2>1, <2>2, <2>3, <3>1 DEF ReplySound
  <2>4. CASE v # w
    <3>1. current'[v] = current[v] /\ replying'[v] = replying[v] /\ Q[Len(guiQueue) + 1].worker # v
      BY <1>1, <1>3, <1>5, <2>4, Typed
    <3>2. ReplySound(Q, v, delivered[v], taken[v])
      <4> SUFFICES ASSUME NEW i \in DOMAIN Q, Q[i].worker = v PROVE i \in 1 .. Len(guiQueue)
        BY <2>3 DEF ReplySound
      <4> QED BY <1>5, <3>1
    <3>3. current[v] # NULL => \A i \in DOMAIN Q : Q[i].worker = v => Q[i].num < taken[v]
      <4> SUFFICES ASSUME current[v] # NULL, NEW i \in DOMAIN Q, Q[i].worker = v PROVE Q[i].num < taken[v]
        OBVIOUS
      <4>1. i \in DOMAIN guiQueue /\ Q[i] = guiQueue[i]
        BY <1>5, <3>1
      <4> QED BY <4>1 DEF RepliesSound
    <3>4. Len(guiQueue) \in 0 .. Len(guiQueue)
      BY <1>5
    <3> QED BY <2>1, <2>2, <3>1, <3>2, <3>3, <3>4 DEF RepliesSound
  <2>5. CASE v = w
    <3>1. /\ current'[w] = NULL /\ ~ replying'[w] /\ c.num = taken[w] /\ delivered[w] < taken[w]
          /\ \A i \in DOMAIN guiQueue : guiQueue[i].worker = w => guiQueue[i].num < taken[w]
          /\ \A n \in delivered[w] + 1 .. taken[w] - 1 : Replied(guiQueue, Len(guiQueue), w, n)
      BY <1>1, <1>2, Typed DEF RepliesSound, c
    <3>2. Len(guiQueue) \in 0 .. Len(guiQueue)
      BY <1>5
    <3>3. ReplySound(Q, w, delivered[w], taken[w])
      <4> SUFFICES ASSUME NEW i \in DOMAIN Q, Q[i].worker = w
                   PROVE  /\ Q[i].num > delivered[w] /\ Q[i].num <= taken[w]
                          /\ \A j \in 1 .. i - 1 : Q[j].worker = w => Q[j].num < Q[i].num
                          /\ \A n \in delivered[w] + 1 .. Q[i].num - 1 : Replied(Q, i - 1, w, n)
        BY DEF ReplySound
      <4>1. CASE i = Len(guiQueue) + 1
        <5>1. Q[i].num = taken[w] /\ i - 1 = Len(guiQueue)
          BY <1>3, <1>5, <3>1, <4>1
        <5>2. \A j \in 1 .. i - 1 : Q[j].worker = w => Q[j].num < Q[i].num
          BY <1>5, <3>1, <5>1
        <5>3. \A n \in delivered[w] + 1 .. Q[i].num - 1 : Replied(Q, i - 1, w, n)
          BY <2>2, <2>5, <3>1, <3>2, <5>1
        <5> QED BY <2>1, <2>5, <3>1, <5>1, <5>2, <5>3
      <4>2. CASE i # Len(guiQueue) + 1
        <5>1. i \in 1 .. Len(guiQueue)
          BY <1>5, <4>2
        <5> QED BY <2>3, <2>5, <5>1
      <4> QED BY <4>1, <4>2
    <3>4. ASSUME NEW n \in delivered[w] + 1 .. taken[w] PROVE Replied(Q, Len(Q), w, n)
      <4>1. CASE n = taken[w]
        <5>1. Len(Q) \in 1 .. Len(Q) /\ Q[Len(Q)].worker = w /\ Q[Len(Q)].num = n
          BY <1>3, <1>5, <3>1, <4>1
        <5> QED BY <5>1 DEF Replied
      <4>2. CASE n # taken[w]
        <5>1. n \in delivered[w] + 1 .. taken[w] - 1
          BY <2>1, <2>5, <4>2
        <5> QED BY <2>2, <2>5, <3>1, <3>2, <5>1
      <4> QED BY <4>1, <4>2
    <3> QED BY <2>1, <2>5, <3>1, <3>3, <3>4
  <2> QED BY <2>4, <2>5
<1> QED BY <1>6, <1>7, <1>8

\* The oldest posted reply is the next one of its worker.
LEMMA NextReply ==
  ASSUME IInv, guiQueue # << >>
  PROVE  /\ Head(guiQueue) \in ReplyEvent /\ Head(guiQueue) = guiQueue[1]
         /\ Head(guiQueue).num = delivered[Head(guiQueue).worker] + 1
<1> DEFINE r == guiQueue[1]
<1>1. guiQueue \in Seq(ReplyEvent)
  BY Typed DEF IInv
<1>2. Head(guiQueue) = r /\ r \in ReplyEvent /\ 1 \in DOMAIN guiQueue
  BY <1>1
<1>3. r.worker \in Worker /\ r.num \in Nat /\ delivered[r.worker] \in Nat
  BY <1>2, Typed DEF IInv, ReplyEvent
<1> DEFINE d == delivered[r.worker]
<1>4. r.num > d /\ \A n \in d + 1 .. r.num - 1 : Replied(guiQueue, 1 - 1, r.worker, n)
  BY <1>2, <1>3 DEF IInv, RepliesSound, ReplySound
<1>5. \A n : ~ Replied(guiQueue, 1 - 1, r.worker, n)
  BY DEF Replied
<1>6. d + 1 \notin d + 1 .. r.num - 1
  BY <1>4, <1>5
<1> HIDE DEF d
<1>7. r.num = d + 1
  BY <1>3, <1>4, <1>6 DEF d
<1> QED BY <1>2, <1>7 DEF d

\* An event loop of the GUI thread takes the oldest reply; the others keep their order.
LEMMA GuiTakesStep == ASSUME IInv, GuiTakes PROVE IInv'
<1> USE DEF IInv, threadVars, workerVars
<1> DEFINE r == Head(guiQueue)
           Q == Tail(guiQueue)
           f == [receivers |-> <<r.receiver>>, locked |-> FALSE, modal |-> FALSE, calls |-> 0]
<1>1. /\ guiQueue # << >> /\ stack' = Append(stack, f) /\ dangling' \in BOOLEAN
      /\ delivered' = [delivered EXCEPT ![r.worker] = r.num] /\ guiQueue' = Q
      /\ UNCHANGED <<alive, subscribers, threadVars, dispatchersByThread, queue, workerVars, sent, taken>>
  BY DEF GuiTakes, Deliver
<1>2. r \in ReplyEvent /\ r = guiQueue[1] /\ r.num = delivered[r.worker] + 1
  BY <1>1, NextReply
<1>3. r.worker \in Worker /\ r.receiver \in Object /\ r.num \in 0 .. MaxRequests /\ r.num \in Nat
  BY <1>2, Typed DEF ReplyEvent
<1>4. f \in Frame
  BY <1>3, BusAssumption DEF Frame
<1>5. stack \in Seq(Frame) /\ guiQueue \in Seq(ReplyEvent)
  BY Typed DEF TypeOK
<1> HIDE DEF r, f
<1>6. stack' \in Seq(Frame) /\ delivered' \in [Worker -> 0 .. MaxRequests]
  BY <1>1, <1>3, <1>4, <1>5, Typed
<1>7. /\ Q \in Seq(ReplyEvent) /\ Len(Q) = Len(guiQueue) - 1 /\ DOMAIN Q = 1 .. Len(guiQueue) - 1
      /\ Len(guiQueue) \in Nat \ {0} /\ DOMAIN guiQueue = 1 .. Len(guiQueue)
      /\ \A i \in 1 .. Len(guiQueue) - 1 : Q[i] = guiQueue[i + 1]
  BY <1>1, <1>5
<1>8. TypeOK' /\ SubscribersAlive'
  BY <1>1, <1>6, <1>7, Typed DEF TypeOK, SubscribersAlive
<1>9. AddressSound' /\ QueueSound'
  BY <1>1 DEF AddressSound, QueueSound
<1>10. \A i \in DOMAIN guiQueue : guiQueue[i].num \in Nat
  <2>1. ASSUME NEW i \in DOMAIN guiQueue PROVE guiQueue[i] \in ReplyEvent
    BY <1>5
  <2> QED BY <2>1, Typed DEF ReplyEvent
<1>11. RepliesSound'
  <2> SUFFICES ASSUME NEW v \in Worker
               PROVE  /\ delivered'[v] <= taken[v]
                      /\ ReplySound(Q, v, delivered'[v], taken[v])
                      /\ current[v] # NULL =>
                           /\ current[v].num = taken[v] /\ delivered'[v] < taken[v]
                           /\ \A i \in DOMAIN Q : Q[i].worker = v => Q[i].num < taken[v]
                           /\ \A n \in delivered'[v] + 1 .. taken[v] - 1 : Replied(Q, Len(Q), v, n)
                      /\ current[v] = NULL =>
                           /\ ~ replying[v]
                           /\ ~ isQuiting[v] => \A n \in delivered'[v] + 1 .. taken[v] : Replied(Q, Len(Q), v, n)
    BY <1>1 DEF RepliesSound
  <2> DEFINE d == delivered[v]
             t == taken[v]
  <2>1. /\ d \in Nat /\ t \in Nat /\ d <= t
        /\ delivered'[v] = IF v = r.worker THEN d + 1 ELSE d
    BY <1>1, <1>2, <1>3, Typed DEF RepliesSound
  <2>2. ASSUME NEW i \in DOMAIN guiQueue, guiQueue[i].worker = v
        PROVE  /\ guiQueue[i].num > d /\ guiQueue[i].num <= t
               /\ \A j \in 1 .. i - 1 : guiQueue[j].worker = v => guiQueue[j].num < guiQueue[i].num
               /\ \A n \in d + 1 .. guiQueue[i].num - 1 : Replied(guiQueue, i - 1, v, n)
    BY <2>2 DEF RepliesSound, ReplySound
  <2>3. /\ current[v] # NULL =>
             /\ current[v].num = t /\ d < t
             /\ \A i \in DOMAIN guiQueue : guiQueue[i].worker = v => guiQueue[i].num < t
             /\ \A n \in d + 1 .. t - 1 : Replied(guiQueue, Len(guiQueue), v, n)
        /\ current[v] = NULL =>
             /\ ~ replying[v]
             /\ ~ isQuiting[v] => \A n \in d + 1 .. t : Replied(guiQueue, Len(guiQueue), v, n)
    BY DEF RepliesSound
  <2>4. v = r.worker => /\ guiQueue[1].num = d + 1 /\ guiQueue[1].worker = v /\ 1 \in DOMAIN guiQueue
                        /\ d + 1 <= t /\ (current[v] # NULL => d + 1 < t)
    BY <1>2, <1>7, <2>1, <2>2, <2>3
  <2> HIDE DEF Q, d, t
  <2>5. ASSUME NEW k \in 1 .. Len(guiQueue), NEW n \in Nat, n > delivered'[v], Replied(guiQueue, k, v, n)
        PROVE  Replied(Q, k - 1, v, n)
    <3>1. ~ (guiQueue[1].worker = v /\ guiQueue[1].num = n)
      BY <1>2, <2>1, <2>4, <2>5
    <3> QED BY <1>1, <1>5, <2>5, <3>1, RepliedTail DEF Q
  <2>6. ReplySound(Q, v, delivered'[v], t)
    <3> SUFFICES ASSUME NEW i \in DOMAIN Q, Q[i].worker = v
                 PROVE  /\ Q[i].num > delivered'[v] /\ Q[i].num <= t
                        /\ \A j \in 1 .. i - 1 : Q[j].worker = v => Q[j].num < Q[i].num
                        /\ \A n \in delivered'[v] + 1 .. Q[i].num - 1 : Replied(Q, i - 1, v, n)
      BY DEF ReplySound
    <3>1. /\ Q[i] = guiQueue[i + 1] /\ i + 1 \in DOMAIN guiQueue /\ i \in 1 .. Len(guiQueue)
          /\ guiQueue[i + 1].num \in Nat /\ (i + 1) - 1 = i
      BY <1>7, <1>10
    <3>2. /\ Q[i].num > d /\ Q[i].num <= t
          /\ \A j \in 1 .. i : guiQueue[j].worker = v => guiQueue[j].num < Q[i].num
          /\ \A n \in d + 1 .. Q[i].num - 1 : Replied(guiQueue, i, v, n)
      BY <2>2, <3>1
    <3>3. Q[i].num > delivered'[v]
      <4>1. CASE v = r.worker
        <5>1. 1 \in 1 .. i /\ guiQueue[1].num < Q[i].num /\ guiQueue[1].num = d + 1
          BY <2>4, <3>1, <3>2, <4>1
        <5> QED BY <2>1, <4>1, <5>1
      <4>2. CASE v # r.worker
        BY <2>1, <3>2, <4>2
      <4> QED BY <4>1, <4>2
    <3>4. ASSUME NEW j \in 1 .. i - 1, Q[j].worker = v PROVE Q[j].num < Q[i].num
      <4>1. j + 1 \in 1 .. i /\ Q[j] = guiQueue[j + 1]
        BY <1>7, <3>1
      <4> QED BY <3>2, <3>4, <4>1
    <3>5. ASSUME NEW n \in delivered'[v] + 1 .. Q[i].num - 1 PROVE Replied(Q, i - 1, v, n)
      <4>1. n \in d + 1 .. Q[i].num - 1 /\ n \in Nat /\ n > delivered'[v]
        BY <2>1, <3>1
      <4> QED BY <2>5, <3>1, <3>2, <4>1
    <3> QED BY <3>2, <3>3, <3>4, <3>5
  <2>7. Len(guiQueue) \in 1 .. Len(guiQueue) /\ Len(Q) = Len(guiQueue) - 1
    BY <1>7
  <2>8. delivered'[v] \in Nat /\ d <= delivered'[v] /\ delivered'[v] <= t
        /\ (current[v] # NULL => delivered'[v] < t)
    BY <2>1, <2>3, <2>4
  <2>9. ASSUME current[v] # NULL
        PROVE  /\ \A i \in DOMAIN Q : Q[i].worker = v => Q[i].num < t
               /\ \A n \in delivered'[v] + 1 .. t - 1 : Replied(Q, Len(Q), v, n)
    <3>1. ASSUME NEW i \in DOMAIN Q, Q[i].worker = v PROVE Q[i].num < t
      <4>1. i + 1 \in DOMAIN guiQueue /\ Q[i] = guiQueue[i + 1]
        BY <1>7
      <4> QED BY <2>3, <2>9, <3>1, <4>1
    <3>2. ASSUME NEW n \in delivered'[v] + 1 .. t - 1 PROVE Replied(Q, Len(Q), v, n)
      <4>1. n \in d + 1 .. t - 1 /\ n \in Nat /\ n > delivered'[v]
        BY <2>1, <2>8
      <4> QED BY <2>3, <2>5, <2>7, <2>9, <4>1
    <3> QED BY <3>1, <3>2
  <2>10. ASSUME current[v] = NULL, ~ isQuiting[v], NEW n \in delivered'[v] + 1 .. t
         PROVE  Replied(Q, Len(Q), v, n)
    <3>1. n \in d + 1 .. t /\ n \in Nat /\ n > delivered'[v]
      BY <2>1, <2>8
    <3> QED BY <2>3, <2>5, <2>7, <2>10, <3>1
  <2> QED BY <2>3, <2>6, <2>8, <2>9, <2>10 DEF t
<1> QED BY <1>8, <1>9, <1>11

-----------------------------------------------------------------------------
(* The theorems.                                                              *)

\* The invariant holds in every state of the bus, however deliveries nest, objects die
\* and threads come and go.
THEOREM Invariance == Spec => []IInv
<1>1. Init => IInv
  <2> SUFFICES ASSUME Init PROVE IInv
    OBVIOUS
  <2>1. TypeOK /\ SubscribersAlive
    <3>1. /\ queue \in [Worker -> Seq(Request)] /\ guiQueue \in Seq(ReplyEvent)
          /\ stack \in Seq(Frame) /\ subscribers \in Seq(Subscription)
      BY DEF Init
    <3>2. {sent, taken, delivered} \subseteq [Worker -> 0 .. MaxRequests]
      BY BusAssumption DEF Init
    <3>3. /\ thread \in [Worker -> {"unborn", "running", "finished", "deleted"}]
          /\ addr \in [Worker -> Addr \cup {NULL}]
          /\ dispatchersByThread \in [Addr -> Worker \cup {NULL}]
          /\ current \in [Worker -> Request \cup {NULL}]
      BY DEF Init
    <3>4. isQuiting \in [Worker -> BOOLEAN] /\ replying \in [Worker -> BOOLEAN] /\ dangling \in BOOLEAN
      BY Zenon DEF Init
    <3>5. alive \subseteq Object /\ used \subseteq Addr
      BY DEF Init
    <3>6. SubscribersAlive
      <4>1. DOMAIN subscribers = {}
        BY DEF Init
      <4> QED BY <4>1 DEF SubscribersAlive
    <3> QED BY <3>1, <3>2, <3>3, <3>4, <3>5, <3>6 DEF TypeOK
  <2>2. AddressSound /\ QueueSound
    BY BusAssumption DEF Init, AddressSound, QueueSound
  <2>3. RepliesSound
    BY DEF Init, RepliesSound, ReplySound
  <2> QED BY <2>1, <2>2, <2>3 DEF IInv
<1>2. IInv /\ [Next]_vars => IInv'
  <2> SUFFICES ASSUME IInv, [Next]_vars PROVE IInv'
    OBVIOUS
  <2>1. CASE HandlerReturns \/ OpenMessageBox \/ CloseMessageBox
    BY <2>1, HandlerStep
  <2>2. CASE GuiTakes
    BY <2>2, GuiTakesStep
  <2>3. CASE \/ \E o \in Object : publish(o) \/ Destroy(o)
             \/ \E o \in Object, s \in Object \cup {NULL} : subscribe(o, s)
    BY <2>3, SubscriptionStep
  <2>4. CASE \E w \in Worker, o \in Object : send(w, o)
    BY <2>4, SendStep
  <2>5. CASE \E w \in Worker, a \in Addr : NewWorker(w, a)
    BY <2>5, NewWorkerStep
  <2>6. CASE \E w \in Worker : StopAndDelete(w) \/ DeleteThread(w) \/ Finish(w)
    BY <2>6, StopStep
  <2>7. CASE \E w \in Worker : Take(w)
    BY <2>7, TakeStep
  <2>8. CASE \E w \in Worker : Reply(w)
    BY <2>8, ReplyStep
  <2>9. CASE \E w \in Worker : Post(w)
    BY <2>9, PostStep
  <2>10. CASE UNCHANGED vars
    <3>1. /\ alive' \subseteq Object /\ subscribers' \in Seq(Subscription) /\ stack' \in Seq(Frame)
          /\ dangling' \in BOOLEAN /\ SubscribersAlive'
      BY <2>10 DEF vars, guiVars, IInv, TypeOK, SubscribersAlive
    <3> QED BY <2>10, <3>1, GuiOnly DEF vars
  <2> QED BY <2>1, <2>2, <2>3, <2>4, <2>5, <2>6, <2>7, <2>8, <2>9, <2>10 DEF Next, GuiNext, WorkerNext
<1> QED BY <1>1, <1>2, PTL DEF Spec

\* The containers of the bus, the stack of deliveries and the workers' state keep their types.
THEOREM TypeCorrect == Spec => []TypeOK
<1>1. IInv => TypeOK
  BY DEF IInv
<1> QED BY <1>1, Invariance, PTL

\* EventBus::unsubscibe erases every subscription of a destroyed object, so the list
\* publish() walks never names one.
THEOREM NoDeadSubscriber == Spec => []SubscribersAlive
<1>1. IInv => SubscribersAlive
  BY DEF IInv
<1> QED BY <1>1, Invariance, PTL

\* EventBus::sendEvent posts to one queue per thread: requests are taken, and replies
\* delivered, in the order of the requests, none twice and none skipped, even when a
\* dispatcher is found under the address of a deleted thread.
THEOREM InOrder == Spec => DeliveredInOrder
<1> DEFINE Ordered == \A w \in Worker : /\ taken'[w] \in {taken[w], taken[w] + 1}
                                        /\ delivered'[w] \in {delivered[w], delivered[w] + 1}
<1>1. IInv /\ [Next]_vars => [Ordered]_vars
  <2> SUFFICES ASSUME IInv, Next PROVE Ordered
    OBVIOUS
  <2>1. TypeOK
    BY DEF IInv
  <2>2. ASSUME UNCHANGED <<taken, delivered>> PROVE Ordered
    BY <2>2
  <2>3. CASE HandlerReturns \/ OpenMessageBox \/ CloseMessageBox
    BY <2>2, <2>3 DEF HandlerReturns, OpenMessageBox, CloseMessageBox, countVars
  <2>4. CASE GuiTakes
    <3>1. /\ guiQueue # << >> /\ UNCHANGED taken
          /\ delivered' = [delivered EXCEPT ![Head(guiQueue).worker] = Head(guiQueue).num]
      BY <2>4 DEF GuiTakes
    <3> QED BY <2>1, <3>1, NextReply, Typed
  <2>5. CASE \/ \E o \in Object : publish(o) \/ Destroy(o)
             \/ \E o \in Object, s \in Object \cup {NULL} : subscribe(o, s)
    BY <2>2, <2>5 DEF publish, Destroy, subscribe, countVars
  <2>6. CASE \E w \in Worker, o \in Object : send(w, o)
    BY <2>2, <2>6 DEF send
  <2>7. CASE \E w \in Worker, a \in Addr : NewWorker(w, a)
    BY <2>2, <2>7 DEF NewWorker, countVars
  <2>8. CASE \E w \in Worker : StopAndDelete(w) \/ DeleteThread(w) \/ Finish(w) \/ Reply(w) \/ Post(w)
    BY <2>2, <2>8 DEF StopAndDelete, DeleteThread, Finish, Reply, Post, countVars
  <2>9. ASSUME NEW w \in Worker, Take(w) PROVE Ordered
    <3>1. /\ thread[w] = "running" /\ queue[w] # << >> /\ UNCHANGED delivered
          /\ taken' = [taken EXCEPT ![w] = Head(queue[w]).num]
      BY <2>9 DEF Take, Runs
    <3> QED BY <2>1, <3>1, NextRequest, Typed
  <2> QED BY <2>3, <2>4, <2>5, <2>6, <2>7, <2>8, <2>9 DEF Next, GuiNext, WorkerNext
<1> QED BY <1>1, Invariance, PTL DEF Spec, DeliveredInOrder
=============================================================================
