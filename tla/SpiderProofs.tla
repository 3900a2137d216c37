---------------------------- MODULE SpiderProofs ----------------------------
(* Theorems about Spider, for every value of its constants. *)
EXTENDS Spider, FiniteSetTheorems, TLAPS

USE DEF MainPC, WorkerPC

LEMMA StartType == AnyURL \in URL
BY UrlAssumption DEF AnyURL

LEMMA CapacityType == QueueCap \in Nat \ {0} /\ OutCap \in Nat \ {0}
<1>1. C \in Nat \ {0}
  BY WorkerAssumption, FS_CardinalityType, FS_EmptySet DEF C
<1> QED
  BY <1>1, BoundAssumption DEF QueueCap, OutCap

\* A counter raised at one point still counts.
LEMMA CountUp ==
    ASSUME NEW S, NEW f \in [S -> Nat], NEW x
    PROVE  [f EXCEPT ![x] = @ + 1] \in [S -> Nat]
<1>1. CASE x \in S
  <2>1. f[x] + 1 \in Nat
    BY <1>1
  <2> QED
    BY <2>1
<1>2. CASE x \notin S
  <2>1. [f EXCEPT ![x] = @ + 1] = f
    BY <1>2
  <2> QED
    BY <2>1
<1> QED
  BY <1>1, <1>2

LEMMA TypeInit == Init => TypeOK
<1> SUFFICES ASSUME Init PROVE TypeOK
  OBVIOUS
<1>1. QueueCap >= 0 /\ OutCap >= 0 /\ MaxPages \in 0..MaxPages /\ 0 \in 0..MaxRestarts
  BY CapacityType, BoundAssumption
<1>2. task \in [Worker -> Task] /\ found \in [Worker -> Seq(URL)]
  BY StartType DEF Init, Task
<1>3. Start \in Seq(URL)
  BY UrlAssumption
<1>4. /\ queue \in Seq(Task) /\ Len(queue) <= QueueCap
      /\ out \in Seq(Result) /\ Len(out) <= OutCap
  BY <1>1, CapacityType DEF Init
<1>5. /\ wpc \in [Worker -> WorkerPC]
      /\ starts \in [URL -> Nat] /\ overrun \in [Worker -> Nat]
  BY DEF Init
<1>6. /\ mpc \in MainPC /\ todo \in Seq(URL) /\ level \in Nat /\ inFlight \in Int
      /\ pend \in URL /\ page \in URL /\ err \in {"none", "nil", "canceled"}
  BY <1>3, StartType DEF Init
<1>8. /\ queueClosed \in BOOLEAN /\ outClosed \in BOOLEAN
      /\ cancelled \in BOOLEAN /\ paused \in BOOLEAN
  BY Zenon DEF Init
<1>7. /\ budget \in 0..MaxPages /\ restarts \in 0..MaxRestarts /\ lost \in Nat
      /\ seen \subseteq URL /\ ckpt \subseteq URL /\ written \subseteq URL
      /\ restored \subseteq URL
  BY <1>1 DEF Init
<1> QED
  BY <1>2, <1>4, <1>5, <1>6, <1>7, <1>8 DEF TypeOK

LEMMA TypeStep == TypeOK /\ [Next]_vars => TypeOK'
<1> SUFFICES ASSUME TypeOK, [Next]_vars PROVE TypeOK'
  OBVIOUS
<1> USE DEF TypeOK, mainVars, chanVars, workerVars, fileVars, histVars
<1>1. CASE Main
  <2>1. CASE LookAtSeed BY <2>1 DEF LookAtSeed, LookAt
  <2>0. ASSUME NEW here, NEW back \in MainPC, SendTask(here, back) PROVE TypeOK'
    <3>1. [url |-> pend, depth |-> level] \in Task
      BY DEF Task
    <3>2. queue' \in Seq(Task) /\ Len(queue') = Len(queue) + 1 /\ Len(queue) < QueueCap
      BY <2>0, <3>1 DEF SendTask, Enqueue
    <3>3. Len(queue') <= QueueCap
      BY <3>2, CapacityType
    <3> QED
      BY <2>0, <3>2, <3>3 DEF SendTask
  <2>2. CASE SendSeed BY <2>0, <2>2 DEF SendSeed
  <2>3. CASE EndSeeding BY <2>3 DEF EndSeeding
  <2>4. CASE ReturnEmpty BY <2>4 DEF ReturnEmpty
  <2>5. CASE Receive
    <3>1. Head(out) \in Result /\ Tail(out) \in Seq(Result) /\ Len(Tail(out)) = Len(out) - 1
      BY <2>5 DEF Receive
    <3>2. page' \in URL /\ todo' \in Seq(URL) /\ level' \in Nat
      BY <2>5, <3>1 DEF Receive, Result
    <3>3. out' \in Seq(Result) /\ Len(out') <= OutCap
      BY <2>5, <3>1, CapacityType DEF Receive
    <3> QED
      BY <2>5, <3>2, <3>3 DEF Receive
  <2>6. CASE OutExhausted BY <2>6 DEF OutExhausted
  <2>7. CASE WriteLine BY <2>7 DEF WriteLine
  <2>8. CASE SaveCheckpoint BY <2>8 DEF SaveCheckpoint
  <2>9. CASE LookAtLink BY <2>9 DEF LookAtLink, LookAt
  <2>10. CASE SendLink BY <2>0, <2>10 DEF SendLink
  <2>11. CASE DropLink BY <2>11 DEF DropLink
  <2>12. CASE EndLinks BY <2>12 DEF EndLinks
  <2>13. CASE ReturnErr BY <2>13 DEF ReturnErr
  <2> QED
    BY <1>1, <2>1, <2>2, <2>3, <2>4, <2>5, <2>6, <2>7, <2>8, <2>9, <2>10,
       <2>11, <2>12, <2>13 DEF Main
<1>2. CASE CloseOut
  BY <1>2 DEF CloseOut
<1>3. ASSUME NEW w \in Worker, WorkerStep(w) PROVE TypeOK'
  <2>1. CASE TakeTask(w)
    <3>1. Head(queue) \in Task /\ Tail(queue) \in Seq(Task) /\ Len(Tail(queue)) = Len(queue) - 1
      BY <2>1 DEF TakeTask
    <3>2. queue' \in Seq(Task) /\ Len(queue') <= QueueCap
      BY <2>1, <3>1, CapacityType DEF TakeTask
    <3> QED
      BY <2>1, <3>1, <3>2 DEF TakeTask, Goto
  <2>2. CASE Quit(w) BY <2>2 DEF Quit, Goto
  <2>3. CASE PassGate(w) BY <2>3 DEF PassGate, LookAtPause, Goto
  <2>4. CASE PollAgain(w) BY <2>4 DEF PollAgain, Goto
  <2>5. CASE QuitPaused(w) BY <2>5 DEF QuitPaused, Goto, Loses
  <2>6. CASE StartFetch(w)
    <3>0. budget \in 0..MaxPages /\ HasBudget /\ Charge
      BY <2>6 DEF StartFetch
    <3>1. budget' \in 0..MaxPages
      BY ONLY <3>0, BoundAssumption DEF HasBudget, Charge
    <3>2. starts' \in [URL -> Nat]
      BY <2>6, CountUp DEF StartFetch
    <3>3. overrun' \in [Worker -> Nat]
      BY <2>6 DEF StartFetch
    <3> QED
      BY <2>6, <3>1, <3>2, <3>3 DEF StartFetch, Goto
  <2>7. CASE OutOfBudget(w) BY <2>7 DEF OutOfBudget, Goto, Loses, EndCrawl
  <2>8. CASE Fetched(w)
    <3>1. \A links \in Pages[task[w].url] : links \in Seq(URL)
      BY UrlAssumption DEF Task
    <3> QED
      BY <2>8, <3>1 DEF Fetched, Goto
  <2>9. CASE Emit(w)
    <3> DEFINE res == [url |-> task[w].url, depth |-> task[w].depth, links |-> found[w]]
    <3>1. res \in Result
      BY DEF Task, Result
    <3>2. out' \in Seq(Result) /\ Len(out') = Len(out) + 1 /\ Len(out) < OutCap
      BY <2>9, <3>1 DEF Emit
    <3>3. Len(out') <= OutCap
      BY <3>2, CapacityType
    <3> QED
      BY <2>9, <3>2, <3>3 DEF Emit, Goto
  <2>10. CASE DropResult(w) BY <2>10 DEF DropResult, Goto, Loses
  <2> QED
    BY <1>3, <2>1, <2>2, <2>3, <2>4, <2>5, <2>6, <2>7, <2>8, <2>9, <2>10
    DEF WorkerStep
<1>4. CASE Caller
  <2>1. CASE Pause BY <2>1 DEF Pause
  <2>2. CASE Resume BY <2>2 DEF Resume
  <2>3. CASE Cancel BY <2>3 DEF Cancel
  <2> QED
    BY <1>4, <2>1, <2>2, <2>3 DEF Caller
<1>5. CASE Restart
  <2>1. QueueCap >= 0 /\ OutCap >= 0 /\ MaxPages \in 0..MaxPages /\ Start \in Seq(URL)
    BY CapacityType, BoundAssumption, UrlAssumption
  <2>2. restarts' \in 0..MaxRestarts
    BY <1>5, BoundAssumption DEF Restart
  <2>3. /\ queue' \in Seq(Task) /\ Len(queue') <= QueueCap
        /\ out' \in Seq(Result) /\ Len(out') <= OutCap
    BY <1>5, <2>1, CapacityType DEF Restart
  <2>4. /\ wpc' \in [Worker -> WorkerPC]
        /\ starts' \in [URL -> Nat] /\ overrun' \in [Worker -> Nat]
    BY <1>5 DEF Restart
  <2>5. /\ mpc' \in MainPC /\ todo' \in Seq(URL) /\ level' \in Nat /\ inFlight' \in Int
        /\ pend' \in URL /\ page' \in URL /\ err' \in {"none", "nil", "canceled"}
    BY <1>5, <2>1 DEF Restart
  <2>7. /\ queueClosed' \in BOOLEAN /\ outClosed' \in BOOLEAN
        /\ cancelled' \in BOOLEAN /\ paused' \in BOOLEAN
    BY <1>5, Zenon DEF Restart
  <2>6. /\ budget' \in 0..MaxPages /\ lost' \in Nat
        /\ seen' \subseteq URL /\ ckpt' \subseteq URL /\ written' \subseteq URL
        /\ restored' \subseteq URL
        /\ task' \in [Worker -> Task] /\ found' \in [Worker -> Seq(URL)]
    BY <1>5, <2>1 DEF Restart, Restored
  <2> QED
    BY <2>2, <2>3, <2>4, <2>5, <2>6, <2>7
<1>6. CASE UNCHANGED vars
  BY <1>6 DEF vars
<1> QED
  BY <1>1, <1>2, <1>3, <1>4, <1>5, <1>6 DEF Next

\* Every variable keeps its type, the channels never exceed their capacity and
\* the page budget never goes below zero.
THEOREM TypeCorrect == Spec => []TypeOK
BY TypeInit, TypeStep, PTL DEF Spec

----------------------------------------------------------------------------
(* No URL is fetched twice. *)

Sending == {"seedSend", "send"}
PreFetch == {"gate", "polling", "charge"}

\* A URL that this run has seen first and has not begun to fetch.
Fresh(u) == u \in seen /\ u \notin restored /\ starts[u] = 0

\* The three places a URL waits in before it is fetched (the send in progress,
\* queue, a worker) hold fresh URLs, and no URL twice.
QueueOnce ==
    /\ \A i \in 1..Len(queue) : Fresh(queue[i].url)
    /\ \A i, j \in 1..Len(queue) : queue[i].url = queue[j].url => i = j
HeldOnce ==
    /\ \A w \in Worker : wpc[w] \in PreFetch => Fresh(task[w].url)
    /\ \A v, w \in Worker : wpc[v] \in PreFetch /\ wpc[w] \in PreFetch
                              /\ task[v].url = task[w].url => v = w
    /\ \A w \in Worker : wpc[w] \in PreFetch =>
         \A i \in 1..Len(queue) : queue[i].url # task[w].url
PendOnce ==
    mpc \in Sending =>
      /\ Fresh(pend)
      /\ \A i \in 1..Len(queue) : queue[i].url # pend
      /\ \A w \in Worker : wpc[w] \in PreFetch => task[w].url # pend
BegunSeen ==
    /\ restored \subseteq seen /\ ckpt \subseteq seen
    /\ \A u \in URL : starts[u] <= 1 /\ (starts[u] > 0 => u \in seen /\ u \notin restored)
OnceInv == QueueOnce /\ HeldOnce /\ PendOnce /\ BegunSeen

LEMMA UrlTypes ==
    ASSUME TypeOK
    PROVE  /\ \A i \in 1..Len(queue) : queue[i].url \in URL
           /\ \A w \in Worker : task[w].url \in URL
           /\ pend \in URL
           /\ \A u \in URL : starts[u] \in Nat
<1>1. queue \in Seq(Task) /\ task \in [Worker -> Task] /\ starts \in [URL -> Nat] /\ pend \in URL
  BY DEF TypeOK
<1>2. \A i \in 1..Len(queue) : queue[i] \in Task
  BY <1>1
<1> QED
  BY <1>1, <1>2 DEF Task

LEMMA OnceInit == Init => OnceInv
BY DEF Init, OnceInv, QueueOnce, HeldOnce, PendOnce, BegunSeen, Fresh, Sending, PreFetch

\* A step that moves no URL between those places keeps them as they are.
LEMMA OnceFrame ==
    ASSUME TypeOK, OnceInv, UNCHANGED <<restored, starts, queue, task, seen>>,
           ckpt' \in {ckpt, seen, {}},
           mpc' \in Sending => mpc \in Sending /\ pend' = pend,
           \A w \in Worker : wpc'[w] \in PreFetch => wpc[w] \in PreFetch
    PROVE  OnceInv'
<1>1. QueueOnce'
  BY DEF OnceInv, QueueOnce, Fresh
<1>2. HeldOnce'
  BY DEF OnceInv, HeldOnce, Fresh
<1>3. PendOnce'
  BY DEF OnceInv, PendOnce, Fresh
<1>4. BegunSeen'
  BY DEF OnceInv, BegunSeen
<1> QED
  BY <1>1, <1>2, <1>3, <1>4 DEF OnceInv

LEMMA OnceLookAt ==
    ASSUME TypeOK, OnceInv, NEW here \in {"seed", "links"}, NEW sending \in Sending,
           LookAt(here, sending)
    PROVE  OnceInv'
<1>0. here \notin Sending /\ sending \in Sending
  BY DEF Sending
<1>1. PICK u \in URL : u = Head(todo)
  BY DEF LookAt, TypeOK
<1>2. CASE Eligible(u)
  <2>1. mpc' = sending /\ pend' = u /\ seen' = seen \cup {u} /\ u \notin seen
    BY <1>1, <1>2 DEF LookAt, Eligible
  <2>2. UNCHANGED <<queue, wpc, task, starts, restored, ckpt>>
    BY DEF LookAt, chanVars, workerVars, histVars, fileVars
  <2>3. \A x \in URL : Fresh(x) => Fresh(x)' /\ x # u
    BY <2>1, <2>2 DEF Fresh
  <2>4. Fresh(u)'
    <3>1. u \notin restored /\ starts[u] = 0
      BY <1>1, <2>1, UrlTypes DEF OnceInv, BegunSeen
    <3> QED
      BY <2>1, <2>2, <3>1 DEF Fresh
  <2>5. /\ \A i \in 1..Len(queue) : queue[i].url \in URL
        /\ \A w \in Worker : task[w].url \in URL
    BY UrlTypes
  <2>6. QueueOnce'
    BY <2>2, <2>3, <2>5 DEF OnceInv, QueueOnce
  <2>7. HeldOnce'
    BY <2>2, <2>3, <2>5 DEF OnceInv, HeldOnce
  <2>8. PendOnce'
    <3>1. \A i \in 1..Len(queue) : queue[i].url # u
      BY <2>3, <2>5 DEF OnceInv, QueueOnce
    <3>2. \A w \in Worker : wpc[w] \in PreFetch => task[w].url # u
      BY <2>3, <2>5 DEF OnceInv, HeldOnce
    <3> QED
      BY <2>1, <2>2, <2>4, <3>1, <3>2 DEF PendOnce
  <2>9. BegunSeen'
    BY <2>1, <2>2 DEF OnceInv, BegunSeen
  <2> QED
    BY <2>6, <2>7, <2>8, <2>9 DEF OnceInv
<1>3. CASE ~Eligible(u)
  <2>1. UNCHANGED <<restored, starts, queue, task, seen, ckpt, mpc, pend, wpc>>
    BY <1>1, <1>3 DEF LookAt, chanVars, workerVars, histVars, fileVars
  <2> QED
    BY <2>1, OnceFrame
<1> QED
  BY <1>2, <1>3

LEMMA OnceSend ==
    ASSUME TypeOK, OnceInv, NEW here \in Sending, NEW back \in {"seed", "links"},
           SendTask(here, back)
    PROVE  OnceInv'
<1> DEFINE t == [url |-> pend, depth |-> level]
<1>1. /\ mpc \in Sending /\ mpc' \notin Sending /\ queue' = Append(queue, t)
      /\ UNCHANGED <<wpc, task, starts, restored, seen, ckpt>>
  BY DEF SendTask, Enqueue, Sending, workerVars, histVars, fileVars
<1>2. /\ Len(queue') = Len(queue) + 1 /\ Len(queue) \in Nat
      /\ \A i \in 1..Len(queue) : queue'[i] = queue[i]
      /\ queue'[Len(queue) + 1].url = pend
  BY <1>1 DEF TypeOK
<1>3. \A x : Fresh(x)' <=> Fresh(x)
  BY <1>1 DEF Fresh
<1>4. QueueOnce'
  BY <1>1, <1>2, <1>3 DEF OnceInv, QueueOnce, PendOnce
<1>5. HeldOnce'
  BY <1>1, <1>2, <1>3 DEF OnceInv, HeldOnce, PendOnce
<1>6. PendOnce' /\ BegunSeen'
  BY <1>1 DEF PendOnce, OnceInv, BegunSeen
<1> QED
  BY <1>4, <1>5, <1>6 DEF OnceInv

LEMMA OnceTake ==
    ASSUME TypeOK, OnceInv, NEW w \in Worker, TakeTask(w)
    PROVE  OnceInv'
<1>1. /\ wpc' = [wpc EXCEPT ![w] = "gate"] /\ wpc[w] = "idle"
      /\ task' = [task EXCEPT ![w] = Head(queue)] /\ queue # <<>> /\ queue' = Tail(queue)
      /\ UNCHANGED <<mpc, pend, starts, restored, seen, ckpt>>
  BY DEF TakeTask, Goto, mainVars, histVars, fileVars
<1>2. /\ Len(queue) \in Nat \ {0} /\ Len(queue') = Len(queue) - 1 /\ Head(queue) = queue[1]
      /\ \A i \in 1..Len(queue') : i + 1 \in 1..Len(queue) /\ queue'[i] = queue[i + 1]
  BY <1>1 DEF TypeOK
<1>3. \A x : Fresh(x)' <=> Fresh(x)
  BY <1>1 DEF Fresh
<1>4. /\ task'[w].url = queue[1].url /\ wpc'[w] \in PreFetch
      /\ \A v \in Worker \ {w} : task'[v] = task[v] /\ wpc'[v] = wpc[v]
  BY <1>1, <1>2 DEF TypeOK, PreFetch
<1>5. QueueOnce'
  <2>1. (\A i \in 1..Len(queue) : Fresh(queue[i].url))'
    BY <1>2, <1>3 DEF OnceInv, QueueOnce
  <2>2. \A i, j \in 1..Len(queue') : queue'[i].url = queue'[j].url => i = j
    <3> SUFFICES ASSUME NEW i \in 1..Len(queue'), NEW j \in 1..Len(queue'),
                        queue'[i].url = queue'[j].url
                 PROVE  i = j
      OBVIOUS
    <3>1. i + 1 = j + 1
      BY <1>2 DEF OnceInv, QueueOnce
    <3> QED
      BY <1>2, <3>1
  <2> QED
    BY <2>1, <2>2 DEF QueueOnce
<1>6. HeldOnce'
  <2>1. \A i \in 1..Len(queue) : Fresh(queue[i].url) /\ (i # 1 => queue[i].url # queue[1].url)
    BY <1>2 DEF OnceInv, QueueOnce
  <2>2. \A v \in Worker : wpc[v] \in PreFetch =>
           /\ Fresh(task[v].url)
           /\ \A i \in 1..Len(queue) : queue[i].url # task[v].url
    BY DEF OnceInv, HeldOnce
  <2>3. (\A v \in Worker : wpc[v] \in PreFetch => Fresh(task[v].url))'
    BY <1>2, <1>3, <1>4, <2>1, <2>2
  <2>4. \A u, v \in Worker :
           wpc'[u] \in PreFetch /\ wpc'[v] \in PreFetch /\ task'[u].url = task'[v].url => u = v
    BY <1>2, <1>4, <2>2 DEF OnceInv, HeldOnce
  <2>5. \A v \in Worker : wpc'[v] \in PreFetch =>
           \A i \in 1..Len(queue') : queue'[i].url # task'[v].url
    BY <1>2, <1>4, <2>1, <2>2
  <2> QED
    BY <2>3, <2>4, <2>5 DEF HeldOnce
<1>7. PendOnce'
  BY <1>1, <1>2, <1>3, <1>4 DEF OnceInv, PendOnce
<1>8. BegunSeen'
  BY <1>1 DEF OnceInv, BegunSeen
<1> QED
  BY <1>5, <1>6, <1>7, <1>8 DEF OnceInv

LEMMA OnceFetch ==
    ASSUME TypeOK, OnceInv, NEW w \in Worker, StartFetch(w)
    PROVE  OnceInv'
<1> DEFINE u == task[w].url
<1>1. /\ wpc' = [wpc EXCEPT ![w] = "fetch"] /\ wpc[w] = "charge"
      /\ starts' = [starts EXCEPT ![u] = @ + 1]
      /\ UNCHANGED <<mpc, pend, queue, task, restored, seen, ckpt>>
  BY DEF StartFetch, Goto, mainVars, chanVars, fileVars
<1>2. /\ wpc[w] \in PreFetch /\ wpc'[w] \notin PreFetch
      /\ \A v \in Worker \ {w} : wpc'[v] = wpc[v]
  BY <1>1 DEF TypeOK, PreFetch
<1>3. u \in URL /\ Fresh(u)
  BY <1>2 DEF OnceInv, HeldOnce, TypeOK, Task
<1>4. starts'[u] = 1 /\ \A x \in URL \ {u} : starts'[x] = starts[x]
  BY <1>1, <1>3 DEF TypeOK, Fresh
<1>5. \A x \in URL : x # u /\ Fresh(x) => Fresh(x)'
  BY <1>1, <1>4 DEF Fresh
<1>6. /\ \A i \in 1..Len(queue) : queue[i].url \in URL
      /\ \A v \in Worker : task[v].url \in URL
      /\ pend \in URL
  BY UrlTypes
<1>7. QueueOnce'
  BY <1>1, <1>2, <1>5, <1>6 DEF OnceInv, QueueOnce, HeldOnce
<1>8. HeldOnce'
  BY <1>1, <1>2, <1>5, <1>6 DEF OnceInv, HeldOnce
<1>9. PendOnce'
  BY <1>1, <1>2, <1>5, <1>6 DEF OnceInv, PendOnce
<1>10. BegunSeen'
  BY <1>1, <1>3, <1>4 DEF OnceInv, BegunSeen, Fresh
<1> QED
  BY <1>7, <1>8, <1>9, <1>10 DEF OnceInv

LEMMA OnceStep == TypeOK /\ OnceInv /\ [Next]_vars => OnceInv'
<1> SUFFICES ASSUME TypeOK, OnceInv, [Next]_vars PROVE OnceInv'
  OBVIOUS
<1> USE DEF mainVars, chanVars, workerVars, fileVars, histVars, Sending, PreFetch
<1>1. CASE Main
  <2>1. CASE LookAtSeed BY <2>1, OnceLookAt DEF LookAtSeed
  <2>2. CASE SendSeed BY <2>2, OnceSend DEF SendSeed
  <2>3. CASE EndSeeding BY <2>3, OnceFrame DEF EndSeeding
  <2>4. CASE ReturnEmpty BY <2>4, OnceFrame DEF ReturnEmpty
  <2>5. CASE Receive BY <2>5, OnceFrame DEF Receive
  <2>6. CASE OutExhausted BY <2>6, OnceFrame DEF OutExhausted
  <2>7. CASE WriteLine BY <2>7, OnceFrame DEF WriteLine
  <2>8. CASE SaveCheckpoint BY <2>8, OnceFrame DEF SaveCheckpoint
  <2>9. CASE LookAtLink BY <2>9, OnceLookAt DEF LookAtLink
  <2>10. CASE SendLink BY <2>10, OnceSend DEF SendLink
  <2>11. CASE DropLink BY <2>11, OnceFrame DEF DropLink
  <2>12. CASE EndLinks BY <2>12, OnceFrame DEF EndLinks
  <2>13. CASE ReturnErr BY <2>13, OnceFrame DEF ReturnErr
  <2> QED
    BY <1>1, <2>1, <2>2, <2>3, <2>4, <2>5, <2>6, <2>7, <2>8, <2>9, <2>10,
       <2>11, <2>12, <2>13 DEF Main
<1>2. CASE CloseOut
  BY <1>2, OnceFrame DEF CloseOut
<1>3. ASSUME NEW w \in Worker, WorkerStep(w) PROVE OnceInv'
  <2> USE DEF TypeOK, Goto
  <2>1. CASE TakeTask(w) BY <2>1, OnceTake
  <2>2. CASE Quit(w) BY <2>2, OnceFrame DEF Quit
  <2>3. CASE PassGate(w) BY <2>3, OnceFrame DEF PassGate, LookAtPause
  <2>4. CASE PollAgain(w) BY <2>4, OnceFrame DEF PollAgain
  <2>5. CASE QuitPaused(w) BY <2>5, OnceFrame DEF QuitPaused
  <2>6. CASE StartFetch(w) BY <2>6, OnceFetch
  <2>7. CASE OutOfBudget(w) BY <2>7, OnceFrame DEF OutOfBudget
  <2>8. CASE Fetched(w) BY <2>8, OnceFrame DEF Fetched
  <2>9. CASE Emit(w) BY <2>9, OnceFrame DEF Emit
  <2>10. CASE DropResult(w) BY <2>10, OnceFrame DEF DropResult
  <2> QED
    BY <1>3, <2>1, <2>2, <2>3, <2>4, <2>5, <2>6, <2>7, <2>8, <2>9, <2>10
    DEF WorkerStep
<1>4. CASE Caller
  BY <1>4, OnceFrame DEF Caller, Pause, Resume, Cancel
<1>5. CASE Restart
  BY <1>5 DEF Restart, Restored, OnceInv, QueueOnce, HeldOnce, PendOnce, BegunSeen, Fresh
<1>6. CASE UNCHANGED vars
  BY <1>6, OnceFrame DEF vars
<1> QED
  BY <1>1, <1>2, <1>3, <1>4, <1>5, <1>6 DEF Next

THEOREM OnceCorrect == Spec => []OnceInv
BY TypeCorrect, OnceInit, OnceStep, PTL DEF Spec

\* In no interleaving of any number of workers is a URL fetched twice by a run.
THEOREM FetchedOnce == Spec => []NoDoubleFetch
<1>1. OnceInv => NoDoubleFetch
  BY DEF OnceInv, BegunSeen, NoDoubleFetch
<1> QED
  BY <1>1, OnceCorrect, PTL

\* However often the crawl is restarted, what the checkpoint held at the last
\* start is not fetched again.
THEOREM CheckpointRespected == Spec => []NoRefetchAfterRestart
<1>1. TypeOK /\ OnceInv => NoRefetchAfterRestart
  BY DEF TypeOK, OnceInv, BegunSeen, NoRefetchAfterRestart
<1> QED
  BY <1>1, TypeCorrect, OnceCorrect, PTL

----------------------------------------------------------------------------
(* Pause. *)

\* A worker past its gate has not begun a fetch since Pause.
PauseInv ==
    paused => \A w \in Worker :
        /\ overrun[w] <= 1
        /\ wpc[w] = "charge" => overrun[w] = 0

LEMMA PauseInit == Init => PauseInv
BY DEF Init, PauseInv

\* Most steps leave the flag and the history alone and move no worker past its
\* gate.
LEMMA PauseFrame ==
    ASSUME TypeOK, PauseInv, UNCHANGED <<paused, overrun>>,
           \A w \in Worker : wpc'[w] = "charge" => wpc[w] = "charge"
    PROVE  PauseInv'
BY DEF PauseInv

LEMMA PauseStep == TypeOK /\ PauseInv /\ [Next]_vars => PauseInv'
<1> SUFFICES ASSUME TypeOK, PauseInv, [Next]_vars PROVE PauseInv'
  OBVIOUS
<1> USE DEF mainVars, chanVars, workerVars, histVars
<1>1. CASE Main
  BY <1>1, PauseFrame
  DEF Main, LookAtSeed, LookAtLink, LookAt, SendSeed, SendLink, SendTask, EndSeeding,
      ReturnEmpty, Receive, OutExhausted, WriteLine, SaveCheckpoint, DropLink,
      EndLinks, ReturnErr
<1>2. CASE CloseOut
  BY <1>2, PauseFrame DEF CloseOut
<1>3. ASSUME NEW w \in Worker, WorkerStep(w) PROVE PauseInv'
  <2>1. CASE PassGate(w)
    <3>1. CASE paused
      BY <2>1, <3>1, PauseFrame DEF PassGate, LookAtPause, Goto, TypeOK
    <3>2. CASE ~paused
      BY <2>1, <3>2 DEF PassGate, PauseInv
    <3> QED
      BY <3>1, <3>2
  <2>2. CASE StartFetch(w)
    <3>1. /\ wpc[w] = "charge" /\ wpc' = [wpc EXCEPT ![w] = "fetch"] /\ paused' = paused
          /\ overrun' = [overrun EXCEPT ![w] = IF paused THEN @ + 1 ELSE 0]
      BY <2>2 DEF StartFetch, Goto
    <3>2. ASSUME paused, NEW v \in Worker
          PROVE  overrun'[v] <= 1 /\ (wpc'[v] = "charge" => overrun'[v] = 0)
      <4>1. CASE v = w
        <5>1. overrun[w] = 0
          BY <3>1, <3>2 DEF PauseInv
        <5>2. overrun'[w] = 1 /\ wpc'[w] = "fetch"
          BY <3>1, <3>2, <5>1 DEF TypeOK
        <5> QED
          BY <4>1, <5>2
      <4>2. CASE v # w
        <5>1. overrun'[v] = overrun[v] /\ wpc'[v] = wpc[v]
          BY <3>1, <4>2 DEF TypeOK
        <5> QED
          BY <3>2, <5>1 DEF PauseInv
      <4> QED
        BY <4>1, <4>2
    <3> QED
      BY <3>1, <3>2 DEF PauseInv
  <2>3. ASSUME NEW s \in {"idle", "gate", "polling", "emit", "exit"},
               wpc' = [wpc EXCEPT ![w] = s], UNCHANGED <<paused, overrun>>
        PROVE  PauseInv'
    BY <2>3, PauseFrame DEF TypeOK
  <2>4. CASE TakeTask(w) BY <2>3, <2>4 DEF TakeTask, Goto
  <2>5. CASE Quit(w) BY <2>3, <2>5 DEF Quit, Goto
  <2>6. CASE PollAgain(w) BY <2>3, <2>6 DEF PollAgain, Goto
  <2>7. CASE QuitPaused(w) BY <2>3, <2>7 DEF QuitPaused, Goto
  <2>8. CASE OutOfBudget(w) BY <2>3, <2>8 DEF OutOfBudget, Goto
  <2>9. CASE Fetched(w) BY <2>3, <2>9 DEF Fetched, Goto
  <2>10. CASE Emit(w) BY <2>3, <2>10 DEF Emit, Goto
  <2>11. CASE DropResult(w) BY <2>3, <2>11 DEF DropResult, Goto
  <2> QED
    BY <1>3, <2>1, <2>2, <2>4, <2>5, <2>6, <2>7, <2>8, <2>9, <2>10, <2>11
    DEF WorkerStep
<1>4. CASE Pause
  BY <1>4 DEF Pause, PauseInv
<1>5. CASE Resume
  BY <1>5 DEF Resume, PauseInv
<1>6. CASE Cancel
  BY <1>6, PauseFrame DEF Cancel
<1>7. CASE Restart
  BY <1>7 DEF Restart, PauseInv
<1>8. CASE UNCHANGED vars
  BY <1>8, PauseFrame DEF vars
<1> QED
  BY <1>1, <1>2, <1>3, <1>4, <1>5, <1>6, <1>7, <1>8 DEF Next, Caller

\* However many workers there are, a pause lets each begin at most one fetch.
THEOREM PauseHolds == Spec => []PauseBoundsOverrun
<1>1. PauseInv => PauseBoundsOverrun
  BY DEF PauseInv, PauseBoundsOverrun
<1> QED
  BY <1>1, TypeCorrect, PauseInit, PauseStep, PTL DEF Spec

----------------------------------------------------------------------------
(* The counter. *)

LEMMA BusyFinite ==
    ASSUME TypeOK
    PROVE  IsFiniteSet(BusyWorkers) /\ Cardinality(BusyWorkers) \in Nat
<1>1. BusyWorkers \subseteq Worker
  BY DEF BusyWorkers
<1> QED
  BY <1>1, WorkerAssumption, FS_Subset, FS_CardinalityType

\* How the number of busy workers changes when one worker moves.
LEMMA BusyKept ==
    ASSUME TypeOK, NEW w \in Worker, NEW s, wpc' = [wpc EXCEPT ![w] = s],
           s \in Busy <=> wpc[w] \in Busy
    PROVE  BusyWorkers' = BusyWorkers
BY DEF BusyWorkers, TypeOK

LEMMA BusyGained ==
    ASSUME TypeOK, NEW w \in Worker, NEW s \in Busy, wpc' = [wpc EXCEPT ![w] = s],
           wpc[w] \notin Busy
    PROVE  Cardinality(BusyWorkers)' = Cardinality(BusyWorkers) + 1
<1>1. BusyWorkers' = BusyWorkers \cup {w} /\ w \notin BusyWorkers
  BY DEF BusyWorkers, TypeOK
<1> QED
  BY <1>1, BusyFinite, FS_AddElement

LEMMA BusyLost ==
    ASSUME TypeOK, NEW w \in Worker, NEW s, s \notin Busy, wpc' = [wpc EXCEPT ![w] = s],
           wpc[w] \in Busy
    PROVE  Cardinality(BusyWorkers)' = Cardinality(BusyWorkers) - 1
<1>1. BusyWorkers' = BusyWorkers \ {w} /\ w \in BusyWorkers
  BY DEF BusyWorkers, TypeOK
<1> QED
  BY <1>1, BusyFinite, FS_RemoveElement

LEMMA CountInit == Init => InFlightExact
<1> SUFFICES ASSUME Init PROVE InFlightExact
  OBVIOUS
<1>1. BusyWorkers = {}
  BY DEF Init, BusyWorkers, Busy
<1> QED
  BY <1>1, FS_EmptySet DEF Init, InFlightExact

LEMMA CountFrame ==
    ASSUME InFlightExact, UNCHANGED <<inFlight, queue, out, lost>>,
           BusyWorkers' = BusyWorkers
    PROVE  InFlightExact'
BY DEF InFlightExact

LEMMA CountSend ==
    ASSUME TypeOK, InFlightExact, NEW here, NEW back, SendTask(here, back)
    PROVE  InFlightExact'
<1>1. /\ inFlight' = inFlight + 1 /\ Len(queue') = Len(queue) + 1
      /\ UNCHANGED <<out, lost, wpc>>
  BY DEF SendTask, Enqueue, TypeOK, workerVars, histVars
<1>2. BusyWorkers' = BusyWorkers
  BY <1>1 DEF BusyWorkers
<1>3. Len(queue) \in Nat /\ Len(out) \in Nat /\ lost \in Nat
  BY DEF TypeOK
<1> QED
  BY <1>1, <1>2, <1>3, BusyFinite DEF InFlightExact

LEMMA CountMain ==
    ASSUME TypeOK, InFlightExact, Main
    PROVE  InFlightExact'
<1> USE DEF mainVars, chanVars, workerVars, histVars
<1>1. CASE UNCHANGED <<inFlight, queue, out, lost, wpc>>
  BY <1>1, CountFrame DEF BusyWorkers
<1>2. CASE LookAtSeed BY <1>1, <1>2 DEF LookAtSeed, LookAt
<1>3. CASE SendSeed BY <1>3, CountSend DEF SendSeed
<1>4. CASE EndSeeding BY <1>1, <1>4 DEF EndSeeding
<1>5. CASE ReturnEmpty BY <1>1, <1>5 DEF ReturnEmpty
<1>6. CASE Receive
  <2>1. /\ inFlight' = inFlight - 1 /\ Len(out') = Len(out) - 1
        /\ UNCHANGED <<queue, lost, wpc>>
    BY <1>6 DEF Receive, TypeOK
  <2>2. BusyWorkers' = BusyWorkers
    BY <2>1 DEF BusyWorkers
  <2>3. Len(queue) \in Nat /\ Len(out) \in Nat /\ lost \in Nat
    BY DEF TypeOK
  <2> QED
    BY <2>1, <2>2, <2>3, BusyFinite DEF InFlightExact
<1>7. CASE OutExhausted BY <1>1, <1>7 DEF OutExhausted
<1>8. CASE WriteLine BY <1>1, <1>8 DEF WriteLine
<1>9. CASE SaveCheckpoint BY <1>1, <1>9 DEF SaveCheckpoint
<1>10. CASE LookAtLink BY <1>1, <1>10 DEF LookAtLink, LookAt
<1>11. CASE SendLink BY <1>11, CountSend DEF SendLink
<1>12. CASE DropLink BY <1>1, <1>12 DEF DropLink
<1>13. CASE EndLinks BY <1>1, <1>13 DEF EndLinks
<1>14. CASE ReturnErr BY <1>1, <1>14 DEF ReturnErr
<1> QED
  BY <1>2, <1>3, <1>4, <1>5, <1>6, <1>7, <1>8, <1>9, <1>10, <1>11, <1>12, <1>13,
     <1>14 DEF Main

\* A worker that drops its task.
LEMMA CountLoss ==
    ASSUME TypeOK, InFlightExact, NEW w \in Worker, NEW from \in Busy,
           Goto(w, from, "exit"), Loses, UNCHANGED <<inFlight, queue, out>>
    PROVE  InFlightExact'
<1>1. Cardinality(BusyWorkers)' = Cardinality(BusyWorkers) - 1
  BY BusyLost DEF Goto, Busy
<1>2. Len(queue) \in Nat /\ Len(out) \in Nat /\ lost \in Nat
  BY DEF TypeOK
<1> QED
  BY <1>1, <1>2, BusyFinite DEF InFlightExact, Loses

LEMMA CountWorker ==
    ASSUME TypeOK, InFlightExact, NEW w \in Worker, WorkerStep(w)
    PROVE  InFlightExact'
<1> USE DEF mainVars, chanVars, workerVars, histVars
<1>0. Len(queue) \in Nat /\ Len(out) \in Nat /\ lost \in Nat
  BY DEF TypeOK
<1>1. ASSUME NEW from, NEW to, Goto(w, from, to), from \in Busy <=> to \in Busy,
             UNCHANGED <<inFlight, queue, out, lost>>
      PROVE  InFlightExact'
  <2>1. BusyWorkers' = BusyWorkers
    BY <1>1, BusyKept DEF Goto
  <2> QED
    BY <1>1, <2>1, CountFrame
<1>2. CASE TakeTask(w)
  <2>1. /\ Len(queue') = Len(queue) - 1
        /\ UNCHANGED <<inFlight, out, lost>>
    BY <1>2 DEF TakeTask, TypeOK
  <2>2. Cardinality(BusyWorkers)' = Cardinality(BusyWorkers) + 1
    BY <1>2, BusyGained DEF TakeTask, Goto, Busy
  <2> QED
    BY <1>0, <2>1, <2>2, BusyFinite DEF InFlightExact
<1>3. CASE Quit(w) BY <1>1, <1>3 DEF Quit, Busy
<1>4. CASE PassGate(w)
  <2>1. Goto(w, "gate", "polling") \/ Goto(w, "gate", "charge")
    BY <1>4 DEF PassGate, LookAtPause
  <2>2. UNCHANGED <<inFlight, queue, out, lost>>
    BY <1>4 DEF PassGate
  <2> QED
    BY <1>1, <2>1, <2>2 DEF Busy
<1>5. CASE PollAgain(w) BY <1>1, <1>5 DEF PollAgain, Busy
<1>6. CASE QuitPaused(w) BY <1>6, CountLoss DEF QuitPaused, Busy
<1>7. CASE StartFetch(w) BY <1>1, <1>7 DEF StartFetch, Busy
<1>8. CASE OutOfBudget(w) BY <1>8, CountLoss DEF OutOfBudget, Busy
<1>9. CASE Fetched(w) BY <1>1, <1>9 DEF Fetched, Busy
<1>10. CASE Emit(w)
  <2>1. /\ Len(out') = Len(out) + 1
        /\ UNCHANGED <<inFlight, queue, lost>>
    BY <1>10 DEF Emit, TypeOK
  <2>2. Cardinality(BusyWorkers)' = Cardinality(BusyWorkers) - 1
    BY <1>10, BusyLost DEF Emit, Goto, Busy
  <2> QED
    BY <1>0, <2>1, <2>2, BusyFinite DEF InFlightExact
<1>11. CASE DropResult(w) BY <1>11, CountLoss DEF DropResult, Busy
<1> QED
  BY <1>2, <1>3, <1>4, <1>5, <1>6, <1>7, <1>8, <1>9, <1>10, <1>11 DEF WorkerStep

LEMMA CountStep == TypeOK /\ InFlightExact /\ [Next]_vars => InFlightExact'
<1> SUFFICES ASSUME TypeOK, InFlightExact, [Next]_vars PROVE InFlightExact'
  OBVIOUS
<1> USE DEF mainVars, chanVars, workerVars, histVars
<1>1. CASE UNCHANGED <<inFlight, queue, out, lost, wpc>>
  BY <1>1, CountFrame DEF BusyWorkers
<1>2. CASE Main BY <1>2, CountMain
<1>3. CASE CloseOut BY <1>1, <1>3 DEF CloseOut
<1>4. CASE \E w \in Worker : WorkerStep(w) BY <1>4, CountWorker
<1>5. CASE Caller BY <1>1, <1>5 DEF Caller, Pause, Resume, Cancel
<1>6. CASE Restart
  <2>1. BusyWorkers' = {} /\ inFlight' = 0 /\ queue' = <<>> /\ out' = <<>> /\ lost' = 0
    BY <1>6 DEF Restart, BusyWorkers, Busy
  <2> QED
    BY <2>1, FS_EmptySet DEF InFlightExact
<1>7. CASE UNCHANGED vars BY <1>1, <1>7 DEF vars
<1> QED
  BY <1>2, <1>3, <1>4, <1>5, <1>6, <1>7 DEF Next

\* Run's counter is exact for any number of workers and any channel sizes.
THEOREM CounterExact == Spec => []InFlightExact
BY TypeCorrect, CountInit, CountStep, PTL DEF Spec

----------------------------------------------------------------------------
(* The end of Run. *)

\* Run is past its loop.
Ending == mpc \in {"close", "done"}

\* Out is closed only when the workers are gone; past the loop no worker holds a
\* task, and none can get one.
EndInv ==
    /\ outClosed => AllExited
    /\ Ending => BusyWorkers = {} /\ (queue = <<>> \/ AllExited)

LEMMA EndInit == Init => EndInv
BY DEF Init, EndInv, Ending

LEMMA ExitedNotBusy == AllExited => BusyWorkers = {}
BY DEF AllExited, BusyWorkers, Busy

\* A counter at zero means that nothing is left anywhere.
LEMMA ZeroMeansIdle ==
    ASSUME TypeOK, InFlightExact, inFlight <= 0
    PROVE  queue = <<>> /\ BusyWorkers = {} /\ out = <<>> /\ lost = 0
<1>1. Len(queue) \in Nat /\ Len(out) \in Nat /\ lost \in Nat
  BY DEF TypeOK
<1>2. Len(queue) = 0 /\ Cardinality(BusyWorkers) = 0 /\ Len(out) = 0 /\ lost = 0
  BY <1>1, BusyFinite DEF InFlightExact
<1>3. BusyWorkers = {}
  BY <1>2, BusyFinite, FS_EmptySet
<1> QED
  BY <1>2, <1>3 DEF TypeOK

LEMMA EndFrame ==
    ASSUME EndInv, UNCHANGED <<outClosed, queue, wpc>>, Ending' => Ending
    PROVE  EndInv'
BY DEF EndInv, AllExited, BusyWorkers

\* A worker that moves is not gone, and past the loop it can only leave.
LEMMA EndWorker ==
    ASSUME TypeOK, EndInv, NEW w \in Worker, WorkerStep(w)
    PROVE  EndInv'
<1> USE DEF mainVars, chanVars, workerVars, histVars
<1>1. wpc[w] # "exit" /\ UNCHANGED <<outClosed, mpc>>
  BY DEF WorkerStep, TakeTask, Quit, PassGate, LookAtPause, PollAgain, QuitPaused,
         StartFetch, OutOfBudget, Fetched, Emit, DropResult, Goto
<1>2. ~AllExited /\ ~outClosed
  BY <1>1 DEF AllExited, EndInv
<1>3. CASE ~Ending
  BY <1>1, <1>2, <1>3 DEF EndInv, Ending
<1>4. CASE Ending
  <2>1. BusyWorkers = {} /\ queue = <<>>
    BY <1>2, <1>4 DEF EndInv
  <2>2. wpc[w] \notin Busy
    BY <2>1 DEF BusyWorkers
  <2>3. Quit(w)
    BY <2>1, <2>2 DEF Busy, WorkerStep, TakeTask, PassGate, LookAtPause, PollAgain,
       QuitPaused, StartFetch, OutOfBudget, Fetched, Emit, DropResult, Goto
  <2>4. BusyWorkers' = BusyWorkers
    BY <2>2, <2>3, BusyKept DEF Quit, Goto, Busy
  <2> QED
    BY <1>1, <1>2, <2>1, <2>3, <2>4 DEF EndInv, Quit
<1> QED
  BY <1>3, <1>4

LEMMA EndMain ==
    ASSUME TypeOK, InFlightExact, EndInv, Main
    PROVE  EndInv'
<1> USE DEF mainVars, chanVars, workerVars, histVars
<1>1. ASSUME UNCHANGED <<outClosed, wpc>>, ~Ending' PROVE EndInv'
  BY <1>1 DEF EndInv, AllExited
<1>2. CASE LookAtSeed BY <1>1, <1>2 DEF LookAtSeed, LookAt, Ending
<1>3. CASE SendSeed BY <1>1, <1>3 DEF SendSeed, SendTask, Ending
<1>4. CASE EndSeeding BY <1>1, <1>4 DEF EndSeeding, Ending
<1>5. CASE ReturnEmpty
  <2>1. AllExited' /\ BusyWorkers' = {}
    BY <1>5, ExitedNotBusy DEF ReturnEmpty, AllExited, BusyWorkers
  <2> QED
    BY <2>1 DEF EndInv
<1>6. CASE Receive BY <1>1, <1>6 DEF Receive, Ending
<1>7. CASE OutExhausted
  <2>1. AllExited /\ UNCHANGED wpc
    BY <1>7 DEF OutExhausted, EndInv
  <2>2. AllExited' /\ BusyWorkers' = {}
    BY <2>1, ExitedNotBusy DEF AllExited, BusyWorkers
  <2> QED
    BY <2>2 DEF EndInv
<1>8. CASE WriteLine BY <1>1, <1>8 DEF WriteLine, Ending
<1>9. CASE SaveCheckpoint BY <1>1, <1>9 DEF SaveCheckpoint, Ending
<1>10. CASE LookAtLink BY <1>1, <1>10 DEF LookAtLink, LookAt, Ending
<1>11. CASE SendLink BY <1>1, <1>11 DEF SendLink, SendTask, Ending
<1>12. CASE DropLink BY <1>1, <1>12 DEF DropLink, Ending
<1>13. CASE EndLinks
  <2>1. UNCHANGED <<outClosed, wpc, queue>>
    BY <1>13 DEF EndLinks
  <2>2. CASE Finished
    <3>1. queue = <<>> /\ BusyWorkers = {}
      BY <2>2, ZeroMeansIdle DEF Finished
    <3> QED
      BY <2>1, <3>1 DEF EndInv, AllExited, BusyWorkers
  <2>3. CASE ~Finished
    BY <1>1, <1>13, <2>1, <2>3 DEF EndLinks, Ending
  <2> QED
    BY <2>2, <2>3
<1>14. CASE ReturnErr BY <1>14, EndFrame DEF ReturnErr, Ending
<1> QED
  BY <1>2, <1>3, <1>4, <1>5, <1>6, <1>7, <1>8, <1>9, <1>10, <1>11, <1>12, <1>13,
     <1>14 DEF Main

LEMMA EndStep == TypeOK /\ InFlightExact /\ EndInv /\ [Next]_vars => EndInv'
<1> SUFFICES ASSUME TypeOK, InFlightExact, EndInv, [Next]_vars PROVE EndInv'
  OBVIOUS
<1> USE DEF mainVars, chanVars, workerVars, histVars
<1>1. CASE Main BY <1>1, EndMain
<1>2. CASE CloseOut
  <2>1. AllExited' /\ BusyWorkers' = {}
    BY <1>2, ExitedNotBusy DEF CloseOut, AllExited, BusyWorkers
  <2> QED
    BY <2>1 DEF EndInv
<1>3. CASE \E w \in Worker : WorkerStep(w) BY <1>3, EndWorker
<1>4. CASE Caller BY <1>4, EndFrame DEF Caller, Pause, Resume, Cancel, Ending
<1>5. CASE Restart BY <1>5 DEF Restart, EndInv, Ending
<1>6. CASE UNCHANGED vars BY <1>6, EndFrame DEF vars, Ending
<1> QED
  BY <1>1, <1>2, <1>3, <1>4, <1>5, <1>6 DEF Next

THEOREM EndCorrect == Spec => []EndInv
BY TypeCorrect, CounterExact, EndInit, EndStep, PTL DEF Spec

\* When Run has returned no worker holds a task, whatever ended it.
THEOREM ReturnIsLast == Spec => []NoWorkAfterReturn
<1>1. EndInv => NoWorkAfterReturn
  BY DEF EndInv, Ending, NoWorkAfterReturn
<1> QED
  BY <1>1, EndCorrect, PTL
=============================================================================
