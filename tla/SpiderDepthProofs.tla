-------------------------- MODULE SpiderDepthProofs --------------------------
(***************************************************************************)
(* A crawl with one worker is complete within MaxDepth: the path of a task    *)
(* from queue through the worker and out to Run is first in, first out, so     *)
(* pages come back level by level, and a page is queued for the first time at  *)
(* its distance from the start pages.                                          *)
(***************************************************************************)
EXTENDS SpiderPromiseProofs, OrderLemmas

----------------------------------------------------------------------------
(* Breadth-first order. *)

\* The theorem is about a crawl with one worker, of pages that do not change.
OneWorker == \A v, w \in Worker : v = w
SamePages == \A u \in URL : \A k, l \in Pages[u] : k = l

\* What Run has still to look at, and the tasks that are on their way through
\* queue, the worker and out, with the one Run is sending.
Todo == {todo[i] : i \in 1..Len(todo)}
Waiting ==
    {queue[i] : i \in 1..Len(queue)}
      \cup {task[w] : w \in BusyWorkers}
      \cup {[url |-> out[i].url, depth |-> out[i].depth] : i \in 1..Len(out)}
      \cup (IF mpc \in Sending THEN {[url |-> pend, depth |-> level]} ELSE {})

\* The channels yield what a page of that URL may.
FoundInv ==
    /\ \A i \in 1..Len(out) : out[i].links \in Pages[out[i].url]
    /\ \A w \in Worker : wpc[w] = "emit" => found[w] \in Pages[task[w].url]

\* Every allowed start page is seen once the seeding has passed it.
SeedInv ==
    restarts = 0 =>
      /\ restored = {}
      /\ Nearest \subseteq seen \cup (IF mpc \in {"seed", "seedSend"} THEN Todo ELSE {})
      /\ Seeding => level = 0
      /\ mpc \in {"seed", "drain"} /\ inFlight = 0 => seen = {}

\* From the head of out to the end of queue depths do not decrease.
OrderInv ==
    /\ \A i, j \in 1..Len(out) : i <= j => out[i].depth <= out[j].depth
    /\ \A i, j \in 1..Len(queue) : i <= j => queue[i].depth <= queue[j].depth
    /\ \A i \in 1..Len(out), j \in 1..Len(queue) : out[i].depth <= queue[j].depth
    /\ \A w \in BusyWorkers : /\ \A i \in 1..Len(out) : out[i].depth <= task[w].depth
                              /\ \A j \in 1..Len(queue) : task[w].depth <= queue[j].depth
\* They are those of two levels: that of the page Run read last, and the next.
LevelInv ==
    /\ level <= MaxDepth + 1 /\ (mpc \in Sending => level <= MaxDepth)
    /\ \A t \in Waiting : t.depth \in {level - 1, level} /\ t.depth <= MaxDepth

\* The page whose links Run is looking at.
BeingRead(u) ==
    mpc \in {"write", "save", "links", "send"} /\ page = u /\ LinksOf(u) \subseteq seen \cup Todo
\* Until the last level every URL seen is on its way, or its links are seen too.
SpreadInv ==
    level <= MaxDepth =>
      \A u \in seen : \/ LinksOf(u) \subseteq seen
                      \/ \E t \in Waiting : t.url = u
                      \/ BeingRead(u)
\* The level before the current one is seen entirely, and nothing of it is on its
\* way with a greater depth.
ReachInv ==
    level > 0 => /\ Within[level - 1] \subseteq seen
                 /\ \A t \in Waiting : t.depth = level => t.url \notin Within[level - 1]

\* All this holds of the first run, while its context has not ended.
Intact == restarts = 0 /\ ~cancelled /\ ~Ending
BreadthInv == Intact => OrderInv /\ LevelInv /\ SpreadInv /\ ReachInv

\* At the end everything within the depth is seen.
DepthInv ==
    restarts = 0 /\ (mpc = "drain" \/ (mpc = "close" /\ ~cancelled) \/ (mpc = "done" /\ err = "nil"))
      => Within[MaxDepth] \subseteq seen

----------------------------------------------------------------------------
(* The reference. *)

WithinUpTo(m, f) ==
    f = [n \in 0..m |-> IF n = 0 THEN Nearest ELSE f[n - 1] \cup UNION {LinksOf(u) : u \in f[n - 1]}]

\* The recursion defines a function.
LEMMA WithinExists == \A m \in Nat : \E f : WithinUpTo(m, f)
<1> DEFINE T == {m \in Nat : ~ \E f : WithinUpTo(m, f)}
<1>1. SUFFICES ASSUME T # {} PROVE FALSE
  OBVIOUS
<1>2. PICK m \in T : \A k \in T : m <= k
  <2>1. T \subseteq Nat
    OBVIOUS
  <2> HIDE DEF T
  <2> QED
    BY <1>1, <2>1, LeastNat
<1>3. m \in Nat /\ ~ \E f : WithinUpTo(m, f)
  OBVIOUS
<1>4. CASE m = 0
  <2> DEFINE g == [n \in 0..0 |-> Nearest]
  <2>1. g = [n \in 0..0 |-> IF n = 0 THEN Nearest ELSE g[n - 1] \cup UNION {LinksOf(u) : u \in g[n - 1]}]
    OBVIOUS
  <2>2. WithinUpTo(0, g)
    BY <2>1 DEF WithinUpTo
  <2> QED
    BY <1>3, <1>4, <2>2
<1>5. CASE m # 0
  <2>1. m - 1 \in Nat /\ ~(m <= m - 1)
    BY <1>3, <1>5
  <2>2. PICK f : WithinUpTo(m - 1, f)
    BY <1>2, <2>1
  <2> DEFINE Grown(h, n) == h[n - 1] \cup UNION {LinksOf(u) : u \in h[n - 1]}
             g == [n \in 0..m |-> IF n = m THEN Grown(f, m) ELSE f[n]]
  <2>3. \A n \in 0..(m - 1) : f[n] = IF n = 0 THEN Nearest ELSE Grown(f, n)
    BY <2>2 DEF WithinUpTo
  <2>4. \A n \in 0..m : n # 0 => n - 1 \in 0..m /\ n - 1 # m
    BY <1>3
  <2>5. \A n \in 0..m : n # 0 => g[n - 1] = f[n - 1]
    BY <2>4
  <2>6. \A n \in 0..m : n # 0 => Grown(g, n) = Grown(f, n)
    BY <2>5
  <2>7. \A n \in 0..m : n # m => n \in 0..(m - 1)
    BY <1>3
  <2>8. \A n \in 0..m : g[n] = IF n = m THEN Grown(f, m) ELSE f[n]
    OBVIOUS
  <2>9. \A n \in 0..m : g[n] = IF n = 0 THEN Nearest ELSE Grown(g, n)
    <3> HIDE DEF g, Grown
    <3> QED
      BY <1>5, <2>3, <2>6, <2>7, <2>8
  <2>10. g = [n \in 0..m |-> g[n]]
    OBVIOUS
  <2>11. g = [n \in 0..m |-> IF n = 0 THEN Nearest ELSE Grown(g, n)]
    <3> HIDE DEF g, Grown
    <3> QED
      BY <2>9, <2>10
  <2>12. WithinUpTo(m, g)
    BY <2>11 DEF WithinUpTo
  <2> QED
    BY <1>3, <2>12
<1> QED
  BY <1>4, <1>5

LEMMA WithinSteps ==
    /\ Within[0] = Nearest
    /\ \A n \in 1..MaxDepth : Within[n] = Within[n - 1] \cup UNION {LinksOf(u) : u \in Within[n - 1]}
<1>1. MaxDepth \in Nat
  BY BoundAssumption
<1>2. \E f : WithinUpTo(MaxDepth, f)
  BY <1>1, WithinExists
<1>3. WithinUpTo(MaxDepth, Within)
  BY <1>2 DEF WithinUpTo, Within
<1>4. \A n \in 0..MaxDepth :
         Within[n] = IF n = 0 THEN Nearest ELSE Within[n - 1] \cup UNION {LinksOf(u) : u \in Within[n - 1]}
  BY <1>3 DEF WithinUpTo
<1>5. 0 \in 0..MaxDepth /\ \A n \in 1..MaxDepth : n \in 0..MaxDepth /\ n # 0
  BY <1>1
<1> HIDE DEF Within
<1> QED
  BY <1>4, <1>5

\* What holds the nearest pages and all links of its members holds everything.
LEMMA ClosedHoldsAll ==
    ASSUME NEW S, Nearest \subseteq S, \A u \in S : LinksOf(u) \subseteq S
    PROVE  \A n \in 0..MaxDepth : Within[n] \subseteq S
<1> DEFINE T == {m \in 0..MaxDepth : ~(Within[m] \subseteq S)}
<1>0. MaxDepth \in Nat
  BY BoundAssumption
<1>1. SUFFICES ASSUME T # {} PROVE FALSE
  OBVIOUS
<1>2. PICK m \in T : \A k \in T : m <= k
  <2>1. T \subseteq Nat
    OBVIOUS
  <2> HIDE DEF T
  <2> QED
    BY <1>1, <2>1, LeastNat
<1>3. m \in 0..MaxDepth /\ ~(Within[m] \subseteq S)
  OBVIOUS
<1>4. m # 0
  BY <1>3, WithinSteps
<1>5. m - 1 \in 0..MaxDepth /\ m \in 1..MaxDepth /\ ~(m <= m - 1)
  BY <1>0, <1>3, <1>4
<1>6. Within[m - 1] \subseteq S
  BY <1>2, <1>5
<1>7. Within[m] \subseteq S
  BY <1>5, <1>6, WithinSteps
<1> QED
  BY <1>3, <1>7

----------------------------------------------------------------------------
(* What is found, and the seeding. *)

LEMMA FoundInit == Init => FoundInv
BY DEF Init, FoundInv

LEMMA FoundFrame ==
    ASSUME FoundInv, UNCHANGED <<out, found, task>>, \A w \in Worker : wpc'[w] = "emit" => wpc[w] = "emit"
    PROVE  FoundInv'
BY DEF FoundInv

LEMMA FoundStep == TypeOK /\ FoundInv /\ [Next]_vars => FoundInv'
<1> SUFFICES ASSUME TypeOK, FoundInv, [Next]_vars PROVE FoundInv'
  OBVIOUS
<1> USE DEF mainVars, chanVars, workerVars, histVars, fileVars
<1>1. CASE Main
  <2>1. CASE Receive
    <3>1. /\ out # <<>> /\ out' = Tail(out) /\ UNCHANGED workerVars
      BY <2>1 DEF Receive
    <3>2. /\ Len(out') = Len(out) - 1 /\ Len(out) \in Nat \ {0}
          /\ \A i \in 1..Len(out') : i + 1 \in 1..Len(out) /\ out'[i] = out[i + 1]
      BY <3>1 DEF TypeOK
    <3> QED
      BY <3>1, <3>2 DEF FoundInv
  <2>2. CASE ~Receive
    <3>1. UNCHANGED <<out, found, task, wpc>>
      BY <1>1, <2>2 DEF Main, LookAtSeed, LookAtLink, LookAt, SendSeed, SendLink, SendTask, EndSeeding,
         ReturnEmpty, OutExhausted, WriteLine, SaveCheckpoint, DropLink, EndLinks, ReturnErr
    <3> QED
      BY <3>1, FoundFrame
  <2> QED
    BY <2>1, <2>2
<1>2. CASE CloseOut BY <1>2, FoundFrame DEF CloseOut
<1>3. ASSUME NEW w \in Worker, WorkerStep(w) PROVE FoundInv'
  <2>1. ASSUME NEW s, s # "emit", wpc' = [wpc EXCEPT ![w] = s], UNCHANGED <<out, found, task>>
        PROVE  FoundInv'
    BY <2>1, FoundFrame DEF TypeOK
  <2>2. CASE TakeTask(w)
    <3>1. /\ UNCHANGED <<out, found>> /\ wpc' = [wpc EXCEPT ![w] = "gate"]
          /\ task' = [task EXCEPT ![w] = Head(queue)]
      BY <2>2 DEF TakeTask, Goto
    <3>2. \A v \in Worker : wpc'[v] = "emit" => wpc[v] = "emit" /\ task'[v] = task[v]
      BY <3>1 DEF TypeOK
    <3> QED
      BY <3>1, <3>2 DEF FoundInv
  <2>3. CASE Fetched(w)
    <3>1. PICK links \in Pages[task[w].url] : found' = [found EXCEPT ![w] = links]
      BY <2>3 DEF Fetched
    <3>2. UNCHANGED <<out, task>> /\ wpc' = [wpc EXCEPT ![w] = "emit"]
      BY <2>3 DEF Fetched, Goto
    <3>3. \A v \in Worker : v # w => wpc'[v] = wpc[v] /\ found'[v] = found[v]
      BY <3>1, <3>2 DEF TypeOK
    <3>4. found'[w] \in Pages[task[w].url]
      BY <3>1 DEF TypeOK
    <3> QED
      BY <3>2, <3>3, <3>4 DEF FoundInv
  <2>4. CASE Emit(w)
    <3>1. /\ wpc[w] = "emit" /\ wpc' = [wpc EXCEPT ![w] = "idle"] /\ UNCHANGED <<found, task>>
          /\ out' = Append(out, [url |-> task[w].url, depth |-> task[w].depth, links |-> found[w]])
      BY <2>4 DEF Emit, Goto
    <3>2. /\ Len(out') = Len(out) + 1 /\ Len(out) \in Nat /\ \A i \in 1..Len(out) : out'[i] = out[i]
          /\ out'[Len(out) + 1].links = found[w] /\ out'[Len(out) + 1].url = task[w].url
      BY <3>1 DEF TypeOK
    <3>3. \A v \in Worker : wpc'[v] = "emit" => wpc[v] = "emit"
      BY <3>1 DEF TypeOK
    <3> QED
      BY <3>1, <3>2, <3>3 DEF FoundInv
  <2>5. CASE Quit(w) BY <2>1, <2>5 DEF Quit, Goto
  <2>6. CASE PassGate(w) BY <2>1, <2>6 DEF PassGate, LookAtPause, Goto
  <2>7. CASE PollAgain(w) BY <2>1, <2>7 DEF PollAgain, Goto
  <2>8. CASE QuitPaused(w) BY <2>1, <2>8 DEF QuitPaused, Goto
  <2>9. CASE StartFetch(w) BY <2>1, <2>9 DEF StartFetch, Goto
  <2>10. CASE OutOfBudget(w) BY <2>1, <2>10 DEF OutOfBudget, Goto
  <2>11. CASE DropResult(w) BY <2>1, <2>11 DEF DropResult, Goto
  <2> QED
    BY <1>3, <2>2, <2>3, <2>4, <2>5, <2>6, <2>7, <2>8, <2>9, <2>10, <2>11 DEF WorkerStep
<1>4. CASE Caller BY <1>4, FoundFrame DEF Caller, Pause, Resume, Cancel
<1>5. CASE Restart
  <2>1. out' = <<>> /\ \A w \in Worker : wpc'[w] # "emit"
    BY <1>5 DEF Restart
  <2> QED
    BY <2>1 DEF FoundInv
<1>6. CASE UNCHANGED vars BY <1>6, FoundFrame DEF vars
<1> QED
  BY <1>1, <1>2, <1>3, <1>4, <1>5, <1>6 DEF Next

\* What taking the head of a sequence and appending to it do to its elements.
LEMMA TakesHead ==
    ASSUME NEW S, NEW q \in Seq(S), q # <<>>
    PROVE  /\ Len(q) \in Nat \ {0} /\ Head(q) = q[1] /\ q[1] \in S /\ Len(Tail(q)) = Len(q) - 1
           /\ \A i \in 1..Len(Tail(q)) : i + 1 \in 1..Len(q) /\ Tail(q)[i] = q[i + 1]
           /\ {q[i] : i \in 1..Len(q)} = {q[1]} \cup {Tail(q)[i] : i \in 1..Len(Tail(q))}
<1>1. /\ Len(q) \in Nat \ {0} /\ Head(q) = q[1] /\ q[1] \in S /\ Len(Tail(q)) = Len(q) - 1
      /\ \A i \in 1..Len(Tail(q)) : i + 1 \in 1..Len(q) /\ Tail(q)[i] = q[i + 1]
  OBVIOUS
<1>2. \A i \in 1..Len(q) : i = 1 \/ (i - 1 \in 1..Len(Tail(q)) /\ q[i] = Tail(q)[i - 1])
  BY <1>1
<1>3. 1 \in 1..Len(q)
  BY <1>1
<1>4. {q[i] : i \in 1..Len(q)} \subseteq {q[1]} \cup {Tail(q)[i] : i \in 1..Len(Tail(q))}
  BY <1>2
<1>5. {q[1]} \cup {Tail(q)[i] : i \in 1..Len(Tail(q))} \subseteq {q[i] : i \in 1..Len(q)}
  BY <1>1, <1>3
<1> QED
  BY <1>1, <1>4, <1>5

LEMMA Appends ==
    ASSUME NEW S, NEW q \in Seq(S), NEW x
    PROVE  /\ Len(q) \in Nat /\ Len(Append(q, x)) = Len(q) + 1 /\ Append(q, x)[Len(q) + 1] = x
           /\ \A i \in 1..Len(q) : Append(q, x)[i] = q[i]
           /\ {Append(q, x)[i] : i \in 1..Len(Append(q, x))} = {q[i] : i \in 1..Len(q)} \cup {x}
<1>1. /\ Len(q) \in Nat /\ Len(Append(q, x)) = Len(q) + 1 /\ Append(q, x)[Len(q) + 1] = x
      /\ \A i \in 1..Len(q) : Append(q, x)[i] = q[i]
  OBVIOUS
<1>2. Len(q) + 1 \in 1..Len(Append(q, x)) /\ \A i \in 1..Len(q) : i \in 1..Len(Append(q, x))
  BY <1>1
<1>3. \A i \in 1..Len(Append(q, x)) : i \in 1..Len(q) \/ i = Len(q) + 1
  BY <1>1
<1> HIDE <1>2
<1>4. {Append(q, x)[i] : i \in 1..Len(Append(q, x))} \subseteq {q[i] : i \in 1..Len(q)} \cup {x}
  BY <1>1, <1>3
<1>5. {q[i] : i \in 1..Len(q)} \cup {x} \subseteq {Append(q, x)[i] : i \in 1..Len(Append(q, x))}
  BY <1>1, <1>2
<1> QED
  BY <1>1, <1>4, <1>5

\* A turn of Run's loops takes the head off what is left.
LEMMA TodoSplit ==
    ASSUME TypeOK, todo # <<>>
    PROVE  /\ Head(todo) \in URL
           /\ Todo = {Head(todo)} \cup {Tail(todo)[i] : i \in 1..Len(Tail(todo))}
<1>1. todo \in Seq(URL)
  BY DEF TypeOK
<1> QED
  BY <1>1, TakesHead DEF Todo

LEMMA NoTodo == todo = <<>> => Todo = {}
BY DEF Todo

LEMMA SeedInit == Init => SeedInv
BY DEF Init, SeedInv, Nearest, Todo

LEMMA SeedFrame ==
    ASSUME SeedInv, UNCHANGED <<restored, seen, restarts>>, mpc \notin {"seed", "seedSend"}, ~Seeding' \/ UNCHANGED <<mpc, level, inFlight>>
    PROVE  SeedInv'
BY DEF SeedInv, Seeding

LEMMA SeedStep == TypeOK /\ InFlightExact /\ SeedInv /\ [Next]_vars => SeedInv'
<1> SUFFICES ASSUME TypeOK, InFlightExact, SeedInv, [Next]_vars PROVE SeedInv'
  OBVIOUS
<1> USE DEF mainVars, chanVars, workerVars, histVars, fileVars
<1>0. ASSUME UNCHANGED <<restored, seen, restarts, mpc, level, inFlight, todo>> PROVE SeedInv'
  BY <1>0 DEF SeedInv, Seeding, Todo
<1>1. CASE Main
  <2>1. CASE LookAtSeed
    <3>1. /\ mpc = "seed" /\ todo # <<>> /\ todo' = Tail(todo) /\ UNCHANGED <<restored, restarts, level, inFlight>>
          /\ \/ mpc' = "seedSend" /\ seen' = seen \cup {Head(todo)}
             \/ mpc' = mpc /\ seen' = seen /\ ~Eligible(Head(todo))
      BY <2>1 DEF LookAtSeed, LookAt
    <3>2. Todo = {Head(todo)} \cup Todo'
      BY <3>1, TodoSplit DEF Todo
    <3>3. ASSUME restarts = 0 PROVE Nearest \subseteq seen' \cup Todo'
      <4>1. level = 0 /\ Nearest \subseteq seen \cup Todo
        BY <1>1, <3>1, <3>3 DEF SeedInv, Seeding
      <4>2. Head(todo) \in seen' \/ Head(todo) \notin Nearest
        BY <3>1, <4>1, BoundAssumption DEF Eligible, Nearest
      <4> QED
        BY <3>1, <3>2, <4>1, <4>2
    <3> QED
      BY <3>1, <3>3 DEF SeedInv, Seeding
  <2>2. CASE SendSeed
    <3>1. /\ mpc = "seedSend" /\ mpc' = "seed" /\ inFlight' = inFlight + 1
          /\ UNCHANGED <<restored, seen, restarts, level, todo>>
      BY <2>2 DEF SendSeed, SendTask
    <3>2. inFlight \in Nat
      BY BusyFinite DEF InFlightExact, TypeOK
    <3>3. inFlight' # 0
      BY <3>1, <3>2
    <3> QED
      BY <3>1, <3>3 DEF SeedInv, Seeding, Todo
  <2>3. CASE EndSeeding
    <3>1. /\ mpc = "seed" /\ todo = <<>> /\ UNCHANGED <<restored, seen, restarts, level, inFlight>>
          /\ mpc' \in {"drain", "recv"}
      BY <2>3 DEF EndSeeding
    <3> QED
      BY <3>1, NoTodo DEF SeedInv, Seeding
  <2>4. CASE Receive BY <2>4, SeedFrame DEF Receive, Seeding
  <2>5. CASE LookAtLink
    <3>1. /\ mpc = "links" /\ mpc' \in {"links", "send"} /\ UNCHANGED <<restored, restarts>> /\ seen \subseteq seen'
      BY <2>5 DEF LookAtLink, LookAt
    <3> QED
      BY <3>1 DEF SeedInv, Seeding
  <2>6. CASE SendLink BY <2>6, SeedFrame DEF SendLink, SendTask, Seeding
  <2>7. CASE ReturnEmpty \/ OutExhausted \/ WriteLine \/ SaveCheckpoint \/ DropLink \/ EndLinks \/ ReturnErr
    BY <2>7, SeedFrame DEF ReturnEmpty, OutExhausted, WriteLine, SaveCheckpoint, DropLink, EndLinks, ReturnErr, Seeding
  <2> QED
    BY <1>1, <2>1, <2>2, <2>3, <2>4, <2>5, <2>6, <2>7 DEF Main
<1>2. CASE CloseOut BY <1>0, <1>2 DEF CloseOut
<1>3. CASE \E w \in Worker : WorkerStep(w)
  BY <1>0, <1>3
  DEF WorkerStep, TakeTask, Quit, PassGate, PollAgain, QuitPaused, StartFetch, OutOfBudget, Fetched, Emit, DropResult
<1>4. CASE Caller BY <1>0, <1>4 DEF Caller, Pause, Resume, Cancel
<1>5. CASE Restart
  <2>1. restarts' # 0
    BY <1>5 DEF Restart, TypeOK
  <2> QED
    BY <2>1 DEF SeedInv
<1>6. CASE UNCHANGED vars BY <1>0, <1>6 DEF vars
<1> QED
  BY <1>1, <1>2, <1>3, <1>4, <1>5, <1>6 DEF Next

----------------------------------------------------------------------------
(* Breadth-first order is kept. *)

LEMMA WaitingTypes == TypeOK => Waiting \subseteq Task /\ level \in Nat
<1> SUFFICES ASSUME TypeOK PROVE Waiting \subseteq Task /\ level \in Nat
  OBVIOUS
<1>1. /\ queue \in Seq(Task) /\ out \in Seq(Result) /\ task \in [Worker -> Task]
      /\ pend \in URL /\ level \in Nat
  BY DEF TypeOK
<1>2. /\ \A i \in 1..Len(queue) : queue[i] \in Task
      /\ \A i \in 1..Len(out) : out[i].url \in URL /\ out[i].depth \in Nat
  <2>1. \A i \in 1..Len(out) : out[i] \in Result
    BY <1>1
  <2>2. \A r \in Result : r.url \in URL /\ r.depth \in Nat
    BY DEF Result
  <2> QED
    BY <1>1, <2>1, <2>2
<1>3. BusyWorkers \subseteq Worker
  BY DEF BusyWorkers
<1> QED
  BY <1>1, <1>2, <1>3 DEF Waiting, Task

\* A step that lets every task go on, and reads no new page, keeps everything.
LEMMA BreadthMoves ==
    ASSUME BreadthInv, Intact' => Intact, Intact /\ Intact' => OrderInv' /\ Waiting' = Waiting,
           UNCHANGED <<seen, level>>, mpc' \in Sending => mpc \in Sending,
           level <= MaxDepth => \A u : BeingRead(u) => BeingRead(u)' \/ LinksOf(u) \subseteq seen
    PROVE  BreadthInv'
<1> SUFFICES ASSUME Intact' PROVE OrderInv' /\ LevelInv' /\ SpreadInv' /\ ReachInv'
  BY DEF BreadthInv
<1>1. Waiting' = Waiting /\ OrderInv' /\ LevelInv /\ SpreadInv /\ ReachInv
  BY DEF BreadthInv
<1> HIDE DEF Waiting
<1>2. LevelInv'
  BY <1>1 DEF LevelInv
<1>3. SpreadInv'
  BY <1>1 DEF SpreadInv
<1>4. ReachInv'
  BY <1>1 DEF ReachInv
<1> QED
  BY <1>1, <1>2, <1>3, <1>4

LEMMA BreadthFrame ==
    ASSUME BreadthInv, Intact' => Intact, UNCHANGED <<queue, out, task, level, seen, pend>>,
           BusyWorkers' = BusyWorkers, mpc' \in Sending <=> mpc \in Sending,
           level <= MaxDepth => \A u : BeingRead(u) => BeingRead(u)' \/ LinksOf(u) \subseteq seen
    PROVE  BreadthInv'
<1>1. Waiting' = Waiting
  BY DEF Waiting
<1>2. OrderInv => OrderInv'
  BY DEF OrderInv
<1> QED
  BY <1>1, <1>2, BreadthMoves DEF BreadthInv

LEMMA BreadthOver == ~Intact' => BreadthInv'
BY DEF BreadthInv

LEMMA BreadthLookAt ==
    ASSUME TypeOK, BreadthInv, NEW here, NEW sending,
           <<here, sending>> \in {<<"seed", "seedSend">>, <<"links", "send">>},
           LookAt(here, sending)
    PROVE  BreadthInv'
<1> USE DEF mainVars, chanVars, workerVars, histVars, fileVars
<1> DEFINE u == Head(todo)
<1>1. /\ mpc = here /\ todo # <<>> /\ todo' = Tail(todo)
      /\ UNCHANGED <<level, page, queue, out, task, wpc, cancelled, restarts>>
  BY DEF LookAt
<1>2. u \in URL /\ Todo = {u} \cup Todo'
  BY <1>1, TodoSplit DEF Todo
<1>3. BusyWorkers' = BusyWorkers
  BY <1>1 DEF BusyWorkers
<1>4. here \notin Sending /\ sending \in Sending /\ here \notin {"close", "done"} /\ sending \notin {"close", "done"}
  BY DEF Sending
<1>5. CASE Eligible(u)
  <2>1. mpc' = sending /\ pend' = u /\ seen' = seen \cup {u} /\ u \notin seen /\ level <= MaxDepth
    BY <1>5 DEF LookAt, Eligible
  <2> DEFINE t == [url |-> u, depth |-> level]
  <2>2. Waiting' = Waiting \cup {t}
    BY <1>1, <1>3, <1>4, <2>1 DEF Waiting
  <2> SUFFICES ASSUME Intact' PROVE OrderInv' /\ LevelInv' /\ SpreadInv' /\ ReachInv'
    BY DEF BreadthInv
  <2>3. Intact
    BY <1>1, <1>4, <2>1 DEF Intact, Ending
  <2>4. OrderInv /\ LevelInv /\ SpreadInv /\ ReachInv
    BY <2>3 DEF BreadthInv
  <2>5. level \in Nat
    BY DEF TypeOK
  <2>6. OrderInv'
    BY <1>1, <1>3, <2>4 DEF OrderInv
  <2> HIDE DEF u
  <2>7. LevelInv'
    BY <1>1, <2>1, <2>2, <2>4, <2>5 DEF LevelInv
  <2>8. SpreadInv'
    <3> SUFFICES ASSUME NEW x \in seen'
                 PROVE  \/ LinksOf(x) \subseteq seen'
                        \/ \E y \in Waiting' : y.url = x
                        \/ BeingRead(x)'
      BY DEF SpreadInv
    <3>1. CASE x = u
      <4>1. t \in Waiting' /\ t.url = u
        BY <2>2
      <4> QED
        BY <3>1, <4>1
    <3>2. CASE BeingRead(x)
      <4>1. mpc' \in {"write", "save", "links", "send"} /\ page' = x
        BY <1>1, <2>1, <3>2 DEF BeingRead
      <4>2. LinksOf(x) \subseteq seen' \cup Todo'
        BY <1>2, <2>1, <3>2 DEF BeingRead
      <4> QED
        BY <4>1, <4>2 DEF BeingRead
    <3>3. CASE x # u /\ ~BeingRead(x)
      <4>1. x \in seen
        BY <2>1, <3>3
      <4>2. LinksOf(x) \subseteq seen \/ \E y \in Waiting : y.url = x
        BY <2>1, <2>4, <3>3, <4>1 DEF SpreadInv
      <4> QED
        BY <2>1, <2>2, <4>2
    <3> QED
      BY <3>1, <3>2, <3>3
  <2>9. ReachInv'
    <3> SUFFICES ASSUME level > 0
                 PROVE  /\ Within[level - 1] \subseteq seen'
                        /\ \A y \in Waiting' : y.depth = level => y.url \notin Within[level - 1]
      BY <1>1 DEF ReachInv
    <3>1. Within[level - 1] \subseteq seen
      BY <2>4 DEF ReachInv
    <3>2. u \notin Within[level - 1]
      BY <2>1, <3>1
    <3> HIDE DEF Within
    <3> QED
      BY <2>1, <2>2, <2>4, <3>1, <3>2 DEF ReachInv
  <2> QED
    BY <2>6, <2>7, <2>8, <2>9
<1>6. CASE ~Eligible(u)
  <2>1. UNCHANGED <<mpc, pend, seen>>
    BY <1>6 DEF LookAt
  <2>2. ASSUME level <= MaxDepth, NEW x, BeingRead(x) PROVE BeingRead(x)'
    <3>1. u \in seen \/ u \notin LinksOf(x)
      BY <1>6, <2>2 DEF Eligible, LinksOf
    <3>2. LinksOf(x) \subseteq seen \cup Todo'
      BY <1>2, <2>2, <3>1 DEF BeingRead
    <3> QED
      BY <1>1, <2>1, <2>2, <3>2 DEF BeingRead
  <2>3. Intact' => Intact
    BY <1>1, <2>1 DEF Intact, Ending
  <2> QED
    BY <1>1, <1>3, <2>1, <2>2, <2>3, BreadthFrame
<1> QED
  BY <1>5, <1>6

LEMMA BreadthSend ==
    ASSUME TypeOK, BreadthInv, NEW here, NEW back,
           <<here, back>> \in {<<"seedSend", "seed">>, <<"send", "links">>},
           SendTask(here, back)
    PROVE  BreadthInv'
<1> USE DEF workerVars, fileVars, histVars
<1> DEFINE t == [url |-> pend, depth |-> level]
<1>1. /\ mpc = here /\ mpc' = back /\ queue' = Append(queue, t)
      /\ UNCHANGED <<todo, level, page, out, task, wpc, cancelled, restarts, seen>>
  BY DEF SendTask, Enqueue
<1>2. BusyWorkers' = BusyWorkers
  BY <1>1 DEF BusyWorkers
<1>3. /\ mpc \in Sending /\ mpc' \notin Sending /\ ~Ending /\ ~Ending'
      /\ mpc = "send" => mpc' = "links"
  BY <1>1 DEF Sending, Ending
<1>4. Intact' => Intact
  BY <1>1, <1>3 DEF Intact
<1>5. queue \in Seq(Task)
  BY DEF TypeOK
<1>6. Waiting' = Waiting
  BY <1>1, <1>2, <1>3, <1>5, Appends DEF Waiting
<1>7. ASSUME Intact PROVE OrderInv'
  <2>1. OrderInv /\ \A y \in Waiting : y.depth <= level
    BY <1>7, WaitingTypes DEF BreadthInv, LevelInv
  <2>2. /\ \A j \in 1..Len(queue) : queue[j].depth <= level
        /\ \A w \in BusyWorkers : task[w].depth <= level
        /\ \A j \in 1..Len(out) : out[j].depth <= level
    <3>1. \A j \in 1..Len(queue) : queue[j] \in Waiting
      BY DEF Waiting
    <3>2. \A w \in BusyWorkers : task[w] \in Waiting
      BY DEF Waiting
    <3>3. \A j \in 1..Len(out) : [url |-> out[j].url, depth |-> out[j].depth] \in Waiting
      BY DEF Waiting
    <3> QED
      BY <2>1, <3>1, <3>2, <3>3
  <2>3. /\ Len(queue) \in Nat /\ Len(queue') = Len(queue) + 1 /\ queue'[Len(queue) + 1].depth = level
        /\ \A j \in 1..Len(queue) : queue'[j] = queue[j]
    BY <1>1, <1>5, Appends
  <2>4. level <= level
    BY DEF TypeOK
  <2>5. \A i, j \in 1..Len(queue') : i <= j => queue'[i].depth <= queue'[j].depth
    BY <2>1, <2>2, <2>3, <2>4 DEF OrderInv
  <2>6. \A i \in 1..Len(out), j \in 1..Len(queue') : out[i].depth <= queue'[j].depth
    BY <2>1, <2>2, <2>3 DEF OrderInv
  <2>7. \A w \in BusyWorkers, j \in 1..Len(queue') : task[w].depth <= queue'[j].depth
    BY <2>1, <2>2, <2>3 DEF OrderInv
  <2> QED
    BY <1>1, <1>2, <2>1, <2>5, <2>6, <2>7 DEF OrderInv
<1>8. \A u : BeingRead(u) => BeingRead(u)'
  BY <1>1, <1>3 DEF BeingRead, Todo
<1> QED
  BY <1>1, <1>3, <1>4, <1>6, <1>7, <1>8, BreadthMoves

LEMMA BreadthTake ==
    ASSUME OneWorker, TypeOK, BreadthInv, NEW w \in Worker, TakeTask(w)
    PROVE  BreadthInv'
<1> USE DEF mainVars, fileVars, histVars
<1>1. /\ UNCHANGED <<mpc, todo, level, pend, page, out, cancelled, restarts, seen>>
      /\ wpc[w] = "idle" /\ wpc' = [wpc EXCEPT ![w] = "gate"]
      /\ task' = [task EXCEPT ![w] = Head(queue)] /\ queue # <<>> /\ queue' = Tail(queue)
  BY DEF TakeTask, Goto
<1>2. queue \in Seq(Task)
  BY DEF TypeOK
<1>3. /\ Len(queue) \in Nat \ {0} /\ Head(queue) = queue[1] /\ Len(queue') = Len(queue) - 1
      /\ \A i \in 1..Len(queue') : i + 1 \in 1..Len(queue) /\ queue'[i] = queue[i + 1]
      /\ {queue[i] : i \in 1..Len(queue)} = {queue[1]} \cup {queue'[i] : i \in 1..Len(queue')}
  <2>1. /\ Len(queue) \in Nat \ {0} /\ Head(queue) = queue[1] /\ Len(Tail(queue)) = Len(queue) - 1
        /\ \A i \in 1..Len(Tail(queue)) : i + 1 \in 1..Len(queue) /\ Tail(queue)[i] = queue[i + 1]
        /\ {queue[i] : i \in 1..Len(queue)} = {queue[1]} \cup {Tail(queue)[i] : i \in 1..Len(Tail(queue))}
    BY <1>1, <1>2, TakesHead
  <2>2. queue' = Tail(queue)
    BY <1>1
  <2> QED
    BY ONLY <2>1, <2>2
<1>4. BusyWorkers = {} /\ BusyWorkers' = {w}
  BY <1>1 DEF BusyWorkers, Busy, OneWorker, TypeOK
<1>5. task'[w] = queue[1]
  BY <1>1, <1>3 DEF TypeOK
<1>6. {task'[v] : v \in BusyWorkers'} = {queue[1]} /\ {task[v] : v \in BusyWorkers} = {}
  BY <1>4, <1>5
<1>7. Waiting' = Waiting
  <2>1. {queue[i] : i \in 1..Len(queue)} = {queue[1]} \cup {queue'[i] : i \in 1..Len(queue')}
    BY <1>3
  <2>2. UNCHANGED <<mpc, pend, level, out>>
    BY <1>1
  <2> QED
    BY ONLY <1>6, <2>1, <2>2 DEF Waiting
<1>8. ASSUME OrderInv PROVE OrderInv'
  <2>1. 1 \in 1..Len(queue) /\ \A i \in 1..Len(queue') : 1 <= i + 1
    BY <1>3
  <2>2. \A i, j \in 1..Len(queue') : i <= j => queue'[i].depth <= queue'[j].depth
    <3> SUFFICES ASSUME NEW i \in 1..Len(queue'), NEW j \in 1..Len(queue'), i <= j
                 PROVE  queue'[i].depth <= queue'[j].depth
      OBVIOUS
    <3>1. i + 1 \in 1..Len(queue) /\ j + 1 \in 1..Len(queue) /\ i + 1 <= j + 1
      BY <1>3
    <3> QED
      BY <1>3, <1>8, <3>1 DEF OrderInv
  <2>3. \A i \in 1..Len(out), j \in 1..Len(queue') : out[i].depth <= queue'[j].depth
    BY <1>3, <1>8 DEF OrderInv
  <2>4. \A i \in 1..Len(out) : out[i].depth <= task'[w].depth
    BY <1>5, <1>8, <2>1 DEF OrderInv
  <2>5. \A j \in 1..Len(queue') : task'[w].depth <= queue'[j].depth
    BY <1>3, <1>5, <1>8, <2>1 DEF OrderInv
  <2> QED
    BY <1>1, <1>4, <1>8, <2>2, <2>3, <2>4, <2>5 DEF OrderInv
<1>9. \A u : BeingRead(u) => BeingRead(u)'
  BY <1>1 DEF BeingRead, Todo
<1>10. Intact' <=> Intact
  BY <1>1 DEF Intact, Ending
<1> QED
  BY <1>1, <1>7, <1>8, <1>9, <1>10, BreadthMoves DEF BreadthInv

LEMMA BreadthEmit ==
    ASSUME OneWorker, TypeOK, BreadthInv, NEW w \in Worker, Emit(w)
    PROVE  BreadthInv'
<1> USE DEF mainVars, fileVars, histVars
<1> DEFINE res == [url |-> task[w].url, depth |-> task[w].depth, links |-> found[w]]
           OutTask(r) == [url |-> r.url, depth |-> r.depth]
<1>1. /\ UNCHANGED <<mpc, todo, level, pend, page, queue, task, cancelled, restarts, seen>>
      /\ wpc[w] = "emit" /\ wpc' = [wpc EXCEPT ![w] = "idle"] /\ out' = Append(out, res)
  BY DEF Emit, Goto
<1>2. /\ Len(out) \in Nat /\ Len(out') = Len(out) + 1 /\ out'[Len(out) + 1] = res
      /\ \A i \in 1..Len(out) : out'[i] = out[i]
  <2>1. out \in Seq(Result)
    BY DEF TypeOK
  <2> QED
    BY <1>1, <2>1, Appends
<1>3. BusyWorkers = {w} /\ BusyWorkers' = {}
  BY <1>1 DEF BusyWorkers, Busy, OneWorker, TypeOK
<1>4. OutTask(res) = task[w]
  <2>1. task[w] \in Task
    BY DEF TypeOK
  <2> QED
    BY <2>1 DEF Task
<1>5. {OutTask(out'[i]) : i \in 1..Len(out')} = {OutTask(out[i]) : i \in 1..Len(out)} \cup {task[w]}
  <2>1. \A i \in 1..Len(out') : i \in 1..Len(out) \/ i = Len(out) + 1
    BY <1>2
  <2>2. Len(out) + 1 \in 1..Len(out') /\ \A i \in 1..Len(out) : i \in 1..Len(out')
    BY <1>2
  <2>3. \A i \in 1..Len(out) : OutTask(out'[i]) = OutTask(out[i])
    BY <1>2
  <2>4. OutTask(out'[Len(out) + 1]) = task[w]
    BY <1>2, <1>4
  <2> HIDE DEF OutTask, res
  <2>5. {OutTask(out'[i]) : i \in 1..Len(out')} \subseteq {OutTask(out[i]) : i \in 1..Len(out)} \cup {task[w]}
    BY <2>1, <2>3, <2>4
  <2>6. {OutTask(out[i]) : i \in 1..Len(out)} \cup {task[w]} \subseteq {OutTask(out'[i]) : i \in 1..Len(out')}
    BY <2>2, <2>3, <2>4
  <2> QED
    BY <2>5, <2>6
<1>6. {task'[v] : v \in BusyWorkers'} = {} /\ {task[v] : v \in BusyWorkers} = {task[w]}
  BY <1>3
<1>7. Waiting' = Waiting
  BY <1>1, <1>5, <1>6 DEF Waiting
<1>8. ASSUME OrderInv PROVE OrderInv'
  <2>1. out'[Len(out) + 1].depth = task[w].depth /\ task[w].depth <= task[w].depth
    BY <1>2 DEF TypeOK, Task
  <2>2. /\ \A i \in 1..Len(out) : out[i].depth <= task[w].depth
        /\ \A j \in 1..Len(queue) : task[w].depth <= queue[j].depth
    BY <1>3, <1>8 DEF OrderInv
  <2>3. \A i, j \in 1..Len(out') : i <= j => out'[i].depth <= out'[j].depth
    <3> HIDE DEF res
    <3> QED
      BY <1>2, <1>8, <2>1, <2>2 DEF OrderInv
  <2>4. \A i \in 1..Len(out'), j \in 1..Len(queue) : out'[i].depth <= queue[j].depth
    <3> HIDE DEF res
    <3> QED
      BY <1>2, <1>8, <2>1, <2>2 DEF OrderInv
  <2> QED
    BY <1>1, <1>3, <1>8, <2>3, <2>4 DEF OrderInv
<1>9. \A u : BeingRead(u) => BeingRead(u)'
  BY <1>1 DEF BeingRead, Todo
<1>10. Intact' <=> Intact
  BY <1>1 DEF Intact, Ending
<1> QED
  BY <1>1, <1>7, <1>8, <1>9, <1>10, BreadthMoves DEF BreadthInv

\* Reading the next page may begin the next level: then no task of the level
\* before is on its way, so all its links are seen.
LEMMA BreadthReceive ==
    ASSUME SamePages, TypeOK, FoundInv, SeedInv, BreadthInv, Receive
    PROVE  BreadthInv'
<1> USE DEF workerVars, fileVars, histVars
<1> DEFINE res == out[1]
           OutTask(r) == [url |-> r.url, depth |-> r.depth]
           t == OutTask(res)
<1>1. /\ mpc = "recv" /\ mpc' = "write" /\ out # <<>> /\ out' = Tail(out)
      /\ page' = res.url /\ todo' = res.links /\ level' = res.depth + 1
      /\ UNCHANGED <<queue, task, wpc, cancelled, restarts, seen>>
  BY DEF Receive, TypeOK
<1>2. /\ Len(out) \in Nat \ {0} /\ res \in Result /\ Len(out') = Len(out) - 1
      /\ \A i \in 1..Len(out') : i + 1 \in 1..Len(out) /\ out'[i] = out[i + 1]
  <2>1. out \in Seq(Result)
    BY DEF TypeOK
  <2> QED
    BY <1>1, <2>1, TakesHead
<1>3. 1 \in 1..Len(out) /\ res.url \in URL /\ res.depth \in Nat /\ level \in Nat
  BY <1>2 DEF Result, TypeOK
<1>4. BusyWorkers' = BusyWorkers
  BY <1>1 DEF BusyWorkers
<1>5. mpc \notin Sending /\ mpc' \notin Sending /\ ~Ending /\ ~Seeding
  BY <1>1 DEF Sending, Ending, Seeding
<1>6. t \in Waiting /\ Waiting' \subseteq Waiting /\ Waiting \subseteq Waiting' \cup {t}
  <2>1. \A i \in 1..Len(out) : i = 1 \/ (i - 1 \in 1..Len(out') /\ out[i] = out'[i - 1])
    BY <1>2
  <2>2. \A i \in 1..Len(out) : i # 1 => OutTask(out[i]) \in {OutTask(out'[j]) : j \in 1..Len(out')}
    BY <2>1
  <2>3. {OutTask(out'[i]) : i \in 1..Len(out')} \subseteq {OutTask(out[i]) : i \in 1..Len(out)}
    BY <1>2
  <2>4. {OutTask(out[i]) : i \in 1..Len(out)} \subseteq {OutTask(out'[i]) : i \in 1..Len(out')} \cup {t}
    BY <2>2
  <2>5. t \in {OutTask(out[i]) : i \in 1..Len(out)}
    BY <1>3
  <2> QED
    BY <1>1, <1>4, <1>5, <2>3, <2>4, <2>5 DEF Waiting
<1> SUFFICES ASSUME Intact' PROVE OrderInv' /\ LevelInv' /\ SpreadInv' /\ ReachInv'
  BY DEF BreadthInv
<1>7. Intact /\ restarts = 0
  BY <1>1, <1>5 DEF Intact
<1>8. OrderInv /\ LevelInv /\ SpreadInv /\ ReachInv
  BY <1>7 DEF BreadthInv
<1>9. \A y \in Waiting : y \in Task /\ y.depth \in Nat /\ res.depth <= y.depth
  <2>1. \A j \in 1..Len(queue) : res.depth <= queue[j].depth
    BY <1>3, <1>8 DEF OrderInv
  <2>2. \A w \in BusyWorkers : res.depth <= task[w].depth
    BY <1>3, <1>8 DEF OrderInv
  <2>3. \A i \in 1..Len(out) : res.depth <= out[i].depth
    BY <1>2, <1>3, <1>8 DEF OrderInv
  <2>4. \A y \in Waiting : res.depth <= y.depth
    BY <1>5, <2>1, <2>2, <2>3 DEF Waiting
  <2>5. \A y \in Waiting : y \in Task
    BY WaitingTypes
  <2> QED
    BY <2>4, <2>5 DEF Task
<1>10. /\ t.url = res.url /\ t.depth = res.depth
       /\ res.depth \in {level - 1, level} /\ res.depth <= MaxDepth
  BY <1>6, <1>8 DEF LevelInv
<1>11. level' \in Nat /\ level' \in {level, level + 1} /\ MaxDepth \in Nat
  BY <1>1, <1>3, <1>10, BoundAssumption
<1> HIDE DEF res, t, Waiting
<1>12. OrderInv'
  <2>1. \A i, j \in 1..Len(out') : i <= j => out'[i].depth <= out'[j].depth
    <3> SUFFICES ASSUME NEW i \in 1..Len(out'), NEW j \in 1..Len(out'), i <= j
                 PROVE  out'[i].depth <= out'[j].depth
      OBVIOUS
    <3>1. i + 1 \in 1..Len(out) /\ j + 1 \in 1..Len(out) /\ i + 1 <= j + 1
      BY <1>2
    <3> QED
      BY <1>2, <1>8, <3>1 DEF OrderInv
  <2>2. \A i \in 1..Len(out'), j \in 1..Len(queue) : out'[i].depth <= queue[j].depth
    BY <1>2, <1>8 DEF OrderInv
  <2>3. \A w \in BusyWorkers, i \in 1..Len(out') : out'[i].depth <= task[w].depth
    BY <1>2, <1>8 DEF OrderInv
  <2> QED
    BY <1>1, <1>4, <1>8, <2>1, <2>2, <2>3 DEF OrderInv
<1>13. LevelInv'
  <2>1. \A y \in Waiting : y.depth \in {level' - 1, level'} /\ y.depth <= MaxDepth
    <3> SUFFICES ASSUME NEW y \in Waiting
                 PROVE  y.depth \in {level' - 1, level'} /\ y.depth <= MaxDepth
      OBVIOUS
    <3>1. /\ y.depth \in Nat /\ y.depth \in {level - 1, level} /\ y.depth <= MaxDepth
          /\ level' - 1 <= y.depth
      BY <1>1, <1>3, <1>8, <1>9 DEF LevelInv
    <3> QED
      BY <1>3, <1>11, <3>1
  <2>2. level' <= MaxDepth + 1
    BY <1>1, <1>3, <1>10, <1>11
  <2> QED
    BY <1>5, <1>6, <2>1, <2>2 DEF LevelInv
<1>14. \A x : ~BeingRead(x)
  BY <1>1 DEF BeingRead
<1>15. SpreadInv'
  <2> SUFFICES ASSUME level' <= MaxDepth, NEW x \in seen
               PROVE  \/ LinksOf(x) \subseteq seen'
                      \/ \E y \in Waiting' : y.url = x
                      \/ BeingRead(x)'
    BY <1>1 DEF SpreadInv
  <2>1. level <= MaxDepth
    BY <1>3, <1>11
  <2>2. LinksOf(x) \subseteq seen \/ \E y \in Waiting : y.url = x
    BY <1>8, <1>14, <2>1 DEF SpreadInv
  <2>3. CASE x = res.url
    <3>1. res.links \in Pages[x]
      BY <1>3, <2>3 DEF FoundInv, res
    <3>2. \A links \in Pages[x] : links = res.links
      BY <1>3, <2>3, <3>1 DEF SamePages
    <3>3. LinksOf(x) \subseteq Todo'
      BY <1>1, <3>2 DEF LinksOf, Todo
    <3> QED
      BY <1>1, <2>3, <3>3 DEF BeingRead
  <2>4. CASE x # res.url
    BY <1>1, <1>6, <1>10, <2>2, <2>4
  <2> QED
    BY <2>3, <2>4
<1>16. ReachInv'
  <2>1. CASE level' = level
    BY <1>1, <1>6, <1>8, <2>1 DEF ReachInv
  <2>2. CASE level' = level + 1
    <3>1. res.depth = level /\ level <= MaxDepth
      BY <1>1, <1>3, <1>10, <2>2
    <3>2. \A y \in Waiting : y.depth = level
      <4> SUFFICES ASSUME NEW y \in Waiting PROVE y.depth = level
        OBVIOUS
      <4>1. y.depth \in {level - 1, level} /\ level <= y.depth
        BY <1>8, <1>9, <3>1 DEF LevelInv
      <4> QED
        BY <1>3, <4>1
    <3>3. Within[level] \subseteq seen
      <4>1. CASE level = 0
        BY <1>5, <1>7, <1>1, <4>1, WithinSteps DEF SeedInv
      <4>2. CASE level # 0
        <5>1. level > 0 /\ level \in 1..MaxDepth
          BY <1>3, <1>11, <3>1, <4>2
        <5>2. /\ Within[level - 1] \subseteq seen
              /\ \A y \in Waiting : y.url \notin Within[level - 1]
          BY <1>8, <3>2, <5>1 DEF ReachInv
        <5>3. \A u \in Within[level - 1] : LinksOf(u) \subseteq seen
          BY <1>8, <1>14, <3>1, <5>2 DEF SpreadInv
        <5>4. Within[level] = Within[level - 1] \cup UNION {LinksOf(u) : u \in Within[level - 1]}
          BY <5>1, WithinSteps
        <5> HIDE DEF Within
        <5> QED
          BY <5>2, <5>3, <5>4
      <4> QED
        BY <4>1, <4>2
    <3>4. \A y \in Waiting' : y.depth # level'
      BY <1>3, <1>6, <2>2, <3>2
    <3>5. level' - 1 = level
      BY <1>3, <2>2
    <3> HIDE DEF Within
    <3> QED
      BY <1>1, <3>3, <3>4, <3>5 DEF ReachInv
  <2> QED
    BY <1>11, <2>1, <2>2
<1> QED
  BY <1>12, <1>13, <1>15, <1>16

LEMMA BreadthInit == Init => BreadthInv
<1> SUFFICES ASSUME Init PROVE OrderInv /\ LevelInv /\ SpreadInv /\ ReachInv
  BY DEF BreadthInv
<1>1. /\ mpc = "seed" /\ level = 0 /\ queue = <<>> /\ out = <<>> /\ seen = {}
      /\ 1..Len(queue) = {} /\ 1..Len(out) = {}
  BY DEF Init
<1>2. BusyWorkers = {}
  BY DEF Init, BusyWorkers, Busy
<1>3. Waiting = {}
  BY <1>1, <1>2 DEF Waiting, Sending
<1>4. OrderInv
  BY <1>1, <1>2 DEF OrderInv
<1>5. LevelInv
  BY <1>1, <1>3, BoundAssumption DEF LevelInv, Sending
<1>6. SpreadInv
  BY <1>1 DEF SpreadInv
<1>7. ReachInv
  BY <1>1 DEF ReachInv
<1> QED
  BY <1>4, <1>5, <1>6, <1>7

LEMMA BreadthMain ==
    ASSUME SamePages, TypeOK, FoundInv, SeedInv, BreadthInv, Main
    PROVE  BreadthInv'
<1> USE DEF mainVars, chanVars, workerVars, histVars, fileVars
<1>1. CASE LookAtSeed BY <1>1, BreadthLookAt DEF LookAtSeed
<1>2. CASE LookAtLink BY <1>2, BreadthLookAt DEF LookAtLink
<1>3. CASE SendSeed BY <1>3, BreadthSend DEF SendSeed
<1>4. CASE SendLink BY <1>4, BreadthSend DEF SendLink
<1>5. CASE Receive BY <1>5, BreadthReceive
<1>6. ASSUME UNCHANGED <<queue, out, task, wpc, level, seen, pend, restarts, cancelled>>,
             mpc \notin Sending, mpc' \notin Sending, ~Ending,
             \A u : BeingRead(u) => BeingRead(u)' \/ LinksOf(u) \subseteq seen
      PROVE  BreadthInv'
  <2>1. BusyWorkers' = BusyWorkers
    BY <1>6 DEF BusyWorkers
  <2>2. Intact' => Intact
    BY <1>6 DEF Intact
  <2> QED
    BY <1>6, <2>1, <2>2, BreadthFrame
<1>7. CASE EndSeeding
  <2>1. mpc = "seed" /\ mpc' \in {"drain", "recv"}
        /\ UNCHANGED <<queue, out, task, wpc, level, seen, pend, restarts, cancelled>>
    BY <1>7 DEF EndSeeding
  <2> QED
    BY <1>6, <2>1 DEF Sending, Ending, BeingRead
<1>8. CASE WriteLine \/ SaveCheckpoint
  <2>1. mpc \in {"write", "save"} /\ mpc' \in {"save", "links"}
        /\ UNCHANGED <<queue, out, task, wpc, level, seen, pend, restarts, cancelled, page, todo>>
    BY <1>8 DEF WriteLine, SaveCheckpoint
  <2>2. \A u : BeingRead(u) => BeingRead(u)'
    BY <2>1 DEF BeingRead, Todo
  <2> QED
    BY <1>6, <2>1, <2>2 DEF Sending, Ending
<1>9. CASE EndLinks
  <2>1. mpc = "links" /\ todo = <<>> /\ mpc' \in {"close", "recv"}
        /\ UNCHANGED <<queue, out, task, wpc, level, seen, pend, restarts, cancelled>>
    BY <1>9 DEF EndLinks
  <2>2. \A u : BeingRead(u) => LinksOf(u) \subseteq seen
    BY <2>1, NoTodo DEF BeingRead
  <2> QED
    BY <1>6, <2>1, <2>2 DEF Sending, Ending
<1>10. CASE DropLink BY <1>10, BreadthOver DEF DropLink, Intact
<1>11. CASE ReturnEmpty \/ OutExhausted \/ ReturnErr
  BY <1>11, BreadthOver DEF ReturnEmpty, OutExhausted, ReturnErr, Intact, Ending
<1> QED
  BY <1>1, <1>2, <1>3, <1>4, <1>5, <1>7, <1>8, <1>9, <1>10, <1>11 DEF Main

LEMMA BreadthWorker ==
    ASSUME OneWorker, TypeOK, BreadthInv, NEW w \in Worker, WorkerStep(w)
    PROVE  BreadthInv'
<1> USE DEF mainVars, chanVars, workerVars, histVars, fileVars
<1>1. ASSUME NEW s, wpc' = [wpc EXCEPT ![w] = s], s \in Busy <=> wpc[w] \in Busy,
             UNCHANGED <<queue, out, task, mpc, level, seen, pend, page, todo, restarts, cancelled>>
      PROVE  BreadthInv'
  <2>1. BusyWorkers' = BusyWorkers
    BY <1>1, BusyKept
  <2>2. Intact' => Intact
    BY <1>1 DEF Intact, Ending
  <2>3. \A u : BeingRead(u) => BeingRead(u)'
    BY <1>1 DEF BeingRead, Todo
  <2> QED
    BY <1>1, <2>1, <2>2, <2>3, BreadthFrame
<1>2. CASE TakeTask(w) BY <1>2, BreadthTake
<1>3. CASE Emit(w) BY <1>3, BreadthEmit
<1>4. CASE Quit(w) BY <1>1, <1>4 DEF Quit, Goto, Busy
<1>5. CASE PassGate(w)
  <2>1. wpc[w] = "gate" /\ \E s \in {"polling", "charge"} : wpc' = [wpc EXCEPT ![w] = s]
    BY <1>5 DEF PassGate, LookAtPause, Goto
  <2> QED
    BY <1>1, <1>5, <2>1 DEF PassGate, Busy
<1>6. CASE PollAgain(w) BY <1>1, <1>6 DEF PollAgain, Goto, Busy
<1>7. CASE StartFetch(w) BY <1>1, <1>7 DEF StartFetch, Goto, Busy
<1>8. CASE Fetched(w) BY <1>1, <1>8 DEF Fetched, Goto, Busy
<1>9. CASE QuitPaused(w) BY <1>9, BreadthOver DEF QuitPaused, Intact
<1>10. CASE OutOfBudget(w) BY <1>10, BreadthOver DEF OutOfBudget, EndCrawl, Intact
<1>11. CASE DropResult(w) BY <1>11, BreadthOver DEF DropResult, Intact
<1> QED
  BY <1>2, <1>3, <1>4, <1>5, <1>6, <1>7, <1>8, <1>9, <1>10, <1>11 DEF WorkerStep

LEMMA BreadthStep ==
    ASSUME OneWorker, SamePages
    PROVE  TypeOK /\ FoundInv /\ SeedInv /\ BreadthInv /\ [Next]_vars => BreadthInv'
<1> SUFFICES ASSUME TypeOK, FoundInv, SeedInv, BreadthInv, [Next]_vars PROVE BreadthInv'
  OBVIOUS
<1> USE DEF mainVars, chanVars, workerVars, histVars, fileVars
<1>1. ASSUME UNCHANGED <<mainVars, queue, out, workerVars, seen, restarts>>, cancelled => cancelled'
      PROVE  BreadthInv'
  <2>1. BusyWorkers' = BusyWorkers
    BY <1>1 DEF BusyWorkers
  <2>2. Intact' => Intact
    BY <1>1 DEF Intact, Ending
  <2>3. \A u : BeingRead(u) => BeingRead(u)'
    BY <1>1 DEF BeingRead, Todo
  <2> QED
    BY <1>1, <2>1, <2>2, <2>3, BreadthFrame
<1>2. CASE Main BY <1>2, BreadthMain
<1>3. CASE CloseOut BY <1>1, <1>3 DEF CloseOut
<1>4. CASE \E w \in Worker : WorkerStep(w) BY <1>4, BreadthWorker
<1>5. CASE Caller BY <1>1, <1>5 DEF Caller, Pause, Resume, Cancel
<1>6. CASE Restart
  <2>1. restarts' # 0
    BY <1>6 DEF Restart, TypeOK
  <2> QED
    BY <2>1, BreadthOver DEF Intact
<1>7. CASE UNCHANGED vars BY <1>1, <1>7 DEF vars
<1> QED
  BY <1>2, <1>3, <1>4, <1>5, <1>6, <1>7 DEF Next

----------------------------------------------------------------------------
(* The end. *)

LEMMA DepthInit == Init => DepthInv
BY DEF Init, DepthInv

\* Nothing was allowed to be seeded, so there is nothing to see.
LEMMA NothingNear ==
    ASSUME SeedInv, EndSeeding, inFlight = 0, restarts = 0
    PROVE  Within[MaxDepth] \subseteq seen
<1>1. seen = {} /\ Nearest \subseteq {}
  BY NoTodo DEF EndSeeding, SeedInv
<1>2. MaxDepth \in 0..MaxDepth
  BY BoundAssumption
<1> HIDE DEF Within
<1> QED
  BY <1>1, <1>2, ClosedHoldsAll

\* With the last link of the last page looked at, what was seen holds all there
\* is, or reaches the last level.
LEMMA AllLooked ==
    ASSUME TypeOK, InFlightExact, SeedInv, BreadthInv, EndLinks, Finished, restarts = 0, ~cancelled
    PROVE  Within[MaxDepth] \subseteq seen
<1>1. mpc = "links" /\ Todo = {} /\ ~Ending /\ mpc \notin Sending
  BY NoTodo DEF EndLinks, Ending, Sending
<1>2. LevelInv /\ SpreadInv /\ ReachInv
  BY <1>1 DEF BreadthInv, Intact
<1>3. queue = <<>> /\ BusyWorkers = {} /\ out = <<>>
  BY ZeroMeansIdle DEF Finished
<1>4. Waiting = {}
  BY <1>1, <1>3 DEF Waiting
<1>5. MaxDepth \in Nat /\ level \in Nat /\ level <= MaxDepth + 1
  BY <1>2, BoundAssumption DEF LevelInv, TypeOK
<1>6. CASE level <= MaxDepth
  <2>1. Nearest \subseteq seen
    BY <1>1 DEF SeedInv
  <2>2. \A u \in seen : LinksOf(u) \subseteq seen
    BY <1>1, <1>2, <1>4, <1>6 DEF SpreadInv, BeingRead
  <2>3. MaxDepth \in 0..MaxDepth
    BY <1>5
  <2> HIDE DEF Within
  <2> QED
    BY <2>1, <2>2, <2>3, ClosedHoldsAll
<1>7. CASE ~(level <= MaxDepth)
  <2>1. level > 0 /\ level - 1 = MaxDepth
    BY <1>5, <1>7
  <2> HIDE DEF Within
  <2> QED
    BY <1>2, <2>1 DEF ReachInv
<1> QED
  BY <1>6, <1>7

LEMMA DepthStep ==
    TypeOK /\ InFlightExact /\ EndInv /\ DropInv /\ SeedInv /\ BreadthInv /\ DepthInv /\ [Next]_vars
      => DepthInv'
<1> SUFFICES ASSUME TypeOK, InFlightExact, EndInv, DropInv, SeedInv, BreadthInv, DepthInv, [Next]_vars
             PROVE  DepthInv'
  OBVIOUS
<1> USE DEF mainVars, chanVars, workerVars, histVars, fileVars
<1> HIDE DEF Within
<1>1. ASSUME UNCHANGED <<seen, restarts, mpc, err>>, cancelled => cancelled' PROVE DepthInv'
  BY <1>1 DEF DepthInv
<1>2. ASSUME mpc' \notin {"drain", "close", "done"} PROVE DepthInv'
  BY <1>2 DEF DepthInv
<1>3. CASE Main
  <2>1. CASE EndSeeding
    <3>1. inFlight = 0 \/ mpc' = "recv"
      BY <2>1 DEF EndSeeding
    <3>2. UNCHANGED <<seen, restarts>>
      BY <2>1 DEF EndSeeding
    <3> QED
      BY <1>2, <2>1, <3>1, <3>2, NothingNear DEF DepthInv
  <2>2. CASE EndLinks
    <3>1. UNCHANGED <<seen, restarts, cancelled>> /\ (mpc' = "recv" \/ (mpc' = "close" /\ Finished))
      BY <2>2 DEF EndLinks
    <3> QED
      BY <1>2, <2>2, <3>1, AllLooked DEF DepthInv
  <2>3. CASE OutExhausted
    <3>1. cancelled /\ cancelled' /\ mpc' = "close"
      BY <2>3, ClosedByContext DEF OutExhausted
    <3> QED
      BY <3>1 DEF DepthInv
  <2>4. CASE ReturnEmpty BY <2>4 DEF ReturnEmpty, DepthInv
  <2>5. CASE ReturnErr BY <2>5 DEF ReturnErr, DepthInv
  <2>6. CASE LookAtSeed \/ SendSeed BY <1>2, <2>6 DEF LookAtSeed, SendSeed, LookAt, SendTask
  <2>7. CASE LookAtLink \/ SendLink \/ DropLink
    BY <1>2, <2>7 DEF LookAtLink, SendLink, LookAt, SendTask, DropLink
  <2>8. CASE Receive \/ WriteLine \/ SaveCheckpoint
    BY <1>2, <2>8 DEF Receive, WriteLine, SaveCheckpoint
  <2> QED
    BY <1>3, <2>1, <2>2, <2>3, <2>4, <2>5, <2>6, <2>7, <2>8 DEF Main
<1>4. CASE CloseOut BY <1>1, <1>4 DEF CloseOut
<1>5. CASE \E w \in Worker : WorkerStep(w)
  BY <1>1, <1>5
  DEF WorkerStep, TakeTask, Quit, PassGate, PollAgain, QuitPaused, StartFetch, OutOfBudget, EndCrawl,
      Fetched, Emit, DropResult
<1>6. CASE Caller BY <1>1, <1>6 DEF Caller, Pause, Resume, Cancel
<1>7. CASE Restart BY <1>2, <1>7 DEF Restart
<1>8. CASE UNCHANGED vars BY <1>1, <1>8 DEF vars
<1> QED
  BY <1>3, <1>4, <1>5, <1>6, <1>7, <1>8 DEF Next

\* What the argument above establishes of a crawl with one worker.
THEOREM DepthCorrect ==
    ASSUME OneWorker, SamePages
    PROVE  Spec => [](FoundInv /\ SeedInv /\ BreadthInv /\ DepthInv)
<1>1. TypeOK /\ InFlightExact /\ EndInv /\ DropInv /\ FoundInv /\ SeedInv /\ BreadthInv /\ DepthInv
        /\ [Next]_vars => (FoundInv /\ SeedInv /\ BreadthInv /\ DepthInv)'
  BY FoundStep, SeedStep, BreadthStep, DepthStep
<1> QED
  BY <1>1, TypeCorrect, CounterExact, EndCorrect, ResultCorrect,
     FoundInit, SeedInit, BreadthInit, DepthInit, PTL DEF Spec

\* CompleteWithinDepth: the channels of a crawl with one worker keep the order of
\* breadth-first search, so every allowed page within MaxDepth hops is reached by
\* a shortest path, and is reported when Run returns nil.
THEOREM SerialIsComplete ==
    ASSUME OneWorker, SamePages
    PROVE  Spec => []CompleteWithinDepth
<1>1. SeedInv /\ DepthInv /\ NilMeansComplete => CompleteWithinDepth
  <2> HIDE DEF Within
  <2> QED
    BY DEF SeedInv, DepthInv, NilMeansComplete, CompleteWithinDepth
<1> QED
  BY <1>1, DepthCorrect, NilIsComplete, PTL
=============================================================================
