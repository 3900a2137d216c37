------------------------- MODULE SpiderPromiseProofs -------------------------
(* What Run's result means, and that Spider implements Crawl.                  *)
EXTENDS SpiderProofs

----------------------------------------------------------------------------
(* A nil error. *)

Seeding == mpc \in {"seed", "seedSend", "drain"}

\* The URL has been reported or is still on its way there.
Carried(u) ==
    \/ u \in written
    \/ \E i \in 1..Len(queue) : queue[i].url = u
    \/ \E w \in Worker : wpc[w] \in Busy /\ task[w].url = u
    \/ \E i \in 1..Len(out) : out[i].url = u
    \/ mpc \in Sending /\ pend = u
    \/ mpc = "write" /\ page = u

\* While nothing has been dropped, everything this run has seen is carried: only
\* the end of the context makes workers drop tasks, and Run drop links once it
\* is past seeding.
CarryInv ==
    (lost = 0 /\ (cancelled => Seeding)) => \A u \in seen \ restored : Carried(u)
DropInv ==
    /\ lost > 0 => cancelled
    /\ queueClosed => mpc \in {"drain", "done"}
    /\ (\E w \in Worker : wpc[w] = "exit") => cancelled \/ queueClosed
    /\ mpc = "drain" => inFlight = 0

\* Past the loop, what was seen has been reported unless Run's result is, or is
\* going to be, an error.
ResultInv ==
    /\ mpc = "close" /\ ~cancelled => seen \ restored \subseteq written
    /\ mpc = "done" /\ err = "nil" => seen \ restored \subseteq written

LEMMA DropInit == Init => DropInv
BY DEF Init, DropInv

LEMMA DropStep == TypeOK /\ DropInv /\ [Next]_vars => DropInv'
<1> SUFFICES ASSUME TypeOK, DropInv, [Next]_vars PROVE DropInv'
  OBVIOUS
<1> USE DEF mainVars, chanVars, workerVars, histVars, DropInv
<1>1. CASE Main
  <2>1. CASE LookAtSeed BY <2>1 DEF LookAtSeed, LookAt
  <2>2. CASE SendSeed BY <2>2 DEF SendSeed, SendTask
  <2>3. CASE EndSeeding BY <2>3 DEF EndSeeding
  <2>4. CASE ReturnEmpty BY <2>4 DEF ReturnEmpty
  <2>5. CASE Receive BY <2>5 DEF Receive
  <2>6. CASE OutExhausted BY <2>6 DEF OutExhausted
  <2>7. CASE WriteLine BY <2>7 DEF WriteLine
  <2>8. CASE SaveCheckpoint BY <2>8 DEF SaveCheckpoint
  <2>9. CASE LookAtLink BY <2>9 DEF LookAtLink, LookAt
  <2>10. CASE SendLink BY <2>10 DEF SendLink, SendTask
  <2>11. CASE DropLink BY <2>11 DEF DropLink
  <2>12. CASE EndLinks BY <2>12 DEF EndLinks
  <2>13. CASE ReturnErr BY <2>13 DEF ReturnErr
  <2> QED
    BY <1>1, <2>1, <2>2, <2>3, <2>4, <2>5, <2>6, <2>7, <2>8, <2>9, <2>10,
       <2>11, <2>12, <2>13 DEF Main
<1>2. CASE CloseOut BY <1>2 DEF CloseOut
<1>3. ASSUME NEW w \in Worker, WorkerStep(w) PROVE DropInv'
  <2>1. ASSUME NEW s \in WorkerPC, wpc' = [wpc EXCEPT ![w] = s],
               UNCHANGED <<mpc, queueClosed, inFlight>>, cancelled => cancelled',
               lost' # lost => cancelled', s = "exit" => cancelled' \/ queueClosed
        PROVE  DropInv'
    <3>1. \A v \in Worker : wpc'[v] = "exit" => wpc[v] = "exit" \/ (v = w /\ s = "exit")
      BY <2>1 DEF TypeOK
    <3> QED
      BY <2>1, <3>1
  <2> USE DEF Goto, WorkerPC
  <2>2. CASE TakeTask(w) BY <2>1, <2>2 DEF TakeTask
  <2>3. CASE Quit(w) BY <2>1, <2>3 DEF Quit
  <2>4. CASE PassGate(w) BY <2>1, <2>4 DEF PassGate, LookAtPause
  <2>5. CASE PollAgain(w) BY <2>1, <2>5 DEF PollAgain
  <2>6. CASE QuitPaused(w) BY <2>1, <2>6 DEF QuitPaused
  <2>7. CASE StartFetch(w) BY <2>1, <2>7 DEF StartFetch
  <2>8. CASE OutOfBudget(w) BY <2>1, <2>8 DEF OutOfBudget, EndCrawl
  <2>9. CASE Fetched(w) BY <2>1, <2>9 DEF Fetched
  <2>10. CASE Emit(w) BY <2>1, <2>10 DEF Emit
  <2>11. CASE DropResult(w) BY <2>1, <2>11 DEF DropResult
  <2> QED
    BY <1>3, <2>2, <2>3, <2>4, <2>5, <2>6, <2>7, <2>8, <2>9, <2>10, <2>11
    DEF WorkerStep
<1>4. CASE Caller BY <1>4 DEF Caller, Pause, Resume, Cancel
<1>5. CASE Restart BY <1>5 DEF Restart
<1>6. CASE UNCHANGED vars BY <1>6 DEF vars
<1> QED
  BY <1>1, <1>2, <1>3, <1>4, <1>5, <1>6 DEF Next

LEMMA CarryInit == Init => CarryInv
BY DEF Init, CarryInv

\* The rule by which every step keeps CarryInv.
LEMMA CarryRule ==
    ASSUME CarryInv, UNCHANGED <<seen, restored>>, lost' = 0 => lost = 0,
           (cancelled' => Seeding') => (cancelled => Seeding),
           \A u \in seen \ restored : Carried(u) => Carried(u)'
    PROVE  CarryInv'
BY DEF CarryInv

LEMMA CarryFrame ==
    ASSUME CarryInv, UNCHANGED <<seen, restored, lost, queue, out, written, task>>,
           (cancelled' => Seeding') => (cancelled => Seeding),
           \A w \in Worker : wpc[w] \in Busy => wpc'[w] \in Busy,
           mpc \in Sending => mpc' \in Sending /\ pend' = pend,
           mpc = "write" => mpc' = "write" /\ page' = page
    PROVE  CarryInv'
<1>1. \A u \in seen \ restored : Carried(u) => Carried(u)'
  BY DEF Carried
<1> QED
  BY <1>1, CarryRule

LEMMA CarryLookAt ==
    ASSUME TypeOK, CarryInv, NEW here \in {"seed", "links"}, NEW sending,
           <<here, sending>> \in {<<"seed", "seedSend">>, <<"links", "send">>},
           LookAt(here, sending)
    PROVE  CarryInv'
<1> USE DEF workerVars, chanVars, fileVars, histVars
<1>1. mpc = here /\ mpc \notin Sending /\ mpc # "write"
  BY DEF LookAt, Sending
<1>2. UNCHANGED <<queue, out, written, task, wpc, restored, lost, cancelled>>
  BY DEF LookAt
<1>3. Seeding' <=> Seeding
  BY <1>1 DEF LookAt, Seeding
<1>4. \A u : Carried(u) => Carried(u)'
  BY <1>1, <1>2 DEF Carried
<1>5. CASE Eligible(Head(todo))
  <2>1. PICK u : u = Head(todo)
    OBVIOUS
  <2>2. seen' = seen \cup {u} /\ pend' = u /\ mpc' \in Sending
    BY <1>5, <2>1 DEF LookAt, Sending
  <2>3. Carried(u)'
    BY <2>2 DEF Carried
  <2> QED
    BY <1>2, <1>3, <1>4, <2>2, <2>3 DEF CarryInv
<1>6. CASE ~Eligible(Head(todo))
  BY <1>2, <1>3, <1>4, <1>6, CarryRule DEF LookAt
<1> QED
  BY <1>5, <1>6

LEMMA CarrySend ==
    ASSUME TypeOK, CarryInv, NEW here, NEW back,
           <<here, back>> \in {<<"seedSend", "seed">>, <<"send", "links">>},
           SendTask(here, back)
    PROVE  CarryInv'
<1> USE DEF workerVars, fileVars, histVars
<1>1. /\ UNCHANGED <<seen, restored, lost, cancelled, out, written, task, wpc>>
      /\ Seeding' <=> Seeding
      /\ mpc \in Sending
  BY DEF SendTask, Seeding, Sending
<1>2. /\ Len(queue') = Len(queue) + 1 /\ Len(queue) \in Nat
      /\ \A i \in 1..Len(queue) : queue'[i] = queue[i]
      /\ queue'[Len(queue) + 1].url = pend
  BY DEF SendTask, Enqueue, TypeOK
<1>3. \A u : (\E i \in 1..Len(queue) : queue[i].url = u) => Carried(u)'
  BY <1>2 DEF Carried
<1>4. \A u : u = pend => Carried(u)'
  BY <1>2 DEF Carried
<1>5. \A u : Carried(u) => Carried(u)'
  <2> SUFFICES ASSUME NEW u, Carried(u) PROVE Carried(u)'
    OBVIOUS
  <2>1. mpc # "write"
    BY <1>1 DEF Sending
  <2> QED
    BY <1>1, <1>3, <1>4, <2>1 DEF Carried
<1> QED
  BY <1>1, <1>5, CarryRule

LEMMA CarryReceive ==
    ASSUME TypeOK, CarryInv, Receive
    PROVE  CarryInv'
<1> USE DEF workerVars, fileVars, histVars
<1>1. /\ UNCHANGED <<seen, restored, lost, cancelled, queue, written, task, wpc>>
      /\ mpc = "recv" /\ mpc' = "write" /\ page' = Head(out).url
      /\ out # <<>> /\ out' = Tail(out)
  BY DEF Receive
<1>2. /\ Len(out') = Len(out) - 1 /\ Len(out) \in Nat \ {0} /\ Head(out) = out[1]
      /\ \A i \in 1..Len(out') : out'[i] = out[i + 1]
  BY <1>1 DEF TypeOK
<1>3. \A u : (\E i \in 1..Len(out) : out[i].url = u) => Carried(u)'
  <2> SUFFICES ASSUME NEW u, NEW i \in 1..Len(out), out[i].url = u PROVE Carried(u)'
    OBVIOUS
  <2>1. CASE i = 1
    BY <1>1, <1>2, <2>1 DEF Carried
  <2>2. CASE i # 1
    <3>1. i - 1 \in 1..Len(out') /\ out'[i - 1] = out[i]
      BY <1>2, <2>2
    <3>2. \E j \in 1..Len(out') : out'[j].url = u
      BY <3>1
    <3> QED
      BY <3>2 DEF Carried
  <2> QED
    BY <2>1, <2>2
<1>4. \A u : Carried(u) => Carried(u)'
  <2> SUFFICES ASSUME NEW u, Carried(u) PROVE Carried(u)'
    OBVIOUS
  <2>1. mpc # "write" /\ mpc \notin Sending
    BY <1>1 DEF Sending
  <2> QED
    BY <1>1, <1>3, <2>1 DEF Carried
<1>5. ~Seeding /\ ~Seeding'
  BY <1>1 DEF Seeding
<1> QED
  BY <1>1, <1>4, <1>5, CarryRule

LEMMA CarryMain ==
    ASSUME TypeOK, CarryInv, Main
    PROVE  CarryInv'
<1> USE DEF mainVars, chanVars, workerVars, fileVars, histVars
<1>1. CASE LookAtSeed BY <1>1, CarryLookAt DEF LookAtSeed
<1>2. CASE SendSeed BY <1>2, CarrySend DEF SendSeed
<1>3. CASE EndSeeding BY <1>3, CarryFrame DEF EndSeeding, Seeding, Sending
<1>4. CASE ReturnEmpty BY <1>4, CarryFrame DEF ReturnEmpty, Seeding, Sending
<1>5. CASE Receive BY <1>5, CarryReceive
<1>6. CASE OutExhausted BY <1>6, CarryFrame DEF OutExhausted, Seeding, Sending
<1>7. CASE WriteLine
  <2>1. /\ UNCHANGED <<seen, restored, lost, cancelled, queue, out, task, wpc>>
        /\ mpc = "write" /\ mpc' = "save" /\ written' = written \cup {page}
    BY <1>7 DEF WriteLine
  <2>2. \A u : Carried(u) => Carried(u)'
    BY <2>1 DEF Carried, Sending
  <2> QED
    BY <2>1, <2>2, CarryRule DEF Seeding
<1>8. CASE SaveCheckpoint BY <1>8, CarryFrame DEF SaveCheckpoint, Seeding, Sending
<1>9. CASE LookAtLink BY <1>9, CarryLookAt DEF LookAtLink
<1>10. CASE SendLink BY <1>10, CarrySend DEF SendLink
<1>11. CASE DropLink BY <1>11 DEF DropLink, Seeding, CarryInv
<1>12. CASE EndLinks BY <1>12, CarryFrame DEF EndLinks, Seeding, Sending
<1>13. CASE ReturnErr BY <1>13, CarryFrame DEF ReturnErr, Seeding, Sending
<1> QED
  BY <1>1, <1>2, <1>3, <1>4, <1>5, <1>6, <1>7, <1>8, <1>9, <1>10, <1>11, <1>12,
     <1>13 DEF Main

LEMMA CarryTake ==
    ASSUME TypeOK, CarryInv, NEW w \in Worker, TakeTask(w)
    PROVE  CarryInv'
<1> USE DEF mainVars, fileVars, histVars
<1>1. /\ UNCHANGED <<seen, restored, lost, cancelled, mpc, pend, page, out, written>>
      /\ wpc[w] = "idle" /\ wpc' = [wpc EXCEPT ![w] = "gate"]
      /\ task' = [task EXCEPT ![w] = Head(queue)] /\ queue # <<>> /\ queue' = Tail(queue)
  BY DEF TakeTask, Goto
<1>2. /\ Len(queue') = Len(queue) - 1 /\ Len(queue) \in Nat \ {0} /\ Head(queue) = queue[1]
      /\ \A i \in 1..Len(queue') : queue'[i] = queue[i + 1]
  BY <1>1 DEF TypeOK
<1>3. /\ task'[w] = queue[1] /\ wpc'[w] \in Busy /\ wpc[w] \notin Busy
      /\ \A v \in Worker \ {w} : wpc'[v] = wpc[v] /\ task'[v] = task[v]
  BY <1>1, <1>2 DEF TypeOK, Busy
<1>4. \A u : (\E i \in 1..Len(queue) : queue[i].url = u) => Carried(u)'
  <2> SUFFICES ASSUME NEW u, NEW i \in 1..Len(queue), queue[i].url = u PROVE Carried(u)'
    OBVIOUS
  <2>1. CASE i = 1
    BY <1>3, <2>1 DEF Carried
  <2>2. CASE i # 1
    <3>1. i - 1 \in 1..Len(queue') /\ queue'[i - 1] = queue[i]
      BY <1>2, <2>2
    <3>2. \E j \in 1..Len(queue') : queue'[j].url = u
      BY <3>1
    <3> QED
      BY <3>2 DEF Carried
  <2> QED
    BY <2>1, <2>2
<1>5. \A u : (\E v \in Worker : wpc[v] \in Busy /\ task[v].url = u) => Carried(u)'
  BY <1>3 DEF Carried
<1>6. \A u : Carried(u) => Carried(u)'
  BY <1>1, <1>4, <1>5 DEF Carried
<1> QED
  BY <1>1, <1>6, CarryRule DEF Seeding

LEMMA CarryEmit ==
    ASSUME TypeOK, CarryInv, NEW w \in Worker, Emit(w)
    PROVE  CarryInv'
<1> USE DEF mainVars, fileVars, histVars
<1> DEFINE res == [url |-> task[w].url, depth |-> task[w].depth, links |-> found[w]]
<1>1. /\ UNCHANGED <<seen, restored, lost, cancelled, mpc, pend, page, queue, written, task>>
      /\ wpc' = [wpc EXCEPT ![w] = "idle"] /\ out' = Append(out, res)
  BY DEF Emit, Goto
<1>2. /\ Len(out') = Len(out) + 1 /\ Len(out) \in Nat /\ out'[Len(out) + 1] = res
      /\ \A i \in 1..Len(out) : out'[i] = out[i]
  BY <1>1 DEF TypeOK
<1>3. \A v \in Worker \ {w} : wpc'[v] = wpc[v]
  BY <1>1 DEF TypeOK
<1>4. \A u : (\E i \in 1..Len(out) : out[i].url = u) => Carried(u)'
  BY <1>2 DEF Carried
<1>5. \A u : u = task[w].url => Carried(u)'
  <2>1. Len(out) + 1 \in 1..Len(out') /\ out'[Len(out) + 1].url = task[w].url
    BY <1>2
  <2> QED
    BY <2>1 DEF Carried
<1>6. \A u : (\E v \in Worker : wpc[v] \in Busy /\ task[v].url = u) => Carried(u)'
  BY <1>1, <1>3, <1>5 DEF Carried
<1>7. \A u : Carried(u) => Carried(u)'
  BY <1>1, <1>4, <1>6 DEF Carried
<1> QED
  BY <1>1, <1>7, CarryRule DEF Seeding

LEMMA CarryWorker ==
    ASSUME TypeOK, CarryInv, NEW w \in Worker, WorkerStep(w)
    PROVE  CarryInv'
<1> USE DEF mainVars, chanVars, workerVars, fileVars, histVars
<1>1. ASSUME NEW s, wpc' = [wpc EXCEPT ![w] = s], wpc[w] \in Busy => s \in Busy,
             UNCHANGED <<seen, restored, lost, queue, out, written, task, cancelled,
                         mpc, pend, page>>
      PROVE  CarryInv'
  BY <1>1, CarryFrame DEF TypeOK, Seeding
<1>2. ASSUME Loses PROVE CarryInv'
  <2>1. lost' # 0
    BY <1>2 DEF Loses, TypeOK
  <2> QED
    BY <2>1 DEF CarryInv
<1>3. CASE TakeTask(w) BY <1>3, CarryTake
<1>4. CASE Quit(w) BY <1>1, <1>4 DEF Quit, Goto, Busy
<1>5. CASE PassGate(w) BY <1>1, <1>5 DEF PassGate, LookAtPause, Goto, Busy
<1>6. CASE PollAgain(w) BY <1>1, <1>6 DEF PollAgain, Goto, Busy
<1>7. CASE QuitPaused(w) BY <1>2, <1>7 DEF QuitPaused
<1>8. CASE StartFetch(w) BY <1>1, <1>8 DEF StartFetch, Goto, Busy
<1>9. CASE OutOfBudget(w) BY <1>2, <1>9 DEF OutOfBudget
<1>10. CASE Fetched(w) BY <1>1, <1>10 DEF Fetched, Goto, Busy
<1>11. CASE Emit(w) BY <1>11, CarryEmit
<1>12. CASE DropResult(w) BY <1>2, <1>12 DEF DropResult
<1> QED
  BY <1>3, <1>4, <1>5, <1>6, <1>7, <1>8, <1>9, <1>10, <1>11, <1>12 DEF WorkerStep

LEMMA CarryStep == TypeOK /\ CarryInv /\ [Next]_vars => CarryInv'
<1> SUFFICES ASSUME TypeOK, CarryInv, [Next]_vars PROVE CarryInv'
  OBVIOUS
<1> USE DEF mainVars, chanVars, workerVars, fileVars, histVars
<1>1. CASE Main BY <1>1, CarryMain
<1>2. CASE CloseOut BY <1>2, CarryFrame DEF CloseOut, Seeding
<1>3. CASE \E w \in Worker : WorkerStep(w) BY <1>3, CarryWorker
<1>4. CASE Caller BY <1>4, CarryFrame DEF Caller, Pause, Resume, Cancel, Seeding
<1>5. CASE Restart BY <1>5 DEF Restart, Restored, CarryInv
<1>6. CASE UNCHANGED vars BY <1>6, CarryFrame DEF vars, Seeding
<1> QED
  BY <1>1, <1>2, <1>3, <1>4, <1>5, <1>6 DEF Next

\* With the counter at zero what was seen can only have been reported.
LEMMA AllReported ==
    ASSUME TypeOK, InFlightExact, CarryInv, inFlight <= 0, cancelled => Seeding,
           mpc \notin Sending, mpc # "write"
    PROVE  seen \ restored \subseteq written
<1>1. queue = <<>> /\ BusyWorkers = {} /\ out = <<>> /\ lost = 0
  BY ZeroMeansIdle
<1>2. SUFFICES ASSUME NEW u \in seen \ restored PROVE u \in written
  OBVIOUS
<1>3. Carried(u)
  BY <1>1 DEF CarryInv
<1>4. 1..Len(queue) = {} /\ 1..Len(out) = {}
  BY <1>1
<1> QED
  BY <1>1, <1>3, <1>4 DEF Carried, BusyWorkers

\* out can only have been closed on Run because the context ended.
LEMMA ClosedByContext ==
    ASSUME TypeOK, EndInv, DropInv, OutExhausted
    PROVE  cancelled
<1>1. AllExited /\ mpc = "recv"
  BY DEF OutExhausted, EndInv
<1>2. \E w \in Worker : wpc[w] = "exit"
  BY <1>1, WorkerAssumption DEF AllExited
<1> QED
  BY <1>1, <1>2 DEF DropInv

LEMMA ResultInit == Init => ResultInv
BY DEF Init, ResultInv

LEMMA ResultStep ==
    TypeOK /\ InFlightExact /\ EndInv /\ DropInv /\ CarryInv /\ ResultInv /\ [Next]_vars
      => ResultInv'
<1> SUFFICES ASSUME TypeOK, InFlightExact, EndInv, DropInv, CarryInv, ResultInv, [Next]_vars
             PROVE  ResultInv'
  OBVIOUS
<1> USE DEF mainVars, chanVars, workerVars, fileVars, histVars
<1>1. ASSUME mpc' \notin {"close", "done"} PROVE ResultInv'
  BY <1>1 DEF ResultInv
<1>2. ASSUME UNCHANGED <<mpc, err, seen, restored, written>>, cancelled => cancelled'
      PROVE  ResultInv'
  BY <1>2 DEF ResultInv
<1>3. CASE Main
  <2>1. CASE LookAtSeed BY <1>1, <2>1 DEF LookAtSeed, LookAt
  <2>2. CASE SendSeed BY <1>1, <2>2 DEF SendSeed, SendTask
  <2>3. CASE EndSeeding BY <1>1, <2>3 DEF EndSeeding
  <2>4. CASE ReturnEmpty
    <3>1. seen \ restored \subseteq written
      BY <2>4, AllReported DEF ReturnEmpty, DropInv, Seeding, Sending
    <3> QED
      BY <2>4, <3>1 DEF ReturnEmpty, ResultInv
  <2>5. CASE Receive BY <1>1, <2>5 DEF Receive
  <2>6. CASE OutExhausted
    BY <2>6, ClosedByContext DEF OutExhausted, ResultInv
  <2>7. CASE WriteLine BY <1>1, <2>7 DEF WriteLine
  <2>8. CASE SaveCheckpoint BY <1>1, <2>8 DEF SaveCheckpoint
  <2>9. CASE LookAtLink BY <1>1, <2>9 DEF LookAtLink, LookAt
  <2>10. CASE SendLink BY <1>1, <2>10 DEF SendLink, SendTask
  <2>11. CASE DropLink BY <1>1, <2>11 DEF DropLink
  <2>12. CASE EndLinks
    <3>1. CASE Finished /\ ~cancelled
      <4>1. seen \ restored \subseteq written
        BY <2>12, <3>1, AllReported DEF EndLinks, Finished, Sending
      <4> QED
        BY <2>12, <3>1, <4>1 DEF EndLinks, ResultInv
    <3>2. CASE Finished /\ cancelled
      BY <2>12, <3>2 DEF EndLinks, ResultInv
    <3>3. CASE ~Finished
      BY <1>1, <2>12, <3>3 DEF EndLinks
    <3> QED
      BY <3>1, <3>2, <3>3
  <2>13. CASE ReturnErr BY <2>13 DEF ReturnErr, ResultInv
  <2> QED
    BY <1>3, <2>1, <2>2, <2>3, <2>4, <2>5, <2>6, <2>7, <2>8, <2>9, <2>10,
       <2>11, <2>12, <2>13 DEF Main
<1>4. CASE CloseOut BY <1>2, <1>4 DEF CloseOut
<1>5. CASE \E w \in Worker : WorkerStep(w)
  BY <1>2, <1>5
  DEF WorkerStep, TakeTask, Quit, PassGate, PollAgain, QuitPaused, StartFetch,
      OutOfBudget, EndCrawl, Fetched, Emit, DropResult
<1>6. CASE Caller BY <1>2, <1>6 DEF Caller, Pause, Resume, Cancel
<1>7. CASE Restart BY <1>1, <1>7 DEF Restart
<1>8. CASE UNCHANGED vars BY <1>2, <1>8 DEF vars
<1> QED
  BY <1>3, <1>4, <1>5, <1>6, <1>7, <1>8 DEF Next

THEOREM ResultCorrect == Spec => [](DropInv /\ CarryInv /\ ResultInv)
BY TypeCorrect, CounterExact, EndCorrect, DropInit, DropStep, CarryInit, CarryStep,
   ResultInit, ResultStep, PTL DEF Spec

\* A nil error means, for any number of workers, that the result of everything
\* this run has seen went to the JSONL file.
THEOREM NilIsComplete == Spec => []NilMeansComplete
<1>1. ResultInv => NilMeansComplete
  BY DEF ResultInv, NilMeansComplete
<1> QED
  BY <1>1, ResultCorrect, PTL
----------------------------------------------------------------------------
(* Spider implements Crawl. *)

Begun == {u \in URL : starts[u] > 0}
Past == {"fetch", "emit"}

\* What is past the beginning of its fetch has been counted as begun.
BegunInv ==
    /\ \A w \in Worker : wpc[w] \in Past => task[w].url \in Begun
    /\ \A i \in 1..Len(out) : out[i].url \in Begun
    /\ mpc = "write" => page \in Begun

\* Every unit of the budget that is gone has paid for one URL.
BudgetInv == budget + Cardinality(Begun) = MaxPages

LEMMA BegunInit == Init => BegunInv /\ BudgetInv
<1> SUFFICES ASSUME Init PROVE BegunInv /\ BudgetInv
  OBVIOUS
<1>1. Begun = {}
  BY DEF Init, Begun
<1>2. BegunInv
  BY DEF Init, BegunInv, Past
<1>3. BudgetInv
  BY <1>1, FS_EmptySet, BoundAssumption DEF Init, BudgetInv
<1> QED
  BY <1>2, <1>3

LEMMA BegunFinite ==
    ASSUME TypeOK
    PROVE  IsFiniteSet(Begun) /\ Cardinality(Begun) \in Nat
<1>1. Begun \subseteq URL
  BY DEF Begun
<1> QED
  BY <1>1, UrlAssumption, FS_Subset, FS_CardinalityType

\* Most steps begin nothing and report nothing.
LEMMA BegunFrame ==
    ASSUME BegunInv, BudgetInv, UNCHANGED <<starts, budget, out>>,
           mpc' = "write" => mpc = "write" /\ page' = page,
           \A w \in Worker : wpc'[w] \in Past => wpc[w] \in Past /\ task'[w] = task[w]
    PROVE  BegunInv' /\ BudgetInv'
<1>1. Begun' = Begun
  BY DEF Begun
<1> QED
  BY <1>1 DEF BegunInv, BudgetInv

\* The one step that does begin a fetch.
LEMMA BeginsOne ==
    ASSUME TypeOK, OnceInv, NEW w \in Worker, StartFetch(w)
    PROVE  /\ task[w].url \in seen \ (Begun \cup restored)
           /\ Begun' = Begun \cup {task[w].url}
<1> DEFINE u == task[w].url
<1>1. wpc[w] \in PreFetch /\ starts' = [starts EXCEPT ![u] = @ + 1]
  BY DEF StartFetch, Goto, PreFetch
<1>2. u \in URL /\ Fresh(u)
  BY <1>1, UrlTypes DEF OnceInv, HeldOnce
<1>3. starts'[u] = 1 /\ \A x \in URL \ {u} : starts'[x] = starts[x]
  BY <1>1, <1>2 DEF TypeOK, Fresh
<1>4. u \in seen \ (Begun \cup restored)
  BY <1>2 DEF Fresh, Begun
<1>5. Begun' = Begun \cup {u}
  BY <1>2, <1>3 DEF Begun
<1> QED
  BY <1>4, <1>5

LEMMA BegunFetch ==
    ASSUME TypeOK, OnceInv, BegunInv, BudgetInv, NEW w \in Worker, StartFetch(w)
    PROVE  BegunInv' /\ BudgetInv'
<1> DEFINE u == task[w].url
<1>1. u \notin Begun /\ Begun' = Begun \cup {u}
  BY BeginsOne
<1>2. /\ wpc' = [wpc EXCEPT ![w] = "fetch"] /\ budget' = budget - 1
      /\ UNCHANGED <<mpc, page, out, task>>
  BY DEF StartFetch, Goto, Charge, mainVars, chanVars
<1>3. \A v \in Worker \ {w} : wpc'[v] = wpc[v]
  BY <1>2 DEF TypeOK
<1>4. BegunInv'
  BY <1>1, <1>2, <1>3 DEF BegunInv
<1>5. Cardinality(Begun') = Cardinality(Begun) + 1
  BY <1>1, BegunFinite, FS_AddElement
<1>6. budget \in Int /\ MaxPages \in Int /\ Cardinality(Begun) \in Int
  BY BegunFinite, BoundAssumption DEF TypeOK
<1>7. BudgetInv'
  BY <1>2, <1>5, <1>6 DEF BudgetInv
<1> QED
  BY <1>4, <1>7

LEMMA BegunStep ==
    TypeOK /\ OnceInv /\ BegunInv /\ BudgetInv /\ [Next]_vars => BegunInv' /\ BudgetInv'
<1> SUFFICES ASSUME TypeOK, OnceInv, BegunInv, BudgetInv, [Next]_vars
             PROVE  BegunInv' /\ BudgetInv'
  OBVIOUS
<1> USE DEF mainVars, chanVars, workerVars, histVars, Past
<1>1. CASE Receive
  <2>1. /\ page' = Head(out).url /\ out # <<>> /\ out' = Tail(out)
        /\ UNCHANGED <<starts, budget, wpc, task>>
    BY <1>1 DEF Receive
  <2>2. /\ Len(out') = Len(out) - 1 /\ Len(out) \in Nat \ {0} /\ Head(out) = out[1]
        /\ \A i \in 1..Len(out') : out'[i] = out[i + 1]
    BY <2>1 DEF TypeOK
  <2>3. Begun' = Begun
    BY <2>1 DEF Begun
  <2>4. \A i \in 1..Len(out') : i + 1 \in 1..Len(out)
    BY <2>2
  <2>5. page' \in Begun
    BY <2>1, <2>2 DEF BegunInv
  <2> QED
    BY <2>1, <2>2, <2>3, <2>4, <2>5 DEF BegunInv, BudgetInv
<1>2. CASE Main
  BY <1>1, <1>2, BegunFrame
  DEF Main, LookAtSeed, LookAtLink, LookAt, SendSeed, SendLink, SendTask, EndSeeding,
      ReturnEmpty, OutExhausted, WriteLine, SaveCheckpoint, DropLink, EndLinks, ReturnErr
<1>3. CASE CloseOut BY <1>3, BegunFrame DEF CloseOut
<1>4. ASSUME NEW w \in Worker, WorkerStep(w) PROVE BegunInv' /\ BudgetInv'
  <2>1. ASSUME NEW s, wpc' = [wpc EXCEPT ![w] = s], s \in Past => wpc[w] \in Past,
               UNCHANGED <<starts, budget, out, mpc, page, task>>
        PROVE  BegunInv' /\ BudgetInv'
    BY <2>1, BegunFrame DEF TypeOK
  <2>2. CASE TakeTask(w)
    <3>1. \A v \in Worker : wpc'[v] \in Past => wpc[v] \in Past /\ task'[v] = task[v]
      BY <2>2 DEF TakeTask, Goto, TypeOK
    <3> QED
      BY <2>2, <3>1, BegunFrame DEF TakeTask
  <2>3. CASE Quit(w) BY <2>1, <2>3 DEF Quit, Goto
  <2>4. CASE PassGate(w) BY <2>1, <2>4 DEF PassGate, LookAtPause, Goto
  <2>5. CASE PollAgain(w) BY <2>1, <2>5 DEF PollAgain, Goto
  <2>6. CASE QuitPaused(w) BY <2>1, <2>6 DEF QuitPaused, Goto
  <2>7. CASE StartFetch(w) BY <2>7, BegunFetch
  <2>8. CASE OutOfBudget(w) BY <2>1, <2>8 DEF OutOfBudget, Goto
  <2>9. CASE Fetched(w) BY <2>1, <2>9 DEF Fetched, Goto
  <2>10. CASE Emit(w)
    <3> DEFINE res == [url |-> task[w].url, depth |-> task[w].depth, links |-> found[w]]
    <3>1. /\ wpc[w] = "emit" /\ wpc' = [wpc EXCEPT ![w] = "idle"]
          /\ out' = Append(out, res) /\ UNCHANGED <<starts, budget, mpc, page, task>>
      BY <2>10 DEF Emit, Goto
    <3>2. /\ Len(out') = Len(out) + 1 /\ Len(out) \in Nat /\ out'[Len(out) + 1] = res
          /\ \A i \in 1..Len(out) : out'[i] = out[i]
      BY <3>1 DEF TypeOK
    <3>3. Begun' = Begun
      BY <3>1 DEF Begun
    <3>4. \A v \in Worker : wpc'[v] \in Past => wpc[v] \in Past
      BY <3>1 DEF TypeOK
    <3>5. \A i \in 1..Len(out') : out'[i].url \in Begun
      BY <3>1, <3>2 DEF BegunInv
    <3> QED
      BY <3>1, <3>3, <3>4, <3>5 DEF BegunInv, BudgetInv
  <2>11. CASE DropResult(w) BY <2>1, <2>11 DEF DropResult, Goto
  <2> QED
    BY <1>4, <2>2, <2>3, <2>4, <2>5, <2>6, <2>7, <2>8, <2>9, <2>10, <2>11
    DEF WorkerStep
<1>5. CASE Caller BY <1>5, BegunFrame DEF Caller, Pause, Resume, Cancel
<1>6. CASE Restart
  <2>1. Begun' = {}
    BY <1>6 DEF Restart, Begun
  <2>2. BudgetInv'
    BY <1>6, <2>1, FS_EmptySet, BoundAssumption DEF Restart, BudgetInv
  <2> QED
    BY <1>6, <2>2 DEF Restart, BegunInv
<1>7. CASE UNCHANGED vars BY <1>7, BegunFrame DEF vars
<1> QED
  BY <1>2, <1>3, <1>4, <1>5, <1>6, <1>7 DEF Next

THEOREM BegunCorrect == Spec => [](BegunInv /\ BudgetInv)
BY TypeCorrect, OnceCorrect, BegunInit, BegunStep, PTL DEF Spec

LEMMA PromiseInit == Init => Promise!Init
BY DEF Init, Promise!Init

\* A step that shows nothing to Run's caller.
LEMMA PromiseStutter ==
    ASSUME UNCHANGED <<seen, restored, starts, written, err>>, mpc' = "done" <=> mpc = "done"
    PROVE  UNCHANGED Promise!vars
BY DEF Promise!vars

LEMMA PromiseLookAt ==
    ASSUME TypeOK, NEW here \in {"seed", "links"}, NEW sending \in Sending,
           LookAt(here, sending)
    PROVE  [Promise!Next]_(Promise!vars)
<1> USE DEF histVars, fileVars
<1>1. UNCHANGED <<restored, starts, written, err>> /\ mpc # "done" /\ mpc' # "done"
  BY DEF LookAt, Sending
<1>2. PICK u \in URL : u = Head(todo)
  BY DEF LookAt, TypeOK
<1>3. CASE Eligible(u)
  <2>1. u \notin seen /\ seen' = seen \cup {u}
    BY <1>2, <1>3 DEF LookAt, Eligible
  <2>2. Promise!Learn
    BY <1>1, <2>1 DEF Promise!Learn
  <2> QED
    BY <2>2 DEF Promise!Next
<1>4. CASE ~Eligible(u)
  BY <1>1, <1>2, <1>4, PromiseStutter DEF LookAt
<1> QED
  BY <1>3, <1>4

\* Crawl counts sets as Spider does.
LEMMA SameCardinality == \A S : Promise!Cardinality(S) = Cardinality(S)
BY DEF Promise!Cardinality, Cardinality

LEMMA PromiseFetch ==
    ASSUME TypeOK, OnceInv, EndInv, BudgetInv, NEW w \in Worker, StartFetch(w)
    PROVE  Promise!Begin
<1>1. UNCHANGED <<seen, restored, written, err, mpc>> /\ wpc[w] \in Busy /\ budget > 0
  BY DEF StartFetch, Goto, Busy, HasBudget, mainVars, histVars, fileVars
<1>2. mpc # "done"
  BY <1>1 DEF EndInv, Ending, BusyWorkers
<1>3. /\ task[w].url \in seen \ (Begun \cup restored)
      /\ Begun' = Begun \cup {task[w].url}
  BY BeginsOne
<1>4. Cardinality(Begun) < MaxPages
  BY <1>1, BegunFinite, BoundAssumption DEF BudgetInv, TypeOK
<1>5. \E u \in seen \ (Begun \cup restored) : Begun' = Begun \cup {u}
  BY <1>3
<1>6. Promise!Cardinality(Begun) < MaxPages
  BY <1>4, SameCardinality
<1> QED
  BY <1>1, <1>2, <1>5, <1>6 DEF Promise!Begin, Begun

\* Each step of the crawler is a step of the promise, or changes nothing of it.
LEMMA PromiseStep ==
    ASSUME TypeOK, OnceInv, EndInv, BegunInv, BudgetInv, ResultInv', [Next]_vars
    PROVE  [Promise!Next]_(Promise!vars)
<1> USE DEF mainVars, chanVars, workerVars, fileVars, histVars
<1>1. ASSUME UNCHANGED <<seen, restored, starts, written>>, mpc # "done", mpc' = "done",
             err' \in {"nil", "canceled"}
      PROVE  [Promise!Next]_(Promise!vars)
  <2>1. Promise!Return
    BY <1>1 DEF Promise!Return, ResultInv
  <2> QED
    BY <2>1 DEF Promise!Next
<1>2. CASE Main
  <2>1. CASE LookAtSeed BY <2>1, PromiseLookAt DEF LookAtSeed, Sending
  <2>2. CASE SendSeed BY <2>2, PromiseStutter DEF SendSeed, SendTask
  <2>3. CASE EndSeeding BY <2>3, PromiseStutter DEF EndSeeding
  <2>4. CASE ReturnEmpty BY <1>1, <2>4 DEF ReturnEmpty
  <2>5. CASE Receive BY <2>5, PromiseStutter DEF Receive
  <2>6. CASE OutExhausted BY <2>6, PromiseStutter DEF OutExhausted
  <2>7. CASE WriteLine
    <3>1. page \in Begun
      BY <2>7 DEF WriteLine, BegunInv
    <3>2. Promise!Report
      BY <2>7, <3>1 DEF WriteLine, Promise!Report, Begun
    <3> QED
      BY <3>2 DEF Promise!Next
  <2>8. CASE SaveCheckpoint BY <2>8, PromiseStutter DEF SaveCheckpoint
  <2>9. CASE LookAtLink BY <2>9, PromiseLookAt DEF LookAtLink, Sending
  <2>10. CASE SendLink BY <2>10, PromiseStutter DEF SendLink, SendTask
  <2>11. CASE DropLink BY <2>11, PromiseStutter DEF DropLink
  <2>12. CASE EndLinks BY <2>12, PromiseStutter DEF EndLinks
  <2>13. CASE ReturnErr BY <1>1, <2>13 DEF ReturnErr
  <2> QED
    BY <1>2, <2>1, <2>2, <2>3, <2>4, <2>5, <2>6, <2>7, <2>8, <2>9, <2>10,
       <2>11, <2>12, <2>13 DEF Main
<1>3. CASE CloseOut BY <1>3, PromiseStutter DEF CloseOut
<1>4. ASSUME NEW w \in Worker, WorkerStep(w) PROVE [Promise!Next]_(Promise!vars)
  <2>1. CASE StartFetch(w) BY <2>1, PromiseFetch DEF Promise!Next
  <2>2. CASE ~StartFetch(w)
    BY <1>4, <2>2, PromiseStutter
    DEF WorkerStep, TakeTask, Quit, PassGate, PollAgain, QuitPaused, OutOfBudget,
        Fetched, Emit, DropResult
  <2> QED
    BY <2>1, <2>2
<1>5. CASE Caller BY <1>5, PromiseStutter DEF Caller, Pause, Resume, Cancel
<1>6. CASE Restart
  <2>1. /\ seen' = ckpt /\ restored' = ckpt /\ mpc' = "seed" /\ written' = written
        /\ starts' = [u \in URL |-> 0] /\ ckpt \subseteq seen
    BY <1>6 DEF Restart, Restored, OnceInv, BegunSeen
  <2>2. Begun' = {}
    BY <2>1 DEF Begun
  <2>3. Promise!Restart
    BY <2>1, <2>2 DEF Promise!Restart, Begun
  <2> QED
    BY <2>3 DEF Promise!Next
<1>7. CASE UNCHANGED vars BY <1>7, PromiseStutter DEF vars
<1> QED
  BY <1>2, <1>3, <1>4, <1>5, <1>6, <1>7 DEF Next

\* Run with its goroutines and channels does what Crawl promises: every begin
\* is of a URL seen and not inherited, within the budget and before the return,
\* every report is of a page this run fetched, and nil means that all is reported.
THEOREM Refines == Spec => KeepsPromise
<1>1. ASSUME TypeOK, OnceInv, EndInv, BegunInv, BudgetInv, ResultInv', [Next]_vars
      PROVE  [Promise!Next]_(Promise!vars)
  BY <1>1, PromiseStep
<1> QED
  BY <1>1, PromiseInit, TypeCorrect, OnceCorrect, EndCorrect, BegunCorrect, ResultCorrect,
     PTL DEF Spec, KeepsPromise, Promise!Spec
=============================================================================
