---------------------------- MODULE StreamsProofs ----------------------------
(***************************************************************************)
(* What the parts of the server whose goroutines must get somewhere keep   *)
(* while they do, for any hosts, clients, requests and bounds.             *)
(***************************************************************************)
EXTENDS Streams, SequenceTheorems, FiniteSetTheorems, WellFoundedInduction, TLAPS

-----------------------------------------------------------------------------
(***************************************************************************)
(* The updates of a tool.  A result's revision and the resets of its host  *)
(* move together, so an attempt whose revision is the result's began after *)
(* the last reset (`AttemptsDated').                                       *)
(***************************************************************************)
WorkersRun == \A h \in Machines : worker[h] # NoWorker => auto[h] # NoResult /\ auto[h].running

AttemptsDated ==
  \A h \in Machines : worker[h] # NoWorker /\ worker[h].at # "begin" =>
    auto[h].revision + worker[h].of = resets[h] + worker[h].revision

ToolInv == ToolTypeOK /\ WorkersRun /\ AttemptsDated /\ AttemptsEnd

LEMMA ToolTypes ==
  ASSUME ToolTypeOK, NEW h \in Machines
  PROVE  /\ auto[h] \in {NoResult} \cup AutoState /\ worker[h] \in {NoWorker} \cup Worker /\ resets[h] \in Nat
         /\ Fresh \in AutoState /\ NewWorker \in Worker /\ NewWorker # NoWorker /\ NewWorker.at = "begin"
         /\ ~Fresh.running /\ ~Fresh.err /\ ~Fresh.updated
<1>1. auto[h] \in {NoResult} \cup AutoState /\ worker[h] \in {NoWorker} \cup Worker /\ resets[h] \in Nat
  BY DEF ToolTypeOK
<1>2. Fresh \in AutoState /\ ~Fresh.running /\ ~Fresh.err /\ ~Fresh.updated
  BY DEF Fresh, AutoState
<1>3. NewWorker \in Worker /\ NewWorker.at = "begin"
  BY DEF NewWorker, Worker
<1>4. NewWorker # NoWorker
  BY <1>3, ToolAssumption
<1> QED BY <1>1, <1>2, <1>3, <1>4

\* A result that was dropped.
LEMMA ResetAttempt ==
  ASSUME NEW a \in AutoState
  PROVE  LET b == [a EXCEPT !.err = FALSE, !.updated = FALSE, !.revision = @ + 1] IN
         b \in AutoState /\ b.running = a.running /\ b.of = a.of /\ ~b.err /\ ~b.updated /\ b.revision = a.revision + 1
<1> DEFINE b == [a EXCEPT !.err = FALSE, !.updated = FALSE, !.revision = a.revision + 1]
<1>1. a.revision + 1 \in Nat
  BY DEF AutoState
<1>2. b \in AutoState
  BY <1>1 DEF AutoState
<1>3. b.running = a.running /\ b.of = a.of
  BY DEF AutoState
<1>4. b.err = FALSE /\ b.updated = FALSE /\ b.revision = a.revision + 1
  BY DEF AutoState
<1> QED BY <1>2, <1>3, <1>4

LEMMA ToolInvInit == ToolInit => ToolInv
BY ToolAssumption DEF ToolInit, ToolInv, ToolTypeOK, WorkersRun, AttemptsDated, AttemptsEnd, ResultIsCurrent, CloseJoins

\* Steps that leave the results and the workers alone.
LEMMA HostsMove ==
  ASSUME ToolInv, ToolTypeOK', UNCHANGED <<auto, worker, resets>>,
         closing' = closing \/ (closing' # "joined") \/ (\A h \in Machines : worker[h] = NoWorker)
  PROVE  ToolInv'
BY DEF ToolInv, WorkersRun, AttemptsDated, AttemptsEnd, ResultIsCurrent, CloseJoins

\* A set of hosts is checked, and some of their results dropped before.
LEMMA StartsKeeps ==
  ASSUME ToolInv, NEW hosts \in SUBSET Machines, NEW reset \in SUBSET Machines, Starts(hosts, reset), UNCHANGED closing
  PROVE  /\ auto' \in [Machines -> {NoResult} \cup AutoState] /\ worker' \in [Machines -> {NoWorker} \cup Worker]
         /\ resets' \in [Machines -> Nat] /\ asked' \in [Machines -> BOOLEAN]
         /\ WorkersRun' /\ AttemptsDated' /\ AttemptsEnd'
<1> DEFINE before(h) == IF h \in reset /\ auto[h] # NoResult
                        THEN [auto[h] EXCEPT !.err = FALSE, !.updated = FALSE, !.revision = @ + 1]
                        ELSE auto[h]
           prior(h) == IF before(h) = NoResult THEN Fresh ELSE before(h)
           asks == IF Accepts THEN hosts ELSE {}
           next(h) == CASE h \notin asks -> before(h)
                        [] h \in asks /\ prior(h).running -> [prior(h) EXCEPT !.pending = TRUE]
                        [] OTHER -> [prior(h) EXCEPT !.updated = FALSE, !.running = TRUE]
<1> HIDE DEF before, prior, asks, next
<1>0. ToolTypeOK /\ WorkersRun /\ AttemptsDated /\ ResultIsCurrent /\ CloseJoins
  BY DEF ToolInv, AttemptsEnd
<1> USE DEF before, prior, asks, next
<1>1. /\ auto' = [h \in Machines |-> next(h)]
      /\ worker' = [h \in Machines |-> IF h \in asks /\ ~Previous(h).running THEN NewWorker ELSE worker[h]]
      /\ asked' = [h \in Machines |-> asked[h] \/ h \in asks]
      /\ resets' = [h \in Machines |-> IF h \in reset THEN resets[h] + 1 ELSE resets[h]]
  BY DEF Starts
<1>2. ASSUME NEW h \in Machines
      PROVE  /\ before(h) \in {NoResult} \cup AutoState /\ (before(h) = NoResult <=> auto[h] = NoResult)
             /\ auto[h] # NoResult =>
                  /\ before(h).running = auto[h].running /\ before(h).of = auto[h].of
                  /\ IF h \in reset THEN ~before(h).err /\ ~before(h).updated /\ before(h).revision = auto[h].revision + 1
                     ELSE before(h) = auto[h]
  <2>1. auto[h] \in {NoResult} \cup AutoState
    BY <1>0, ToolTypes
  <2>2. CASE auto[h] = NoResult
    BY <2>2
  <2>3. CASE auto[h] # NoResult /\ h \notin reset
    BY <2>1, <2>3
  <2>4. CASE auto[h] # NoResult /\ h \in reset
    <3> DEFINE b == [auto[h] EXCEPT !.err = FALSE, !.updated = FALSE, !.revision = @ + 1]
    <3>1. before(h) = b
      BY <2>4
    <3>a. auto[h] \in AutoState
      BY <2>1, <2>4
    <3> HIDE DEF before
    <3>2. /\ b \in AutoState /\ b.running = auto[h].running /\ b.of = auto[h].of
          /\ ~b.err /\ ~b.updated /\ b.revision = auto[h].revision + 1
      BY <3>a, ResetAttempt
    <3> HIDE DEF b
    <3>3. b # NoResult
      BY <3>2, ToolAssumption
    <3> QED BY <3>1, <3>2, <3>3, <2>4
  <2> QED BY <2>2, <2>3, <2>4
<1>3. ASSUME NEW h \in Machines
      PROVE  /\ prior(h) \in AutoState /\ (auto[h] # NoResult => prior(h) = before(h))
             /\ (auto[h] = NoResult => prior(h) = Fresh) /\ prior(h).running = Previous(h).running
  <2>1. prior(h) \in AutoState /\ (auto[h] # NoResult => prior(h) = before(h)) /\ (auto[h] = NoResult => prior(h) = Fresh)
    BY <1>0, <1>2, ToolTypes
  <2> QED BY <2>1, <1>2 DEF Previous
<1> HIDE DEF before
<1> HIDE DEF prior
<1>4. ASSUME NEW h \in Machines
      PROVE  /\ next(h) \in {NoResult} \cup AutoState
             /\ h \notin asks => next(h) = before(h)
             /\ h \in asks => /\ next(h) \in AutoState /\ next(h).running /\ next(h).revision = prior(h).revision
                              /\ next(h).of = prior(h).of /\ next(h).err = prior(h).err
                              /\ (next(h).updated => prior(h).updated)
  <2>1. CASE h \notin asks
    BY <2>1, <1>2
  <2>2. CASE h \in asks /\ prior(h).running
    BY <2>2, <1>3 DEF AutoState
  <2>3. CASE h \in asks /\ ~prior(h).running
    BY <2>3, <1>3 DEF AutoState
  <2> QED BY <2>1, <2>2, <2>3
<1> HIDE DEF next
<1>5. /\ auto' \in [Machines -> {NoResult} \cup AutoState] /\ worker' \in [Machines -> {NoWorker} \cup Worker]
      /\ resets' \in [Machines -> Nat] /\ asked' \in [Machines -> BOOLEAN]
  <2>1. worker' \in [Machines -> {NoWorker} \cup Worker]
    BY <1>0, <1>1, ToolTypes DEF ToolTypeOK
  <2>2. resets' \in [Machines -> Nat] /\ asked' \in [Machines -> BOOLEAN]
    BY <1>0, <1>1 DEF ToolTypeOK
  <2> QED BY <2>1, <2>2, <1>1, <1>4
<1>6. ASSUME NEW h \in Machines
      PROVE  /\ auto'[h] = next(h) /\ resets'[h] = IF h \in reset THEN resets[h] + 1 ELSE resets[h]
             /\ worker'[h] = IF h \in asks /\ ~prior(h).running THEN NewWorker ELSE worker[h]
  BY <1>1, <1>3
<1>7. WorkersRun'
  <2> SUFFICES ASSUME NEW h \in Machines, worker'[h] # NoWorker PROVE auto'[h] # NoResult /\ auto'[h].running
    BY DEF WorkersRun
  <2>1. CASE h \in asks
    BY <2>1, <1>4, <1>6, ToolAssumption
  <2>2. CASE h \notin asks
    BY <2>2, <1>0, <1>2, <1>4, <1>6 DEF WorkersRun
  <2> QED BY <2>1, <2>2
<1>8. AttemptsDated'
  <2> SUFFICES ASSUME NEW h \in Machines, worker'[h] # NoWorker, worker'[h].at # "begin"
               PROVE  auto'[h].revision + worker'[h].of = resets'[h] + worker'[h].revision
    BY DEF AttemptsDated
  <2>1. worker'[h] = worker[h] /\ auto[h] # NoResult
    BY <1>0, <1>6, ToolTypes DEF WorkersRun
  <2>2. auto[h].revision + worker[h].of = resets[h] + worker[h].revision
    BY <2>1, <1>0 DEF AttemptsDated
  <2>3. auto[h].revision \in Nat /\ worker[h].of \in Nat /\ resets[h] \in Nat /\ worker[h].revision \in Nat
    BY <2>1, <1>0, ToolTypes DEF AutoState, Worker
  <2>4. auto'[h].revision = IF h \in reset THEN auto[h].revision + 1 ELSE auto[h].revision
    BY <2>1, <1>2, <1>3, <1>4, <1>6
  <2> QED BY <2>1, <2>2, <2>3, <2>4, <1>6
<1>9. ResultIsCurrent'
  <2> SUFFICES ASSUME NEW h \in Machines, auto'[h] # NoResult, auto'[h].err \/ auto'[h].updated
               PROVE  auto'[h].of = resets'[h]
    BY DEF ResultIsCurrent
  <2>1. auto[h] # NoResult
    BY <1>0, <1>2, <1>3, <1>4, <1>6, ToolTypes
  <2>2. h \notin reset /\ auto'[h].of = auto[h].of /\ (auto[h].err \/ auto[h].updated)
    BY <2>1, <1>2, <1>3, <1>4, <1>6
  <2> QED BY <2>1, <2>2, <1>0, <1>6 DEF ResultIsCurrent
<1>10. CloseJoins'
  <2> SUFFICES ASSUME closing = "joined", NEW h \in Machines PROVE worker'[h] = NoWorker
    BY DEF CloseJoins
  <2>1. h \notin asks
    BY DEF Accepts, Closed
  <2> QED BY <2>1, <1>0, <1>6 DEF CloseJoins
<1> QED BY <1>5, <1>7, <1>8, <1>9, <1>10 DEF AttemptsEnd

\* The attempt goes on as it was begun.
LEMMA WorkerMoves ==
  ASSUME ToolInv, NEW h \in Machines, worker[h] # NoWorker, worker[h].at # "begin", NEW w \in Worker, w.at # "begin",
         w.revision = worker[h].revision, w.of = worker[h].of, worker' = [worker EXCEPT ![h] = w],
         UNCHANGED <<auto, resets, closing>>
  PROVE  WorkersRun' /\ AttemptsDated' /\ AttemptsEnd' /\ worker' \in [Machines -> {NoWorker} \cup Worker]
<1>0. ToolTypeOK /\ WorkersRun /\ AttemptsDated /\ ResultIsCurrent /\ CloseJoins
  BY DEF ToolInv, AttemptsEnd
<1>1. worker' \in [Machines -> {NoWorker} \cup Worker]
      /\ \A g \in Machines : worker'[g] = IF g = h THEN w ELSE worker[g]
  BY <1>0 DEF ToolTypeOK
<1>2. WorkersRun' /\ AttemptsDated' /\ ResultIsCurrent' /\ CloseJoins'
  BY <1>0, <1>1 DEF WorkersRun, AttemptsDated, ResultIsCurrent, CloseJoins
<1> QED BY <1>1, <1>2 DEF AttemptsEnd

LEMMA ResultMoves ==
  ASSUME ToolInv, NEW h \in Machines, worker[h] # NoWorker, worker[h].at # "begin",
         NEW err \in BOOLEAN, NEW got \in Releases \cup {"unknown"}, NEW attempted \in BOOLEAN,
         Result(h, err, got, attempted), UNCHANGED <<auto, resets, closing>>
  PROVE  WorkersRun' /\ AttemptsDated' /\ AttemptsEnd' /\ worker' \in [Machines -> {NoWorker} \cup Worker]
<1> DEFINE w == [worker[h] EXCEPT !.at = "finish", !.err = err, !.got = got, !.attempted = attempted]
<1>1. worker[h] \in Worker
  BY ToolTypes DEF ToolInv
<1>2. w \in Worker /\ w.at # "begin" /\ w.revision = worker[h].revision /\ w.of = worker[h].of
  BY <1>1 DEF Worker
<1>3. worker' = [worker EXCEPT ![h] = w]
  BY <1>1 DEF Result, ToolInv, ToolTypeOK
<1> HIDE DEF w
<1> QED BY <1>2, <1>3, WorkerMoves

LEMMA WorkerReaches ==
  ASSUME ToolInv, NEW h \in Machines, worker[h] # NoWorker, worker[h].at # "begin",
         NEW at \in {"pause", "recheck", "update", "continue"}, worker' = [worker EXCEPT ![h].at = at],
         UNCHANGED <<auto, resets, closing>>
  PROVE  WorkersRun' /\ AttemptsDated' /\ AttemptsEnd' /\ worker' \in [Machines -> {NoWorker} \cup Worker]
<1> DEFINE w == [worker[h] EXCEPT !.at = at]
<1>1. worker[h] \in Worker
  BY ToolTypes DEF ToolInv
<1>2. w \in Worker /\ w.at # "begin" /\ w.revision = worker[h].revision /\ w.of = worker[h].of
  BY <1>1 DEF Worker
<1>3. worker' = [worker EXCEPT ![h] = w]
  BY <1>1 DEF ToolInv, ToolTypeOK
<1> HIDE DEF w
<1> QED BY <1>2, <1>3, WorkerMoves

LEMMA WorkKeeps == ASSUME ToolInv, NEW h \in Machines, Work(h) PROVE ToolInv'
<1>0. ToolTypeOK /\ WorkersRun /\ AttemptsDated /\ ResultIsCurrent /\ CloseJoins
  BY DEF ToolInv, AttemptsEnd
<1>a. tool[h] \in Releases
  BY <1>0 DEF ToolTypeOK
<1>1. CASE BeginRun(h)
  <2> DEFINE w == [NewWorker EXCEPT !.at = "check", !.revision = auto[h].revision,
                                    !.previous = auto[h].updated, !.of = resets[h]]
  <2>1. worker[h] # NoWorker /\ auto[h] # NoResult /\ auto[h] \in AutoState
    BY <1>0, <1>1, ToolTypes DEF BeginRun, At, WorkersRun
  <2>2. w \in Worker /\ w.revision = auto[h].revision /\ w.of = resets[h] /\ auto[h].revision \in Nat
    BY <2>1, <1>0, ToolTypes DEF AutoState, Worker, NewWorker
  <2> HIDE DEF w
  <2>3. /\ worker' = [worker EXCEPT ![h] = w] /\ asked' = [asked EXCEPT ![h] = FALSE]
        /\ UNCHANGED <<known, tool, enabled, starting, adding, auto, closing, manual, updating, resets>>
    BY <1>1 DEF BeginRun, hostVars, manualVars, w
  <2>4. ToolTypeOK' /\ \A g \in Machines : worker'[g] = IF g = h THEN w ELSE worker[g]
    BY <1>0, <2>2, <2>3 DEF ToolTypeOK
  <2>5. WorkersRun' /\ AttemptsDated' /\ ResultIsCurrent' /\ CloseJoins'
    <3>1. auto[h].revision + resets[h] = resets[h] + auto[h].revision
      BY <2>2, <1>0, ToolTypes
    <3> QED BY <1>0, <2>1, <2>2, <2>3, <2>4, <3>1 DEF WorkersRun, AttemptsDated, ResultIsCurrent, CloseJoins
  <2> QED BY <2>4, <2>5 DEF ToolInv, AttemptsEnd
<1>2. CASE CheckTool(h)
  <2>1. /\ worker[h] # NoWorker /\ worker[h].at # "begin"
        /\ UNCHANGED <<known, tool, enabled, starting, adding, auto, closing, asked, manual, updating, resets>>
    BY <1>2 DEF CheckTool, At, hostVars, manualVars
  <2>2. \/ worker' = [worker EXCEPT ![h].at = "pause"]
        \/ \E err \in BOOLEAN, got \in Releases \cup {"unknown"} : Result(h, err, got, FALSE)
    BY <1>2, <1>a DEF CheckTool
  <2>3. WorkersRun' /\ AttemptsDated' /\ AttemptsEnd' /\ worker' \in [Machines -> {NoWorker} \cup Worker]
    BY <2>1, <2>2, ResultMoves, WorkerReaches
  <2> QED BY <2>1, <2>3, <1>0 DEF ToolInv, ToolTypeOK
<1>3. CASE PauseTool(h)
  <2>1. /\ worker[h] # NoWorker /\ worker[h].at # "begin"
        /\ UNCHANGED <<known, tool, enabled, starting, adding, auto, closing, asked, manual, resets>>
        /\ updating' \in {updating, [updating EXCEPT ![h] = TRUE]}
    BY <1>3 DEF PauseTool, At, hostVars
  <2>2. \/ worker' = [worker EXCEPT ![h].at = "recheck"]
        \/ Result(h, TRUE, "unknown", FALSE)
    BY <1>3 DEF PauseTool
  <2>3. WorkersRun' /\ AttemptsDated' /\ AttemptsEnd' /\ worker' \in [Machines -> {NoWorker} \cup Worker]
    BY <2>1, <2>2, ResultMoves, WorkerReaches
  <2> QED BY <2>1, <2>3, <1>0 DEF ToolInv, ToolTypeOK
<1>4. CASE RecheckTool(h)
  <2>1. /\ worker[h] # NoWorker /\ worker[h].at # "begin"
        /\ UNCHANGED <<known, tool, enabled, starting, adding, auto, closing, asked, manual, resets>>
        /\ updating' \in {updating, [updating EXCEPT ![h] = FALSE]}
    BY <1>4 DEF RecheckTool, At, hostVars
  <2>2. \/ worker' = [worker EXCEPT ![h].at = "update"]
        \/ \E err \in BOOLEAN, got \in Releases \cup {"unknown"} : Result(h, err, got, FALSE)
    BY <1>4, <1>a DEF RecheckTool
  <2>3. WorkersRun' /\ AttemptsDated' /\ AttemptsEnd' /\ worker' \in [Machines -> {NoWorker} \cup Worker]
    BY <2>1, <2>2, ResultMoves, WorkerReaches
  <2> QED BY <2>1, <2>3, <1>0 DEF ToolInv, ToolTypeOK
<1>5. CASE UpdateTool(h)
  <2>1. /\ worker[h] # NoWorker /\ worker[h].at # "begin"
        /\ UNCHANGED <<known, enabled, starting, adding, auto, closing, asked, manual, resets>>
        /\ updating' = [updating EXCEPT ![h] = FALSE] /\ tool' \in {tool, [tool EXCEPT ![h] = "current"]}
    BY <1>5 DEF UpdateTool, At
  <2>2. \E err, attempted \in BOOLEAN, got \in Releases \cup {"unknown"} : Result(h, err, got, attempted)
    BY <1>5 DEF UpdateTool, Releases
  <2>3. WorkersRun' /\ AttemptsDated' /\ AttemptsEnd' /\ worker' \in [Machines -> {NoWorker} \cup Worker]
    BY <2>1, <2>2, ResultMoves
  <2>4. tool' \in [Machines -> Releases]
    BY <2>1, <1>0 DEF ToolTypeOK, Releases
  <2> QED BY <2>1, <2>3, <2>4, <1>0 DEF ToolInv, ToolTypeOK
<1>6. CASE FinishRun(h)
  <2> DEFINE w == worker[h]
             made == [auto[h] EXCEPT !.err = w.err, !.of = w.of,
                        !.updated = (w.attempted \/ w.previous) /\ ~w.err /\ w.got = "current"]
             v == [worker[h] EXCEPT !.at = "continue"]
  <2>1. w # NoWorker /\ w.at = "finish" /\ auto[h] # NoResult /\ auto[h].running
    BY <1>0, <1>6 DEF FinishRun, At, WorkersRun
  <2>2. w \in Worker /\ auto[h] \in AutoState /\ resets[h] \in Nat
    BY <2>1, <1>0, ToolTypes
  <2>3. made \in AutoState /\ made.running = auto[h].running /\ made.revision = auto[h].revision /\ made.of = w.of
    BY <2>2 DEF AutoState, Worker
  <2>4. auto' = (IF Records(h) THEN [auto EXCEPT ![h] = made] ELSE auto) /\ worker' = [worker EXCEPT ![h] = v]
    BY <1>0, <1>6, <2>1 DEF FinishRun, ToolTypeOK
  <2>5. v \in Worker /\ v.at = "continue" /\ v.revision = w.revision /\ v.of = w.of
    BY <2>2 DEF Worker
  <2>6. UNCHANGED <<known, tool, enabled, starting, adding, closing, asked, manual, updating, resets>>
    BY <1>6 DEF FinishRun, hostVars, manualVars
  <2>7. auto[h].revision + w.of = resets[h] + w.revision
    BY <2>1, <1>0 DEF AttemptsDated
  <2>8. Records(h) => w.of = resets[h]
    BY <2>2, <2>7 DEF Records, AutoState, Worker
  <2> HIDE DEF made, v, w
  <2>9. ToolTypeOK' /\ \A g \in Machines : /\ worker'[g] = IF g = h THEN v ELSE worker[g]
                                          /\ auto'[g] = IF g = h /\ Records(h) THEN made ELSE auto[g]
    BY <1>0, <2>3, <2>4, <2>5, <2>6 DEF ToolTypeOK
  <2>10. WorkersRun'
    BY <1>0, <2>1, <2>3, <2>9, ToolAssumption DEF WorkersRun
  <2>11. AttemptsDated'
    BY <1>0, <2>3, <2>5, <2>6, <2>7, <2>9 DEF AttemptsDated
  <2>12. ResultIsCurrent'
    BY <1>0, <2>3, <2>6, <2>8, <2>9 DEF ResultIsCurrent
  <2>13. CloseJoins'
    BY <1>0, <2>1, <2>6 DEF CloseJoins, w
  <2> QED BY <2>9, <2>10, <2>11, <2>12, <2>13 DEF ToolInv, AttemptsEnd
<1>7. CASE ContinueRun(h)
  <2> DEFINE made == [auto[h] EXCEPT !.running = Again(h), !.pending = FALSE]
  <2>1. worker[h] # NoWorker /\ auto[h] # NoResult /\ auto[h] \in AutoState
    BY <1>0, <1>7, ToolTypes DEF ContinueRun, At, WorkersRun
  <2>2. Again(h) \in BOOLEAN
    BY <2>1 DEF Again, AutoState, Closed
  <2>3. made \in AutoState /\ made.running = Again(h) /\ made.revision = auto[h].revision /\ made.of = auto[h].of
        /\ made.err = auto[h].err /\ made.updated = auto[h].updated
    BY <2>1, <2>2 DEF AutoState
  <2>4. /\ auto' = [auto EXCEPT ![h] = made]
        /\ worker' = [worker EXCEPT ![h] = IF Again(h) THEN NewWorker ELSE NoWorker]
        /\ UNCHANGED <<known, tool, enabled, starting, adding, closing, asked, manual, updating, resets>>
    BY <1>0, <1>7 DEF ContinueRun, ToolTypeOK, hostVars, manualVars
  <2> HIDE DEF made
  <2>5. ToolTypeOK' /\ \A g \in Machines : /\ worker'[g] = IF g = h THEN (IF Again(h) THEN NewWorker ELSE NoWorker) ELSE worker[g]
                                          /\ auto'[g] = IF g = h THEN made ELSE auto[g]
    BY <1>0, <2>3, <2>4, ToolTypes DEF ToolTypeOK
  <2>6. WorkersRun'
    BY <1>0, <2>3, <2>5, ToolAssumption DEF WorkersRun
  <2>7. AttemptsDated'
    BY <1>0, <2>4, <2>5, ToolTypes DEF AttemptsDated
  <2>8. ResultIsCurrent'
    BY <1>0, <2>1, <2>3, <2>4, <2>5 DEF ResultIsCurrent
  <2>9. CloseJoins'
    BY <1>0, <2>1, <2>4 DEF CloseJoins
  <2> QED BY <2>5, <2>6, <2>7, <2>8, <2>9 DEF ToolInv, AttemptsEnd
<1> QED BY <1>1, <1>2, <1>3, <1>4, <1>5, <1>6, <1>7 DEF Work

LEMMA ManualKeeps == ASSUME ToolInv, NEW h \in Machines, Manual(h) PROVE ToolInv'
<1>0. ToolTypeOK
  BY DEF ToolInv
<1>1. CASE InstallBegins(h) \/ InstallEnds(h)
  <2>1. /\ UNCHANGED <<known, enabled, starting, adding, auto, worker, closing, asked, resets>>
        /\ manual' \in [Machines -> {"idle", "holding", "installed"}] /\ updating' \in [Machines -> BOOLEAN]
        /\ tool' \in [Machines -> Releases]
    BY <1>0, <1>1 DEF InstallBegins, InstallEnds, ToolTypeOK, Releases, hostVars, serviceVars
  <2>2. ToolTypeOK'
    BY <2>1, <1>0 DEF ToolTypeOK
  <2> QED BY <2>1, <2>2, HostsMove
<1>2. CASE InstallResets(h)
  <2>1. /\ manual' = [manual EXCEPT ![h] = "idle"] /\ Starts({}, {h})
        /\ UNCHANGED <<known, tool, enabled, starting, adding, closing, updating>>
    BY <1>2 DEF InstallResets, hostVars
  <2>2. manual' \in [Machines -> {"idle", "holding", "installed"}]
    BY <2>1, <1>0 DEF ToolTypeOK
  <2>3. /\ auto' \in [Machines -> {NoResult} \cup AutoState] /\ worker' \in [Machines -> {NoWorker} \cup Worker]
        /\ resets' \in [Machines -> Nat] /\ asked' \in [Machines -> BOOLEAN]
        /\ WorkersRun' /\ AttemptsDated' /\ AttemptsEnd'
    BY <2>1, StartsKeeps
  <2> QED BY <2>1, <2>2, <2>3, <1>0 DEF ToolInv, ToolTypeOK
<1> QED BY <1>1, <1>2 DEF Manual

LEMMA ToolStep == ToolInv /\ [ToolNext]_toolVars => ToolInv'
<1> SUFFICES ASSUME ToolInv, [ToolNext]_toolVars PROVE ToolInv'
  OBVIOUS
<1>0. ToolTypeOK
  BY DEF ToolInv
<1>1. CASE \E on \in BOOLEAN : SetAutoUpdate(on)
  <2>1. /\ UNCHANGED <<known, tool, adding, auto, worker, closing, asked, manual, updating, resets>>
        /\ enabled' \in BOOLEAN /\ starting' \in BOOLEAN
    BY <1>0, <1>1 DEF SetAutoUpdate, serviceVars, manualVars, ToolTypeOK
  <2>2. ToolTypeOK'
    BY <2>1, <1>0 DEF ToolTypeOK
  <2> QED BY <2>1, <2>2, HostsMove
<1>2. ASSUME NEW hosts \in SUBSET Machines, NEW reset \in SUBSET Machines, Starts(hosts, reset),
             UNCHANGED <<known, tool, enabled, closing, manual, updating>>, starting' \in BOOLEAN, adding' \subseteq Machines
      PROVE  ToolInv'
  <2>1. /\ auto' \in [Machines -> {NoResult} \cup AutoState] /\ worker' \in [Machines -> {NoWorker} \cup Worker]
        /\ resets' \in [Machines -> Nat] /\ asked' \in [Machines -> BOOLEAN]
        /\ WorkersRun' /\ AttemptsDated' /\ AttemptsEnd'
    BY <1>2, StartsKeeps
  <2> QED BY <2>1, <1>2, <1>0 DEF ToolInv, ToolTypeOK
<1>3. CASE StartAutoUpdates
  <2>1. (IF enabled THEN known ELSE {}) \in SUBSET Machines /\ {} \in SUBSET Machines
    BY <1>0 DEF ToolTypeOK
  <2> QED BY <2>1, <1>2, <1>0, <1>3 DEF StartAutoUpdates, ToolTypeOK
<1>4. CASE \E h \in Machines : AfterHostAdded(h)
  <2>1. PICK h \in Machines : AfterHostAdded(h)
    BY <1>4
  <2>2. (IF enabled THEN {h} ELSE {}) \in SUBSET Machines /\ {h} \in SUBSET Machines
    OBVIOUS
  <2>3. adding' \subseteq Machines /\ starting' \in BOOLEAN
    BY <2>1, <1>0 DEF AfterHostAdded, ToolTypeOK
  <2> QED BY <2>1, <2>2, <2>3, <1>2 DEF AfterHostAdded
<1>5. CASE CloseService \/ Joined
  <2>1. /\ UNCHANGED <<known, tool, enabled, starting, adding, auto, worker, asked, manual, updating, resets>>
        /\ closing' \in {"closed", "joined"} /\ (closing' = "joined" => \A h \in Machines : worker[h] = NoWorker)
    BY <1>5 DEF CloseService, Joined, hostVars, manualVars
  <2>2. ToolTypeOK'
    BY <2>1, <1>0 DEF ToolTypeOK
  <2> QED BY <2>1, <2>2, HostsMove
<1>6. CASE \E h \in Machines : AddHost(h) \/ RemoveHost(h) \/ Change(h)
  <2>1. /\ UNCHANGED <<enabled, starting, auto, worker, closing, asked, manual, updating, resets>>
        /\ known' \subseteq Machines /\ adding' \subseteq Machines /\ tool' \in [Machines -> Releases]
    BY <1>0, <1>6 DEF AddHost, RemoveHost, Change, ToolTypeOK, Releases, serviceVars, manualVars
  <2>2. ToolTypeOK'
    BY <2>1, <1>0 DEF ToolTypeOK
  <2> QED BY <2>1, <2>2, HostsMove
<1>7. CASE \E h \in Machines : Work(h)
  BY <1>7, WorkKeeps
<1>8. CASE \E h \in Machines : Manual(h)
  BY <1>8, ManualKeeps
<1>9. CASE UNCHANGED toolVars
  <2>1. UNCHANGED <<known, tool, enabled, starting, adding, auto, worker, closing, asked, manual, updating, resets>>
    BY <1>9 DEF toolVars, hostVars, serviceVars, manualVars
  <2>2. ToolTypeOK'
    BY <2>1, <1>0 DEF ToolTypeOK
  <2> QED BY <2>1, <2>2, HostsMove
<1> QED BY <1>1, <1>3, <1>4, <1>5, <1>6, <1>7, <1>8, <1>9 DEF ToolNext

\* No attempt of a background update speaks for a machine or an installation
\* it did not see, and none goes on once the service was closed.
THEOREM AttemptsEndCorrect == ToolSpec => []AttemptsEnd
<1>1. ToolInv => AttemptsEnd
  BY DEF ToolInv
<1> QED BY <1>1, ToolInvInit, ToolStep, PTL DEF ToolSpec

\* A tool its user removed comes back by a manual installation alone.
THEOREM NeverInstallsCorrect == ToolSpec => NeverInstalls
<1> DEFINE OnlyManual == \A h \in known : tool[h] = "missing" /\ tool'[h] = "current" => manual[h] = "holding"
<1>1. ToolInv /\ [ToolNext]_toolVars => [OnlyManual]_toolVars
  <2> SUFFICES ASSUME ToolInv, ToolNext PROVE OnlyManual
    OBVIOUS
  <2> SUFFICES ASSUME NEW h \in known, tool[h] = "missing", tool'[h] = "current" PROVE manual[h] = "holding"
    OBVIOUS
  <2>1. tool \in [Machines -> Releases] /\ h \in Machines
    BY DEF ToolInv, ToolTypeOK
  <2>2. tool' # tool
    <3>1. "missing" # "current"
      OBVIOUS
    <3>2. tool'[h] # tool[h]
      BY <3>1
    <3> QED BY ONLY <3>2
  <2>3. \E g \in Machines : AddHost(g) \/ Change(g) \/ UpdateTool(g) \/ InstallEnds(g)
    BY <2>2 DEF ToolNext, SetAutoUpdate, StartAutoUpdates, CloseService, Joined, AfterHostAdded, RemoveHost, Work,
                Manual, BeginRun, CheckTool, PauseTool, RecheckTool, FinishRun, ContinueRun, InstallBegins,
                InstallResets, hostVars
  <2>4. PICK g \in Machines : AddHost(g) \/ Change(g) \/ UpdateTool(g) \/ InstallEnds(g)
    BY <2>3
  <2>5. CASE AddHost(g)
    BY <2>1, <2>5 DEF AddHost
  <2>6. CASE Change(g)
    BY <2>1, <2>6 DEF Change
  <2>7. CASE UpdateTool(g)
    BY <2>1, <2>7 DEF UpdateTool, MayUpdate
  <2>8. CASE InstallEnds(g)
    BY <2>1, <2>8 DEF InstallEnds
  <2> QED BY <2>4, <2>5, <2>6, <2>7, <2>8
<1> QED BY <1>1, ToolInvInit, ToolStep, PTL DEF ToolSpec, NeverInstalls

-----------------------------------------------------------------------------
(***************************************************************************)
(* The command center.  Until the last event of a turn everything its      *)
(* client was sent, or is to be sent, is a line of this turn, and all the  *)
(* lines as long as no write failed (`LinesSoFar`); the channel that a     *)
(* handler does not read is empty (`QueriesOpen`).                         *)
(***************************************************************************)
QueriesOpen ==
  \A c \in Clients : /\ turn[c] # NoTurn => ~ended[c] /\ handler[c] = "streaming"
                     /\ handler[c] # "streaming" => events[c] = <<>>

TurnsNamed ==
  \A c \in Clients : turn[c] # NoTurn /\ turn[c].at \in {"running", "waiting"} =>
    /\ turn[c].id \in 1..MaxTurns
    /\ turn[c].at = "waiting" /\ turn[c].ends = "success" => turn[c].id \in claude

\* An answer that is all lines of one turn.
AllLines(a, n) == \A i \in 1..Len(a) : a[i].type = "line" /\ a[i].of = n

Answering(c) == turn[c] # NoTurn /\ turn[c].at \in {"starting", "running", "waiting"}

LinesSoFar ==
  \A c \in Clients : Answering(c) =>
    AllLines(Answer(c), turn[c].n) /\ (writable[c] => Len(Answer(c)) = turn[c].lines)

\* What AnswerIsWhole says of one answer, with a history.
InHistory(n, lines, h) == \E i \in 1..Len(h) : h[i] = [turn |-> n, lines |-> lines]

Whole(a, h) ==
  /\ \A i \in 1..Len(a) : i < Len(a) => a[i].type = "line" /\ a[i].of = a[Len(a)].of
  /\ (a # <<>> /\ a[Len(a)].type = "done" /\ ~a[Len(a)].warned) => InHistory(a[Len(a)].of, Len(a) - 1, h)

Written == [turn : 1..MaxTurns, lines : 0..MaxLines]

LEMMA WholeAnswers == AnswerIsWhole <=> \A c \in Clients : Whole(Answer(c), history)
BY DEF AnswerIsWhole, Whole, InHistory, Last

CommandInv ==
  CommandTypeOK /\ QueriesOpen /\ TurnsNamed /\ LinesSoFar /\ OneTurnAtATime /\ AnswerIsWhole /\ SessionWasHeld

LEMMA AnswerTypes ==
  ASSUME CommandTypeOK, NEW c \in Clients
  PROVE  /\ turn[c] \in {NoTurn} \cup TurnState /\ events[c] \in Seq(CommandEvents) /\ frames[c] \in Seq(CommandEvents)
         /\ writable[c] \in BOOLEAN /\ Answer(c) \in Seq(CommandEvents)
         /\ Answer(c) = IF writable[c] THEN frames[c] \o events[c] ELSE frames[c]
BY ConcatProperties DEF CommandTypeOK, Answer

LEMMA NoAnswer ==
  ASSUME NEW h PROVE Whole(<<>>, h)
BY DEF Whole

LEMMA OneEventIsWhole ==
  ASSUME NEW e \in CommandEvents, e.type # "done", NEW h PROVE Whole(<<e>>, h)
BY DEF Whole

LEMMA LinesAreWhole ==
  ASSUME NEW a \in Seq(CommandEvents), NEW n, AllLines(a, n), NEW h PROVE Whole(a, h)
<1>1. Len(a) \in Nat /\ (a # <<>> => Len(a) \in 1..Len(a))
  BY EmptySeq, LenProperties
<1> QED BY <1>1 DEF Whole, AllLines

LEMMA LastIsWhole ==
  ASSUME NEW a \in Seq(CommandEvents), NEW n, AllLines(a, n), NEW e \in CommandEvents, e.of = n, NEW h,
         e.type = "done" /\ ~e.warned => InHistory(n, Len(a), h)
  PROVE  Whole(Append(a, e), h)
<1> DEFINE b == Append(a, e)
<1>1. /\ Len(b) = Len(a) + 1 /\ b[Len(b)] = e /\ \A i \in 1..Len(a) : b[i] = a[i]
      /\ Len(a) \in Nat
  BY AppendProperties, LenProperties
<1> HIDE DEF b
<1>2. \A i \in 1..Len(b) : i < Len(b) => b[i].type = "line" /\ b[i].of = b[Len(b)].of
  BY <1>1 DEF AllLines
<1>3. Len(b) - 1 = Len(a)
  BY <1>1
<1> QED BY <1>1, <1>2, <1>3 DEF Whole

\* An answer that was cut short.
LEMMA PrefixIsWhole ==
  ASSUME NEW a \in Seq(CommandEvents), NEW h, Whole(a, h), NEW b \in Seq(CommandEvents), Len(b) < Len(a),
         \A i \in 1..Len(b) : b[i] = a[i]
  PROVE  Whole(b, h)
<1>1. Len(a) \in Nat /\ Len(b) \in Nat /\ (b # <<>> => Len(b) \in 1..Len(b))
  BY EmptySeq, LenProperties
<1>2. \A i \in 1..Len(b) : b[i].type = "line" /\ b[i].of = a[Len(a)].of
  BY <1>1 DEF Whole
<1> QED BY <1>1, <1>2 DEF Whole

LEMMA HistoryGrows ==
  ASSUME NEW h \in Seq(Written), NEW x \in Written
  PROVE  /\ Append(h, x) \in Seq(Written) /\ InHistory(x.turn, x.lines, Append(h, x))
         /\ \A a : Whole(a, h) => Whole(a, Append(h, x))
<1>1. /\ Append(h, x) \in Seq(Written) /\ Len(Append(h, x)) = Len(h) + 1 /\ Append(h, x)[Len(h) + 1] = x
      /\ (\A i \in 1..Len(h) : Append(h, x)[i] = h[i]) /\ Len(h) \in Nat
  BY AppendProperties, LenProperties
<1>2. x = [turn |-> x.turn, lines |-> x.lines]
  BY DEF Written
<1>3. InHistory(x.turn, x.lines, Append(h, x))
  BY <1>1, <1>2 DEF InHistory
<1>4. \A n, lines : InHistory(n, lines, h) => InHistory(n, lines, Append(h, x))
  BY <1>1 DEF InHistory
<1> QED BY <1>1, <1>3, <1>4 DEF Whole

LEMMA AppendToConcat ==
  ASSUME NEW S, NEW s \in Seq(S), NEW t \in Seq(S), NEW e \in S
  PROVE  s \o Append(t, e) = Append(s \o t, e)
<1> DEFINE u == Append(t, e)
           v == s \o t
<1>1. Len(s) \in Nat /\ Len(t) \in Nat
  BY LenProperties
<1>2. u \in Seq(S) /\ Len(u) = Len(t) + 1 /\ (\A i \in 1..Len(t) : u[i] = t[i]) /\ u[Len(t) + 1] = e
  BY AppendProperties
<1>3. /\ v \in Seq(S) /\ Len(v) = Len(s) + Len(t)
      /\ \A i \in 1..Len(s) + Len(t) : v[i] = IF i <= Len(s) THEN s[i] ELSE t[i - Len(s)]
  BY ConcatProperties
<1> HIDE DEF u, v
<1>a. ASSUME NEW q \in Seq(S)
      PROVE  /\ Append(q, e) \in Seq(S) /\ Len(Append(q, e)) = Len(q) + 1
             /\ (\A i \in 1..Len(q) : Append(q, e)[i] = q[i]) /\ Append(q, e)[Len(q) + 1] = e
  BY AppendProperties
<1> DEFINE w == s \o u
           x == Append(v, e)
<1>4. /\ w \in Seq(S) /\ Len(w) = Len(s) + Len(u)
      /\ \A i \in 1..Len(s) + Len(u) : w[i] = IF i <= Len(s) THEN s[i] ELSE u[i - Len(s)]
  BY <1>2, ConcatProperties
<1>5. /\ x \in Seq(S) /\ Len(x) = Len(v) + 1
      /\ (\A i \in 1..Len(v) : x[i] = v[i]) /\ x[Len(v) + 1] = e
  <2>1. v \in Seq(S)
    BY <1>3
  <2> QED BY <2>1, <1>a
<1> HIDE DEF w, x
<1>6. ASSUME NEW i \in 1..Len(w) PROVE w[i] = x[i]
  <2>1. i \in Nat /\ i >= 1 /\ i <= Len(s) + Len(t) + 1 /\ i \in 1..Len(s) + Len(u)
    BY <1>1, <1>2, <1>4
  <2>2. w[i] = IF i <= Len(s) THEN s[i] ELSE u[i - Len(s)]
    BY <2>1, <1>4
  <2>3. CASE i = Len(s) + Len(t) + 1
    <3>1. ~(i <= Len(s)) /\ i - Len(s) = Len(t) + 1 /\ i = Len(v) + 1
      BY <2>3, <1>1, <1>3
    <3> QED BY <3>1, <2>2, <1>2, <1>5
  <2>4. CASE i # Len(s) + Len(t) + 1
    <3>1. i \in 1..Len(s) + Len(t) /\ i \in 1..Len(v)
      <4>1. ASSUME NEW n \in Nat, i <= n + 1, i # n + 1 PROVE i \in 1..n
        BY <2>1, <4>1
      <4>2. i \in 1..Len(s) + Len(t)
        BY <1>1, <2>1, <2>4, <4>1
      <4> QED BY <1>3, <4>2
    <3>2. x[i] = v[i] /\ v[i] = IF i <= Len(s) THEN s[i] ELSE t[i - Len(s)]
      BY <3>1, <1>3, <1>5
    <3>3. ~(i <= Len(s)) => i - Len(s) \in 1..Len(t)
      BY <3>1, <1>1
    <3> QED BY <3>2, <3>3, <2>2, <1>2
  <2> QED BY <2>3, <2>4
<1>7. Len(w) = Len(x)
  BY <1>1, <1>2, <1>3, <1>4, <1>5
<1>8. w = x
  BY <1>4, <1>5, <1>6, <1>7, SeqEqual
<1> QED BY <1>8 DEF u, v, w, x

LEMMA HeadMoves ==
  ASSUME NEW S, NEW s \in Seq(S), NEW t \in Seq(S), t # <<>>
  PROVE  /\ Append(s, Head(t)) \o Tail(t) = s \o t /\ Append(s, Head(t)) \in Seq(S) /\ Tail(t) \in Seq(S)
         /\ Len(s) < Len(s \o t) /\ \A i \in 1..Len(s) : (s \o t)[i] = s[i]
<1> DEFINE e == Head(t)
           r == Tail(t)
           v == s \o t
<1>1. Len(s) \in Nat /\ Len(t) \in Nat \ {0}
  BY LenProperties, EmptySeq
<1>2. e \in S /\ e = t[1] /\ r \in Seq(S) /\ Len(r) = Len(t) - 1 /\ \A i \in 1..Len(r) : r[i] = t[i + 1]
  BY HeadTailProperties
<1>3. /\ v \in Seq(S) /\ Len(v) = Len(s) + Len(t)
      /\ \A i \in 1..Len(s) + Len(t) : v[i] = IF i <= Len(s) THEN s[i] ELSE t[i - Len(s)]
  BY ConcatProperties
<1> DEFINE f == Append(s, e)
<1> HIDE DEF e, r, v
<1>4. f \in Seq(S) /\ Len(f) = Len(s) + 1 /\ f[Len(s) + 1] = e /\ \A i \in 1..Len(s) : f[i] = s[i]
  BY <1>2, AppendProperties
<1> DEFINE w == f \o r
<1> HIDE DEF f
<1>5. /\ w \in Seq(S) /\ Len(w) = Len(f) + Len(r)
      /\ \A i \in 1..Len(f) + Len(r) : w[i] = IF i <= Len(f) THEN f[i] ELSE r[i - Len(f)]
  BY <1>2, <1>4, ConcatProperties
<1> HIDE DEF w
<1>6. Len(w) = Len(v) /\ Len(w) = Len(s) + Len(t)
  BY <1>1, <1>2, <1>3, <1>4, <1>5
<1>7. ASSUME NEW i \in 1..Len(w) PROVE w[i] = v[i]
  <2>1. i \in Nat /\ i >= 1 /\ i \in 1..Len(s) + Len(t) /\ i \in 1..Len(f) + Len(r)
    BY <1>1, <1>5, <1>6
  <2>2. /\ w[i] = IF i <= Len(f) THEN f[i] ELSE r[i - Len(f)]
        /\ v[i] = IF i <= Len(s) THEN s[i] ELSE t[i - Len(s)]
    BY <2>1, <1>3, <1>5
  <2>3. CASE i <= Len(s)
    <3>1. i \in 1..Len(s) /\ i <= Len(f)
      BY <2>1, <2>3, <1>1, <1>4
    <3> QED BY <3>1, <2>2, <2>3, <1>4
  <2>4. CASE i = Len(s) + 1
    <3>1. i <= Len(f) /\ ~(i <= Len(s)) /\ i - Len(s) = 1
      BY <2>1, <2>4, <1>1, <1>4
    <3> QED BY <3>1, <2>2, <2>4, <1>2, <1>4
  <2>5. CASE i > Len(s) + 1
    <3>1. /\ ~(i <= Len(f)) /\ ~(i <= Len(s)) /\ i - Len(f) \in 1..Len(r)
          /\ (i - Len(f)) + 1 = i - Len(s)
      BY <2>1, <2>5, <1>1, <1>2, <1>4
    <3> QED BY <3>1, <2>2, <1>2
  <2> QED BY <2>1, <2>3, <2>4, <2>5, <1>1
<1>8. w = v
  BY <1>3, <1>5, <1>6, <1>7, SeqEqual
<1>9. Len(s) < Len(v)
  BY <1>1, <1>3
<1>10. ASSUME NEW i \in 1..Len(s) PROVE v[i] = s[i]
  <2>1. i \in 1..Len(s) + Len(t) /\ i <= Len(s)
    BY <1>1
  <2> QED BY <2>1, <1>3
<1> QED BY <1>2, <1>4, <1>8, <1>9, <1>10 DEF e, r, v, f, w

\* What an answer becomes when an event is put in the channel.
LEMMA Emits ==
  ASSUME CommandTypeOK, NEW c \in Clients, NEW e \in CommandEvents, Emit(c, e), UNCHANGED <<frames, writable>>
  PROVE  /\ events' \in [Clients -> Seq(CommandEvents)]
         /\ Answer(c)' = IF writable[c] THEN Append(Answer(c), e) ELSE Answer(c)
         /\ \A d \in Clients \ {c} : events'[d] = events[d] /\ Answer(d)' = Answer(d)
<1>1. events[c] \in Seq(CommandEvents) /\ frames[c] \in Seq(CommandEvents)
  BY AnswerTypes
<1>2. Append(events[c], e) \in Seq(CommandEvents)
  BY <1>1, AppendProperties
<1>3. /\ events' \in [Clients -> Seq(CommandEvents)] /\ events'[c] = Append(events[c], e)
      /\ \A d \in Clients \ {c} : events'[d] = events[d]
  BY <1>2 DEF Emit, CommandTypeOK
<1>4. \A d \in Clients \ {c} : Answer(d)' = Answer(d)
  BY <1>3 DEF Answer
<1>5. frames[c] \o Append(events[c], e) = Append(frames[c] \o events[c], e)
  <2> HIDE DEF CommandEvents
  <2>1. \A f, v \in Seq(CommandEvents) : f \o Append(v, e) = Append(f \o v, e)
    BY AppendToConcat
  <2> DEFINE f == frames[c]
             v == events[c]
  <2>2. f \in Seq(CommandEvents) /\ v \in Seq(CommandEvents)
    BY <1>1
  <2> HIDE DEF f, v
  <2>3. f \o Append(v, e) = Append(f \o v, e)
    BY <2>1, <2>2
  <2> QED BY <2>3 DEF f, v
<1> QED BY <1>3, <1>4, <1>5 DEF Answer

\* Only what a client's turn does, or its handler, touches its answer.
LEMMA AnswersStay ==
  ASSUME UNCHANGED <<events, frames, writable>>
  PROVE  \A d : Answer(d)' = Answer(d)
BY DEF Answer

LEMMA TurnChanges ==
  ASSUME CommandTypeOK, NEW c \in Clients, NEW t \in TurnState, turn' = [turn EXCEPT ![c] = t]
  PROVE  /\ turn' \in [Clients -> {NoTurn} \cup TurnState] /\ turn'[c] = t /\ t # NoTurn
         /\ \A d \in Clients \ {c} : turn'[d] = turn[d]
BY CommandAssumption DEF CommandTypeOK

LEMMA CommandInitInv == CommandInit => CommandInv
<1> SUFFICES ASSUME CommandInit PROVE CommandInv
  OBVIOUS
<1>1. CommandTypeOK
  <2>1. <<>> \in Seq(CommandEvents) /\ <<>> \in Seq([turn : 1..MaxTurns, lines : 0..MaxLines]) /\ 0 \in 0..MaxTurns
    BY CommandAssumption, EmptySeq
  <2> QED BY <2>1 DEF CommandInit, CommandTypeOK
<1>2. \A c \in Clients : turn[c] = NoTurn /\ handler[c] = "reading" /\ events[c] = <<>> /\ frames[c] = <<>> /\ writable[c]
  BY DEF CommandInit
<1>3. \A c \in Clients : Answer(c) = <<>>
  BY <1>2, ConcatEmptySeq, EmptySeq DEF Answer
<1>4. AnswerIsWhole
  BY <1>3, NoAnswer, WholeAnswers
<1>5. SessionWasHeld
  BY DEF CommandInit, SessionWasHeld
<1> QED BY <1>1, <1>2, <1>4, <1>5 DEF CommandInv, QueriesOpen, TurnsNamed, LinesSoFar, Answering, OneTurnAtATime, Working

\* Its goroutine goes on to the process, or to what comes after it.
LEMMA TurnGoesOn ==
  ASSUME CommandInv, NEW c \in Clients, turn[c] # NoTurn, turn[c].at \in {"starting", "running"},
         NEW t \in TurnState, turn' = [turn EXCEPT ![c] = t], t.at \in {"running", "waiting"},
         t.n = turn[c].n, t.lines = turn[c].lines, t.id \in 1..MaxTurns,
         claude \subseteq claude', claude' \subseteq 1..MaxTurns,
         t.at = "waiting" /\ t.ends = "success" => t.id \in claude',
         UNCHANGED <<busy, turns, events, ended, session, history, handler, writable, frames>>
  PROVE  CommandInv'
<1>0. CommandTypeOK /\ QueriesOpen /\ TurnsNamed /\ LinesSoFar /\ OneTurnAtATime /\ AnswerIsWhole /\ SessionWasHeld
  BY DEF CommandInv
<1>1. /\ turn' \in [Clients -> {NoTurn} \cup TurnState] /\ turn'[c] = t /\ t # NoTurn
      /\ \A d \in Clients \ {c} : turn'[d] = turn[d]
  BY <1>0, TurnChanges
<1>2. \A d : Answer(d)' = Answer(d)
  BY AnswersStay
<1>3. CommandTypeOK'
  BY <1>0, <1>1 DEF CommandTypeOK
<1>4. QueriesOpen'
  BY <1>0, <1>1 DEF QueriesOpen
<1>5. TurnsNamed'
  BY <1>0, <1>1 DEF TurnsNamed
<1>6. LinesSoFar'
  BY <1>0, <1>1, <1>2 DEF LinesSoFar, Answering
<1>7. OneTurnAtATime'
  BY <1>0, <1>1 DEF OneTurnAtATime, Working
<1>8. AnswerIsWhole'
  BY <1>0, <1>2 DEF AnswerIsWhole
<1>9. SessionWasHeld'
  BY <1>0 DEF SessionWasHeld
<1> QED BY <1>3, <1>4, <1>5, <1>6, <1>7, <1>8, <1>9 DEF CommandInv

\* Its last event, with what was written to the files before.
LEMMA FinishKeeps ==
  ASSUME CommandInv, NEW c \in Clients, Answering(c),
         NEW type \in {"done", "error"}, NEW warned \in BOOLEAN, Finish(c, type, warned),
         history' \in Seq(Written), \A a : Whole(a, history) => Whole(a, history'),
         type = "done" /\ ~warned => InHistory(turn[c].n, turn[c].lines, history'),
         session' \in {NoSession} \cup 1..MaxTurns, session' # NoSession => session' \in claude,
         UNCHANGED <<busy, turns, ended, claude, handler, writable, frames>>
  PROVE  CommandInv'
<1> DEFINE e == Event(type, turn[c].n, warned)
           t == [turn[c] EXCEPT !.at = "finished"]
<1>0. CommandTypeOK /\ QueriesOpen /\ TurnsNamed /\ LinesSoFar /\ OneTurnAtATime /\ AnswerIsWhole /\ SessionWasHeld
  BY DEF CommandInv
<1>1. turn[c] # NoTurn /\ turn[c] \in TurnState
  BY <1>0, AnswerTypes DEF Answering
<1>2. e \in CommandEvents /\ e.type = type /\ e.of = turn[c].n /\ e.warned = warned
  BY <1>1, CommandAssumption DEF Event, CommandEvents, TurnState
<1>3. t \in TurnState /\ t.at = "finished" /\ turn' = [turn EXCEPT ![c] = t]
  BY <1>0, <1>1 DEF Finish, TurnState, CommandTypeOK
<1>4. Emit(c, e)
  BY DEF Finish
<1> HIDE DEF e, t
<1>5. /\ turn' \in [Clients -> {NoTurn} \cup TurnState] /\ turn'[c] = t /\ t # NoTurn
      /\ \A d \in Clients \ {c} : turn'[d] = turn[d]
  BY <1>0, <1>3, TurnChanges
<1>6. /\ events' \in [Clients -> Seq(CommandEvents)]
      /\ Answer(c)' = IF writable[c] THEN Append(Answer(c), e) ELSE Answer(c)
      /\ \A d \in Clients \ {c} : events'[d] = events[d] /\ Answer(d)' = Answer(d)
  BY <1>0, <1>2, <1>4, Emits
<1>7. CommandTypeOK'
  BY <1>0, <1>5, <1>6 DEF CommandTypeOK, Written
<1>8. QueriesOpen'
  BY <1>0, <1>1, <1>5, <1>6 DEF QueriesOpen
<1>9. TurnsNamed'
  BY <1>0, <1>3, <1>5 DEF TurnsNamed
<1>10. LinesSoFar'
  BY <1>0, <1>3, <1>5, <1>6 DEF LinesSoFar, Answering
<1>11. OneTurnAtATime'
  BY <1>0, <1>1, <1>3, <1>5 DEF OneTurnAtATime, Working, Answering
<1>12. Whole(Answer(c)', history')
  <2>1. /\ Answer(c) \in Seq(CommandEvents) /\ AllLines(Answer(c), turn[c].n)
        /\ writable[c] => Len(Answer(c)) = turn[c].lines
    BY <1>0, AnswerTypes DEF LinesSoFar
  <2>2. CASE writable[c]
    <3>1. e.type = "done" /\ ~e.warned => InHistory(turn[c].n, Len(Answer(c)), history')
      BY <2>1, <2>2, <1>2
    <3>2. Whole(Append(Answer(c), e), history')
      BY <2>1, <3>1, <1>2, LastIsWhole
    <3> QED BY <2>2, <3>2, <1>6
  <2>3. CASE ~writable[c]
    BY <2>1, <2>3, <1>6, LinesAreWhole
  <2> QED BY <2>2, <2>3
<1>13. AnswerIsWhole'
  <2>1. \A d \in Clients : Whole(Answer(d)', history')
    BY <1>0, <1>6, <1>12, WholeAnswers
  <2> QED BY <2>1 DEF AnswerIsWhole, Whole, InHistory, Last
<1>14. SessionWasHeld'
  BY DEF SessionWasHeld
<1> QED BY <1>7, <1>8, <1>9, <1>10, <1>11, <1>13, <1>14 DEF CommandInv

LEMMA PromptKeeps == ASSUME CommandInv, NEW c \in Clients, Prompt(c) PROVE CommandInv'
<1>0. CommandTypeOK /\ QueriesOpen /\ TurnsNamed /\ LinesSoFar /\ OneTurnAtATime /\ AnswerIsWhole /\ SessionWasHeld
  BY DEF CommandInv
<1>1. handler[c] = "reading" /\ turn[c] = NoTurn /\ events[c] = <<>>
  BY <1>0 DEF Prompt, QueriesOpen
<1>2. <<>> \in Seq(CommandEvents)
  BY EmptySeq
<1>3. CASE Free
  <2> DEFINE t == [at |-> "starting", n |-> turns + 1, id |-> NoSession, first |-> FALSE, lines |-> 0, ends |-> "none"]
  <2>1. /\ busy' = TRUE /\ turns' = turns + 1 /\ turns + 1 \in 1..MaxTurns /\ turn' = [turn EXCEPT ![c] = t]
        /\ events' = [events EXCEPT ![c] = <<>>] /\ ended' = [ended EXCEPT ![c] = FALSE]
        /\ handler' = [handler EXCEPT ![c] = "streaming"]
        /\ writable' = [writable EXCEPT ![c] = TRUE] /\ frames' = [frames EXCEPT ![c] = <<>>]
        /\ UNCHANGED <<session, history, claude>>
    BY <1>0, <1>3, CommandAssumption DEF Prompt, filesVars, CommandTypeOK
  <2>2. t \in TurnState /\ t.at = "starting" /\ t.lines = 0
    BY <2>1, CommandAssumption DEF TurnState
  <2> HIDE DEF t
  <2>3. /\ turn' \in [Clients -> {NoTurn} \cup TurnState] /\ turn'[c] = t /\ t # NoTurn
        /\ \A d \in Clients \ {c} : turn'[d] = turn[d]
    BY <1>0, <2>1, <2>2, TurnChanges
  <2>4. CommandTypeOK'
    BY <1>0, <1>2, <2>1, <2>3 DEF CommandTypeOK
  <2>5. Answer(c)' = <<>> /\ \A d \in Clients \ {c} : Answer(d)' = Answer(d)
    <3>1. \A d \in Clients \ {c} : events'[d] = events[d] /\ frames'[d] = frames[d] /\ writable'[d] = writable[d]
      BY <1>0, <2>1 DEF CommandTypeOK
    <3>2. events'[c] = <<>> /\ frames'[c] = <<>>
      BY <1>0, <2>1 DEF CommandTypeOK
    <3>3. <<>> \o <<>> = <<>>
      BY <1>2, ConcatEmptySeq
    <3> QED BY <3>1, <3>2, <3>3 DEF Answer
  <2>6. QueriesOpen'
    BY <1>0, <2>1, <2>3 DEF QueriesOpen, CommandTypeOK
  <2>7. TurnsNamed'
    BY <1>0, <2>1, <2>2, <2>3 DEF TurnsNamed
  <2>8. LinesSoFar'
    <3> SUFFICES ASSUME NEW d \in Clients, Answering(d)'
                 PROVE  AllLines(Answer(d)', turn'[d].n) /\ (writable'[d] => Len(Answer(d)') = turn'[d].lines)
      BY DEF LinesSoFar, AllLines
    <3>1. CASE d = c
      BY <3>1, <2>2, <2>3, <2>5 DEF AllLines
    <3>2. CASE d # c
      BY <3>2, <1>0, <2>1, <2>3, <2>5 DEF LinesSoFar, Answering, CommandTypeOK
    <3> QED BY <3>1, <3>2
  <2>9. OneTurnAtATime'
    BY <1>0, <1>3, <2>1, <2>3 DEF OneTurnAtATime, Working, Free
  <2>10. AnswerIsWhole'
    <3>1. \A d \in Clients : Whole(Answer(d)', history')
      BY <1>0, <2>1, <2>5, NoAnswer, WholeAnswers
    <3> QED BY <3>1 DEF AnswerIsWhole, Whole, InHistory, Last
  <2>11. SessionWasHeld'
    BY <1>0, <2>1 DEF SessionWasHeld
  <2> QED BY <2>4, <2>6, <2>7, <2>8, <2>9, <2>10, <2>11 DEF CommandInv
<1>4. CASE ~Free
  <2> DEFINE e == Event("busy", 0, FALSE)
  <2>1. /\ \/ frames' = [frames EXCEPT ![c] = <<e>>] /\ UNCHANGED handler
           \/ handler' = [handler EXCEPT ![c] = "gone"] /\ UNCHANGED frames
        /\ UNCHANGED <<busy, turn, turns, events, ended, session, history, claude, writable>>
    BY <1>4 DEF Prompt, runnerVars, filesVars
  <2>2. e \in CommandEvents /\ e.type # "done" /\ <<e>> \in Seq(CommandEvents)
    BY CommandAssumption DEF Event, CommandEvents
  <2> HIDE DEF e
  <2>3. CommandTypeOK'
    BY <1>0, <2>1, <2>2 DEF CommandTypeOK
  <2>4. (Answer(c)' = Answer(c) \/ Answer(c)' = <<e>>) /\ \A d \in Clients \ {c} : Answer(d)' = Answer(d)
    <3>1. <<e>> \o <<>> = <<e>>
      BY <2>2, ConcatEmptySeq
    <3>2. UNCHANGED frames \/ frames'[c] = <<e>>
      BY <1>0, <2>1 DEF CommandTypeOK
    <3>3. \A d \in Clients \ {c} : frames'[d] = frames[d]
      BY <1>0, <2>1 DEF CommandTypeOK
    <3> QED BY <1>1, <2>1, <3>1, <3>2, <3>3 DEF Answer
  <2>5. QueriesOpen'
    BY <1>0, <1>1, <2>1 DEF QueriesOpen, CommandTypeOK
  <2>6. TurnsNamed' /\ OneTurnAtATime' /\ SessionWasHeld'
    BY <1>0, <2>1 DEF TurnsNamed, OneTurnAtATime, Working, SessionWasHeld
  <2>7. LinesSoFar'
    BY <1>0, <1>1, <2>1, <2>4 DEF LinesSoFar, Answering
  <2>8. AnswerIsWhole'
    <3>1. \A d \in Clients : Whole(Answer(d)', history')
      BY <1>0, <2>1, <2>2, <2>4, OneEventIsWhole, WholeAnswers
    <3> QED BY <3>1 DEF AnswerIsWhole, Whole, InHistory, Last
  <2> QED BY <2>3, <2>5, <2>6, <2>7, <2>8 DEF CommandInv
<1> QED BY <1>3, <1>4

\* An event is written to the client, or read unsent: then the answer ends there.
LEMMA StreamsOn ==
  ASSUME CommandTypeOK, NEW c \in Clients, Stream(c)
  PROVE  /\ events' \in [Clients -> Seq(CommandEvents)] /\ frames' \in [Clients -> Seq(CommandEvents)]
         /\ writable' \in [Clients -> BOOLEAN] /\ (writable'[c] => writable[c])
         /\ \A d \in Clients \ {c} : events'[d] = events[d] /\ writable'[d] = writable[d] /\ Answer(d)' = Answer(d)
         /\ \/ Answer(c)' = Answer(c) /\ writable'[c] = writable[c]
            \/ /\ ~writable'[c] /\ Answer(c)' \in Seq(CommandEvents) /\ Len(Answer(c)') < Len(Answer(c))
               /\ \A i \in 1..Len(Answer(c)') : Answer(c)'[i] = Answer(c)[i]
<1>1. /\ events[c] \in Seq(CommandEvents) /\ frames[c] \in Seq(CommandEvents) /\ events[c] # <<>>
      /\ writable[c] \in BOOLEAN /\ Len(frames[c]) \in Nat /\ Len(events[c]) \in Nat \ {0}
  BY AnswerTypes, LenProperties, EmptySeq DEF Stream
<1> DEFINE f == Append(frames[c], Head(events[c]))
           r == Tail(events[c])
           p == frames[c] \o events[c]
<1>2. /\ f \o r = p /\ f \in Seq(CommandEvents) /\ r \in Seq(CommandEvents)
      /\ Len(frames[c]) < Len(p) /\ \A i \in 1..Len(frames[c]) : p[i] = frames[c][i]
  <2>1. \A s, t \in Seq(CommandEvents) : t # <<>> =>
          /\ Append(s, Head(t)) \o Tail(t) = s \o t /\ Append(s, Head(t)) \in Seq(CommandEvents)
          /\ Tail(t) \in Seq(CommandEvents)
          /\ Len(s) < Len(s \o t) /\ \A i \in 1..Len(s) : (s \o t)[i] = s[i]
    BY HeadMoves
  <2> DEFINE s == frames[c]
             t == events[c]
  <2>2. s \in Seq(CommandEvents) /\ t \in Seq(CommandEvents) /\ t # <<>>
    BY <1>1
  <2> HIDE DEF s, t
  <2>3. /\ Append(s, Head(t)) \o Tail(t) = s \o t /\ Append(s, Head(t)) \in Seq(CommandEvents)
        /\ Tail(t) \in Seq(CommandEvents)
        /\ Len(s) < Len(s \o t) /\ \A i \in 1..Len(s) : (s \o t)[i] = s[i]
    BY <2>1, <2>2
  <2> QED BY <2>3 DEF s, t
<1>4. /\ events' = [events EXCEPT ![c] = r]
      /\ \/ writable[c] /\ frames' = [frames EXCEPT ![c] = f] /\ UNCHANGED writable
         \/ writable' = [writable EXCEPT ![c] = FALSE] /\ UNCHANGED frames
  BY DEF Stream
<1>a. (writable[c] => Answer(c) = p) /\ (writable'[c] /\ frames'[c] = f /\ events'[c] = r => Answer(c)' = f \o r)
  BY DEF Answer
<1> HIDE DEF f, p, r
<1>7. /\ events' \in [Clients -> Seq(CommandEvents)] /\ frames' \in [Clients -> Seq(CommandEvents)]
      /\ writable' \in [Clients -> BOOLEAN] /\ events'[c] = r
      /\ \A d \in Clients \ {c} : events'[d] = events[d] /\ writable'[d] = writable[d] /\ frames'[d] = frames[d]
      /\ \/ writable[c] /\ frames'[c] = f /\ writable'[c]
         \/ ~writable'[c] /\ frames'[c] = frames[c]
  BY <1>1, <1>2, <1>4 DEF CommandTypeOK
<1>8. \A d \in Clients \ {c} : Answer(d)' = Answer(d)
  BY <1>7 DEF Answer
<1>9. CASE writable[c] /\ frames'[c] = f /\ writable'[c]
  BY <1>2, <1>a, <1>7, <1>8, <1>9
<1>10. CASE ~writable'[c] /\ frames'[c] = frames[c]
  <2>1. Answer(c)' = frames[c]
    BY <1>10 DEF Answer
  <2>2. CASE ~writable[c]
    <3>1. Answer(c) = frames[c]
      BY <2>2 DEF Answer
    <3> QED BY <2>1, <2>2, <3>1, <1>1, <1>7, <1>8, <1>10
  <2>3. CASE writable[c]
    BY <1>a, <2>1, <2>3, <1>1, <1>2, <1>7, <1>8, <1>10
  <2> QED BY <2>2, <2>3, <1>1
<1> QED BY <1>7, <1>9, <1>10

LEMMA StreamKeeps == ASSUME CommandInv, NEW c \in Clients, Stream(c) PROVE CommandInv'
<1>0. CommandTypeOK /\ QueriesOpen /\ TurnsNamed /\ LinesSoFar /\ OneTurnAtATime /\ AnswerIsWhole /\ SessionWasHeld
  BY DEF CommandInv
<1>1. handler[c] = "streaming" /\ UNCHANGED <<busy, turn, turns, ended, session, history, claude, handler>>
  BY DEF Stream, filesVars
<1>2. /\ events' \in [Clients -> Seq(CommandEvents)] /\ frames' \in [Clients -> Seq(CommandEvents)]
      /\ writable' \in [Clients -> BOOLEAN] /\ (writable'[c] => writable[c])
      /\ \A d \in Clients \ {c} : events'[d] = events[d] /\ writable'[d] = writable[d] /\ Answer(d)' = Answer(d)
      /\ \/ Answer(c)' = Answer(c) /\ writable'[c] = writable[c]
         \/ /\ ~writable'[c] /\ Answer(c)' \in Seq(CommandEvents) /\ Len(Answer(c)') < Len(Answer(c))
            /\ \A i \in 1..Len(Answer(c)') : Answer(c)'[i] = Answer(c)[i]
  BY <1>0, StreamsOn
<1>3. CommandTypeOK'
  BY <1>0, <1>1, <1>2 DEF CommandTypeOK
<1>4. QueriesOpen'
  BY <1>0, <1>1, <1>2 DEF QueriesOpen
<1>5. TurnsNamed' /\ OneTurnAtATime' /\ SessionWasHeld'
  BY <1>0, <1>1 DEF TurnsNamed, OneTurnAtATime, Working, SessionWasHeld
<1>6. Answer(c) \in Seq(CommandEvents) /\ Len(Answer(c)) \in Nat
  BY <1>0, AnswerTypes, LenProperties
<1>7. LinesSoFar'
  <2> SUFFICES ASSUME NEW d \in Clients, Answering(d)
               PROVE  AllLines(Answer(d)', turn[d].n) /\ (writable'[d] => Len(Answer(d)') = turn[d].lines)
    BY <1>1 DEF LinesSoFar, AllLines, Answering
  <2>1. AllLines(Answer(d), turn[d].n) /\ (writable[d] => Len(Answer(d)) = turn[d].lines)
    BY <1>0 DEF LinesSoFar
  <2>2. CASE Answer(d)' = Answer(d) /\ writable'[d] = writable[d]
    BY <2>1, <2>2
  <2>3. CASE ~(Answer(d)' = Answer(d) /\ writable'[d] = writable[d])
    <3>1. /\ d = c /\ ~writable'[c] /\ Answer(c)' \in Seq(CommandEvents) /\ Len(Answer(c)') < Len(Answer(c))
          /\ \A i \in 1..Len(Answer(c)') : Answer(c)'[i] = Answer(c)[i]
      BY <1>2, <2>3
    <3>2. Len(Answer(c)') \in Nat
      BY <3>1, LenProperties
    <3>3. \A i \in 1..Len(Answer(c)') : i \in 1..Len(Answer(c))
      BY <3>1, <3>2, <1>6
    <3> QED BY <3>1, <3>3, <2>1 DEF AllLines
  <2> QED BY <2>2, <2>3
<1>8. AnswerIsWhole'
  <2>1. \A d \in Clients : Whole(Answer(d), history)
    BY <1>0, WholeAnswers
  <2>2. \A d \in Clients : Whole(Answer(d)', history')
    BY <2>1, <1>1, <1>2, <1>6, PrefixIsWhole
  <2> QED BY <2>2 DEF AnswerIsWhole, Whole, InHistory, Last
<1> QED BY <1>3, <1>4, <1>5, <1>7, <1>8 DEF CommandInv

\* The handler reads the next prompt, or ends.
LEMMA StreamedKeeps == ASSUME CommandInv, NEW c \in Clients, Streamed(c) PROVE CommandInv'
<1>0. CommandTypeOK /\ QueriesOpen /\ TurnsNamed /\ LinesSoFar /\ OneTurnAtATime /\ AnswerIsWhole /\ SessionWasHeld
  BY DEF CommandInv
<1>1. /\ UNCHANGED <<busy, turn, turns, events, ended, session, history, claude, writable, frames>>
      /\ handler[c] = "streaming" /\ events[c] = <<>> /\ ended[c]
      /\ handler' = [handler EXCEPT ![c] = IF writable[c] THEN "reading" ELSE "gone"]
  BY DEF Streamed, runnerVars, filesVars
<1>2. \A d : Answer(d)' = Answer(d)
  BY <1>1, AnswersStay
<1>3. CommandTypeOK'
  BY <1>0, <1>1 DEF CommandTypeOK
<1>4. QueriesOpen'
  BY <1>0, <1>1 DEF QueriesOpen, CommandTypeOK
<1>5. TurnsNamed' /\ OneTurnAtATime' /\ SessionWasHeld'
  BY <1>0, <1>1 DEF TurnsNamed, OneTurnAtATime, Working, SessionWasHeld
<1>6. LinesSoFar' /\ AnswerIsWhole'
  BY <1>0, <1>1, <1>2 DEF LinesSoFar, Answering, AnswerIsWhole
<1> QED BY <1>3, <1>4, <1>5, <1>6 DEF CommandInv

LEMMA StartKeeps == ASSUME CommandInv, NEW c \in Clients, Start(c) PROVE CommandInv'
<1>0. CommandTypeOK
  BY DEF CommandInv
<1>1. turn[c] # NoTurn /\ turn[c].at = "starting" /\ turn[c] \in TurnState
      /\ UNCHANGED <<busy, turns, ended, session, history, claude, handler, writable, frames>>
  BY <1>0, AnswerTypes DEF Start, filesVars, clientVars
<1>2. CASE turn' = [turn EXCEPT ![c].at = "running", ![c].first = (session = NoSession),
                               ![c].id = IF session = NoSession THEN turn[c].n ELSE session] /\ UNCHANGED events
  <2> DEFINE id == IF session = NoSession THEN turn[c].n ELSE session
             t == [turn[c] EXCEPT !.at = "running", !.first = (session = NoSession), !.id = id]
  <2>1. id \in 1..MaxTurns
    BY <1>0, <1>1 DEF CommandTypeOK, TurnState
  <2> HIDE DEF id
  <2>2. t \in TurnState /\ t.at = "running" /\ t.n = turn[c].n /\ t.lines = turn[c].lines /\ t.id = id
    BY <1>1, <2>1 DEF TurnState
  <2>3. turn' = [turn EXCEPT ![c] = t]
    BY <1>0, <1>2 DEF CommandTypeOK, id
  <2> HIDE DEF t
  <2>4. claude \subseteq 1..MaxTurns
    BY <1>0 DEF CommandTypeOK
  <2> QED BY <1>1, <1>2, <2>1, <2>2, <2>3, <2>4, TurnGoesOn
<1>3. CASE Finish(c, "error", FALSE)
  <2>1. history \in Seq(Written) /\ session \in {NoSession} \cup 1..MaxTurns /\ (session # NoSession => session \in claude)
    BY <1>0 DEF CommandTypeOK, Written, CommandInv, SessionWasHeld
  <2> QED BY <1>1, <1>3, <2>1, FinishKeeps DEF Answering
<1> QED BY <1>2, <1>3 DEF Start

LEMMA LineKeeps == ASSUME CommandInv, NEW c \in Clients, Line(c) PROVE CommandInv'
<1> DEFINE e == Event("line", turn[c].n, FALSE)
           t == [turn[c] EXCEPT !.lines = @ + 1]
<1>0. CommandTypeOK /\ QueriesOpen /\ TurnsNamed /\ LinesSoFar /\ OneTurnAtATime /\ AnswerIsWhole /\ SessionWasHeld
  BY DEF CommandInv
<1>1. /\ turn[c] # NoTurn /\ turn[c].at = "running" /\ turn[c] \in TurnState /\ turn[c].lines + turn[c].n <= MaxLines
      /\ UNCHANGED <<busy, turns, ended, session, history, claude, handler, writable, frames>>
  BY <1>0, AnswerTypes DEF Line, Running, filesVars, clientVars
<1>2. e \in CommandEvents /\ e.type = "line" /\ e.of = turn[c].n
  BY <1>1, CommandAssumption DEF Event, CommandEvents, TurnState
<1>3. /\ t \in TurnState /\ t.at = "running" /\ t.n = turn[c].n /\ t.lines = turn[c].lines + 1 /\ t.id = turn[c].id
      /\ t.ends = turn[c].ends
  <2>1. turn[c].lines + 1 \in 0..MaxLines /\ turn[c].lines \in Nat
    BY <1>1, CommandAssumption DEF TurnState
  <2> QED BY <1>1, <2>1 DEF TurnState
<1>4. turn' = [turn EXCEPT ![c] = t] /\ Emit(c, e)
  BY <1>0 DEF Line, CommandTypeOK
<1> HIDE DEF e, t
<1>5. /\ turn' \in [Clients -> {NoTurn} \cup TurnState] /\ turn'[c] = t /\ t # NoTurn
      /\ \A d \in Clients \ {c} : turn'[d] = turn[d]
  BY <1>0, <1>3, <1>4, TurnChanges
<1>6. /\ events' \in [Clients -> Seq(CommandEvents)]
      /\ Answer(c)' = IF writable[c] THEN Append(Answer(c), e) ELSE Answer(c)
      /\ \A d \in Clients \ {c} : events'[d] = events[d] /\ Answer(d)' = Answer(d)
  BY <1>0, <1>1, <1>2, <1>4, Emits
<1>7. CommandTypeOK'
  BY <1>0, <1>1, <1>5, <1>6 DEF CommandTypeOK
<1>8. QueriesOpen'
  BY <1>0, <1>1, <1>5, <1>6 DEF QueriesOpen
<1>9. TurnsNamed' /\ OneTurnAtATime' /\ SessionWasHeld'
  BY <1>0, <1>1, <1>3, <1>5 DEF TurnsNamed, OneTurnAtATime, Working, SessionWasHeld
<1>10. /\ Answer(c) \in Seq(CommandEvents) /\ AllLines(Answer(c), turn[c].n)
       /\ writable[c] => Len(Answer(c)) = turn[c].lines
  BY <1>0, <1>1, AnswerTypes DEF LinesSoFar, Answering
<1>11. /\ AllLines(Answer(c)', turn[c].n) /\ (writable[c] => Len(Answer(c)') = turn[c].lines + 1)
       /\ Answer(c)' \in Seq(CommandEvents)
  <2>1. CASE ~writable[c]
    BY <2>1, <1>6, <1>10
  <2>2. CASE writable[c]
    <3> DEFINE a == Answer(c)
               b == Append(a, e)
    <3>1. a \in Seq(CommandEvents) /\ AllLines(a, turn[c].n) /\ Len(a) = turn[c].lines /\ Len(a) \in Nat
      BY <2>2, <1>10, LenProperties
    <3> HIDE DEF a
    <3>2. b \in Seq(CommandEvents) /\ Len(b) = Len(a) + 1 /\ (\A i \in 1..Len(a) : b[i] = a[i]) /\ b[Len(a) + 1] = e
      BY <3>1, <1>2, AppendProperties
    <3> HIDE DEF b
    <3>3. \A i \in 1..Len(b) : i \in 1..Len(a) \/ i = Len(a) + 1
      BY <3>1, <3>2
    <3>4. AllLines(b, turn[c].n)
      BY <3>1, <3>2, <3>3, <1>2 DEF AllLines
    <3>5. Answer(c)' = b
      BY <2>2, <1>6 DEF a, b
    <3> QED BY <3>1, <3>2, <3>4, <3>5
  <2> QED BY <2>1, <2>2
<1>12. LinesSoFar'
  <2> SUFFICES ASSUME NEW d \in Clients, Answering(d)'
               PROVE  AllLines(Answer(d)', turn'[d].n) /\ (writable[d] => Len(Answer(d)') = turn'[d].lines)
    BY <1>1 DEF LinesSoFar, AllLines
  <2>1. CASE d = c
    BY <2>1, <1>3, <1>5, <1>11
  <2>2. CASE d # c
    BY <2>2, <1>0, <1>5, <1>6 DEF LinesSoFar, Answering
  <2> QED BY <2>1, <2>2
<1>13. AnswerIsWhole'
  <2>1. \A d \in Clients : Whole(Answer(d), history)
    BY <1>0, WholeAnswers
  <2>2. \A d \in Clients : Whole(Answer(d)', history')
    BY <2>1, <1>1, <1>6, <1>11, LinesAreWhole
  <2> QED BY <2>2 DEF AnswerIsWhole, Whole, InHistory, Last
<1> QED BY <1>7, <1>8, <1>9, <1>12, <1>13 DEF CommandInv

\* The process ends, by itself or because of what it printed.
LEMMA EndKeeps == ASSUME CommandInv, NEW c \in Clients, Malformed(c) \/ Exit(c) PROVE CommandInv'
<1>0. CommandTypeOK /\ TurnsNamed
  BY DEF CommandInv
<1>1. /\ turn[c] # NoTurn /\ turn[c].at = "running" /\ turn[c] \in TurnState /\ turn[c].id \in 1..MaxTurns
      /\ UNCHANGED <<busy, turns, events, ended, session, history, handler, writable, frames>>
  BY <1>0, AnswerTypes DEF Malformed, Exit, Running, TurnsNamed, filesVars, clientVars
<1>2. PICK how \in {"success", "failure", "timeout", "malformed"} :
        /\ turn' = [turn EXCEPT ![c].at = "waiting", ![c].ends = how]
        /\ claude' = IF how = "success" THEN claude \cup {turn[c].id} ELSE claude
  BY DEF Malformed, Exit
<1> DEFINE t == [turn[c] EXCEPT !.at = "waiting", !.ends = how]
<1>3. /\ t \in TurnState /\ t.at = "waiting" /\ t.ends = how /\ t.n = turn[c].n /\ t.lines = turn[c].lines
      /\ t.id = turn[c].id
  BY <1>1 DEF TurnState
<1>4. turn' = [turn EXCEPT ![c] = t]
  BY <1>0, <1>2 DEF CommandTypeOK
<1> HIDE DEF t
<1>5. claude \subseteq claude' /\ claude' \subseteq 1..MaxTurns /\ (how = "success" => t.id \in claude')
  BY <1>0, <1>1, <1>2, <1>3 DEF CommandTypeOK
<1> QED BY <1>1, <1>3, <1>4, <1>5, TurnGoesOn

LEMMA FinishAfterStreamKeeps == ASSUME CommandInv, NEW c \in Clients, FinishAfterStream(c) PROVE CommandInv'
<1> DEFINE t == turn[c]
<1>0. CommandTypeOK /\ TurnsNamed /\ SessionWasHeld
  BY DEF CommandInv
<1>1. /\ Answering(c) /\ t \in TurnState /\ t # NoTurn /\ t.at = "waiting"
      /\ UNCHANGED <<busy, turns, ended, claude, handler, writable, frames>>
  BY <1>0, AnswerTypes DEF FinishAfterStream, Answering, clientVars
<1>2. PICK kept \in BOOLEAN :
        /\ history' = IF kept THEN Append(history, [turn |-> t.n, lines |-> t.lines]) ELSE history
        /\ session' \in AfterTurn(t)
        /\ Finish(c, IF t.ends = "success" /\ (t.first => session' = t.id) THEN "done" ELSE "error", WarnedOf(kept))
  BY DEF FinishAfterStream
<1> DEFINE type == IF t.ends = "success" /\ (t.first => session' = t.id) THEN "done" ELSE "error"
           x == [turn |-> t.n, lines |-> t.lines]
<1>3. x \in Written /\ x.turn = t.n /\ x.lines = t.lines
  BY <1>1 DEF Written, TurnState
<1>4. type \in {"done", "error"} /\ WarnedOf(kept) = ~kept /\ WarnedOf(kept) \in BOOLEAN
  BY <1>2 DEF WarnedOf
<1>5. session' \in {NoSession} \cup 1..MaxTurns /\ (session' # NoSession => session' \in claude)
  <2>1. t.id \in 1..MaxTurns /\ (t.ends = "success" => t.id \in claude)
    BY <1>0, <1>1 DEF TurnsNamed
  <2>2. session \in {NoSession} \cup 1..MaxTurns /\ (session # NoSession => session \in claude)
    BY <1>0 DEF CommandTypeOK, SessionWasHeld
  <2>3. session' \in {session, NoSession} \/ (session' = t.id /\ t.ends = "success")
    BY <1>2 DEF AfterTurn
  <2> QED BY <2>1, <2>2, <2>3
<1>6. history \in Seq(Written)
  BY <1>0 DEF CommandTypeOK, Written
<1>7. /\ history' \in Seq(Written) /\ (\A a : Whole(a, history) => Whole(a, history'))
      /\ kept => InHistory(t.n, t.lines, history')
  <2>1. CASE kept
    <3>1. /\ Append(history, x) \in Seq(Written) /\ InHistory(x.turn, x.lines, Append(history, x))
          /\ \A a : Whole(a, history) => Whole(a, Append(history, x))
      BY <1>3, <1>6, HistoryGrows
    <3> QED BY <3>1, <2>1, <1>2, <1>3
  <2>2. CASE ~kept
    BY <2>2, <1>2, <1>6
  <2> QED BY <2>1, <2>2
<1>8. Finish(c, type, WarnedOf(kept))
  BY <1>2
<1> HIDE DEF type
<1> QED BY <1>1, <1>4, <1>5, <1>7, <1>8, FinishKeeps

\* The runner is free, and then the channel is closed.
LEMMA QuitKeeps == ASSUME CommandInv, NEW c \in Clients, Quit(c) PROVE CommandInv'
<1> DEFINE t == [turn[c] EXCEPT !.at = "closing"]
<1>0. CommandTypeOK /\ QueriesOpen /\ TurnsNamed /\ LinesSoFar /\ OneTurnAtATime /\ AnswerIsWhole /\ SessionWasHeld
  BY DEF CommandInv
<1>1. /\ turn[c] # NoTurn /\ turn[c].at = "finished" /\ turn[c] \in TurnState /\ busy' = FALSE
      /\ UNCHANGED <<turns, events, ended, session, history, claude, handler, writable, frames>>
  BY <1>0, AnswerTypes DEF Quit, filesVars, clientVars
<1>2. t \in TurnState /\ t.at = "closing" /\ turn' = [turn EXCEPT ![c] = t]
  BY <1>0, <1>1 DEF Quit, TurnState, CommandTypeOK
<1> HIDE DEF t
<1>3. /\ turn' \in [Clients -> {NoTurn} \cup TurnState] /\ turn'[c] = t /\ t # NoTurn
      /\ \A d \in Clients \ {c} : turn'[d] = turn[d]
  BY <1>0, <1>2, TurnChanges
<1>4. \A d : Answer(d)' = Answer(d)
  BY <1>1, AnswersStay
<1>5. CommandTypeOK'
  BY <1>0, <1>1, <1>3 DEF CommandTypeOK
<1>6. QueriesOpen'
  BY <1>0, <1>1, <1>3 DEF QueriesOpen
<1>7. TurnsNamed' /\ SessionWasHeld'
  BY <1>0, <1>1, <1>2, <1>3 DEF TurnsNamed, SessionWasHeld
<1>8. LinesSoFar' /\ AnswerIsWhole'
  BY <1>0, <1>1, <1>2, <1>3, <1>4 DEF LinesSoFar, Answering, AnswerIsWhole
<1>9. OneTurnAtATime'
  BY <1>0, <1>1, <1>2, <1>3 DEF OneTurnAtATime, Working
<1> QED BY <1>5, <1>6, <1>7, <1>8, <1>9 DEF CommandInv

LEMMA CloseEventsKeeps == ASSUME CommandInv, NEW c \in Clients, CloseEvents(c) PROVE CommandInv'
<1>0. CommandTypeOK /\ QueriesOpen /\ TurnsNamed /\ LinesSoFar /\ OneTurnAtATime /\ AnswerIsWhole /\ SessionWasHeld
  BY DEF CommandInv
<1>1. /\ UNCHANGED <<busy, turns, events, session, history, claude, handler, writable, frames>>
      /\ ended' = [ended EXCEPT ![c] = TRUE] /\ turn' = [turn EXCEPT ![c] = NoTurn]
  BY DEF CloseEvents, filesVars, clientVars
<1>2. \A d : Answer(d)' = Answer(d)
  BY <1>1, AnswersStay
<1>3. CommandTypeOK' /\ \A d \in Clients : turn'[d] = (IF d = c THEN NoTurn ELSE turn[d]) /\ ended'[d] = (d = c \/ ended[d])
  BY <1>0, <1>1 DEF CommandTypeOK
<1>4. QueriesOpen'
  BY <1>0, <1>1, <1>3 DEF QueriesOpen
<1>5. TurnsNamed' /\ OneTurnAtATime' /\ SessionWasHeld'
  BY <1>0, <1>1, <1>3 DEF TurnsNamed, OneTurnAtATime, Working, SessionWasHeld
<1>6. LinesSoFar' /\ AnswerIsWhole'
  BY <1>0, <1>1, <1>2, <1>3 DEF LinesSoFar, Answering, AnswerIsWhole
<1> QED BY <1>3, <1>4, <1>5, <1>6 DEF CommandInv

LEMMA CommandStep == CommandInv /\ [CommandNext]_commandVars => CommandInv'
<1> SUFFICES ASSUME CommandInv, [CommandNext]_commandVars PROVE CommandInv'
  OBVIOUS
<1>1. ASSUME NEW c \in Clients, Prompt(c) \/ Stream(c) \/ Streamed(c) \/ Turn(c) PROVE CommandInv'
  BY <1>1, PromptKeeps, StreamKeeps, StreamedKeeps, StartKeeps, LineKeeps, EndKeeps, FinishAfterStreamKeeps, QuitKeeps,
     CloseEventsKeeps DEF Turn
<1>2. CASE UNCHANGED commandVars
  <2>1. UNCHANGED <<busy, turn, turns, events, ended, session, history, claude, handler, writable, frames>>
    BY <1>2 DEF commandVars, runnerVars, filesVars, clientVars
  <2>2. \A d : Answer(d)' = Answer(d)
    BY <2>1, AnswersStay
  <2> QED BY <2>1, <2>2 DEF CommandInv, CommandTypeOK, QueriesOpen, TurnsNamed, LinesSoFar, Answering, OneTurnAtATime,
                            Working, AnswerIsWhole, SessionWasHeld
<1> QED BY <1>1, <1>2 DEF CommandNext

\* A turn has the files to itself, and what it leaves to the clients and in the
\* files is what they were promised, whichever write fails.
THEOREM TurnIsKeptCorrect == CommandSpec => []TurnIsKept
<1>1. CommandInv => TurnIsKept
  BY DEF CommandInv, TurnIsKept
<1> QED BY <1>1, CommandInitInv, CommandStep, PTL DEF CommandSpec

-----------------------------------------------------------------------------
(***************************************************************************)
(* The host of a preview.  The host has no connection while one is dialed  *)
(* for it, so that the new one takes the place of none (`DialsAlone').     *)
(***************************************************************************)
DialsAlone ==
  /\ dialer # NoViewer => channel = NoChannel
  /\ \A u \in Viewers : viewer[u].at = "dial" => dialer = u

ViaKnown == \A u \in Viewers : viewer[u].at = "use" => viewer[u].via \in Channels

PreviewInv == PreviewTypeOK /\ DialsAlone /\ ViaKnown /\ NoneLost

ViewerState ==
  [at : {"idle", "get", "dial", "wait", "use", "listen"}, kind : Reports, via : Channels \cup {NoChannel}, tries : 0..1]

LEMMA ViewerTypes ==
  ASSUME PreviewTypeOK
  PROVE  /\ viewer \in [Viewers -> ViewerState] /\ Idle \in ViewerState /\ Idle.at = "idle"
         /\ link \in [Channels -> {"unused", "live", "silent", "ended", "closed"}]
         /\ keeper \in [Channels -> {"off", "waiting", "pinging"}] /\ watched \subseteq Channels
         /\ channel \in Channels \cup {NoChannel} /\ dialer \in Viewers \cup {NoViewer} /\ shut \in BOOLEAN
         /\ relays \in {"unopened", "open", "closed"} /\ visits \in 0..MaxVisits
BY DEF PreviewTypeOK, ViewerState, Idle, Reports

LEMMA PreviewInitInv == PreviewInit => PreviewInv
<1> SUFFICES ASSUME PreviewInit PROVE PreviewInv
  OBVIOUS
<1>1. Idle \in ViewerState /\ Idle.at = "idle"
  BY DEF Idle, ViewerState, Reports
<1>2. viewer \in [Viewers -> ViewerState]
  BY <1>1 DEF PreviewInit
<1>3. /\ link \in [Channels -> {"unused", "live", "silent", "ended", "closed"}]
      /\ keeper \in [Channels -> {"off", "waiting", "pinging"}]
  BY DEF PreviewInit
<1>4. visits \in 0..MaxVisits
  BY PreviewAssumption DEF PreviewInit
<1>5. PreviewTypeOK
  BY <1>2, <1>3, <1>4 DEF PreviewInit, PreviewTypeOK, ViewerState
<1> QED BY <1>1, <1>5 DEF PreviewInit, PreviewInv, DialsAlone, ViaKnown, NoneLost

\* A connection is let go, and forgotten when it is the host's.
LEMMA DropKeeps ==
  ASSUME PreviewTypeOK, NoneLost, NEW x \in Channels, Drop(x), UNCHANGED shut
  PROVE  /\ NoneLost' /\ channel' \in {channel, NoChannel} /\ (channel = x => channel' = NoChannel)
         /\ channel' \in Channels \cup {NoChannel}
         /\ link' \in [Channels -> {"unused", "live", "silent", "ended", "closed"}]
<1>1. /\ link' \in [Channels -> {"unused", "live", "silent", "ended", "closed"}]
      /\ \A y \in Channels : link'[y] = IF y = x THEN "closed" ELSE link[y]
      /\ channel' = IF channel = x THEN NoChannel ELSE channel
  BY DEF Drop, Forgets, PreviewTypeOK
<1> QED BY <1>1 DEF NoneLost, PreviewTypeOK

\* A request goes on without the dial of another.
LEMMA ViewerGoes ==
  ASSUME PreviewInv, NEW u \in Viewers, NEW r \in ViewerState, r.at # "dial", viewer' = [viewer EXCEPT ![u] = r],
         r.at = "use" => r.via \in Channels, channel' \in {channel, NoChannel}, UNCHANGED dialer
  PROVE  viewer' \in [Viewers -> ViewerState] /\ DialsAlone' /\ ViaKnown'
<1>1. /\ viewer' \in [Viewers -> ViewerState]
      /\ \A v \in Viewers : viewer'[v] = IF v = u THEN r ELSE viewer[v]
  BY ViewerTypes DEF PreviewInv
<1> QED BY <1>1 DEF PreviewInv, DialsAlone, ViaKnown

LEMMA ReachesOrAnswered ==
  ASSUME PreviewInv, NEW u \in Viewers, channel' \in {channel, NoChannel}, UNCHANGED dialer,
         \/ \E at \in {"wait", "listen"} : Moves(u, at)
         \/ \E x \in Channels : GoesOver(u, x)
         \/ Answered(u)
         \/ viewer' = [viewer EXCEPT ![u].at = "get", ![u].tries = 1]
  PROVE  viewer' \in [Viewers -> ViewerState] /\ DialsAlone' /\ ViaKnown'
<1>1. viewer \in [Viewers -> ViewerState] /\ viewer[u] \in ViewerState /\ Idle \in ViewerState /\ Idle.at = "idle"
  BY ViewerTypes DEF PreviewInv
<1>2. CASE \E at \in {"wait", "listen"} : Moves(u, at)
  <2>1. PICK at \in {"wait", "listen"} : Moves(u, at)
    BY <1>2
  <2> DEFINE r == [viewer[u] EXCEPT !.at = at]
  <2>2. r \in ViewerState /\ r.at = at /\ viewer' = [viewer EXCEPT ![u] = r]
    BY <1>1, <2>1 DEF ViewerState, Moves
  <2> HIDE DEF r
  <2> QED BY <2>2, ViewerGoes
<1>3. CASE \E x \in Channels : GoesOver(u, x)
  <2>1. PICK x \in Channels : GoesOver(u, x)
    BY <1>3
  <2> DEFINE r == [viewer[u] EXCEPT !.at = "use", !.via = x]
  <2>2. r \in ViewerState /\ r.at = "use" /\ r.via = x /\ viewer' = [viewer EXCEPT ![u] = r]
    BY <1>1, <2>1 DEF ViewerState, GoesOver
  <2> HIDE DEF r
  <2> QED BY <2>2, ViewerGoes
<1>4. CASE Answered(u)
  BY <1>1, <1>4, ViewerGoes DEF Answered
<1>5. CASE viewer' = [viewer EXCEPT ![u].at = "get", ![u].tries = 1]
  <2> DEFINE r == [viewer[u] EXCEPT !.at = "get", !.tries = 1]
  <2>1. r = [at |-> "get", kind |-> viewer[u].kind, via |-> viewer[u].via, tries |-> 1] /\ r.at = "get"
    <3> DEFINE q == [viewer[u] EXCEPT !.at = "get"]
    <3>1. q \in ViewerState /\ q.at = "get" /\ q.kind = viewer[u].kind /\ q.via = viewer[u].via
      BY <1>1 DEF ViewerState
    <3> HIDE DEF q
    <3>2. [q EXCEPT !.tries = 1] = [at |-> "get", kind |-> viewer[u].kind, via |-> viewer[u].via, tries |-> 1]
      BY <3>1 DEF ViewerState
    <3> QED BY <3>2 DEF q
  <2>2. r \in ViewerState /\ viewer' = [viewer EXCEPT ![u] = r]
    <3>1. viewer[u].kind \in Reports /\ viewer[u].via \in Channels \cup {NoChannel} /\ 1 \in 0..1
      BY <1>1 DEF ViewerState
    <3>2. r \in ViewerState
      BY <2>1, <3>1 DEF ViewerState
    <3> QED BY <1>1, <1>5, <3>2
  <2> HIDE DEF r
  <2> QED BY <2>1, <2>2, ViewerGoes
<1> QED BY <1>2, <1>3, <1>4, <1>5

LEMMA NextConnKeeps == ASSUME PreviewInv, NEW u \in Viewers, NextConn(u) PROVE PreviewInv'
<1> DEFINE gone == channel # NoChannel /\ link[channel] \in Over
<1>0. PreviewTypeOK /\ DialsAlone /\ ViaKnown /\ NoneLost
  BY DEF PreviewInv
<1>1. UNCHANGED <<shut, keeper, watched, visits, relays>>
  BY DEF NextConn
<1>2. CASE shut
  <2>1. Answered(u) /\ UNCHANGED <<channel, link, dialer>>
    BY <1>2 DEF NextConn
  <2>2. viewer' \in [Viewers -> ViewerState] /\ DialsAlone' /\ ViaKnown'
    BY <2>1, ReachesOrAnswered
  <2> QED BY <1>0, <1>1, <2>1, <2>2 DEF PreviewInv, PreviewTypeOK, NoneLost, ViewerState
<1>3. CASE ~shut /\ channel # NoChannel /\ ~gone
  <2>1. GoesOver(u, channel) /\ UNCHANGED <<channel, link, dialer>>
    BY <1>3 DEF NextConn
  <2>2. viewer' \in [Viewers -> ViewerState] /\ DialsAlone' /\ ViaKnown'
    <3>1. channel \in Channels
      BY <1>0, <1>3 DEF PreviewTypeOK
    <3> QED BY <2>1, <3>1, ReachesOrAnswered
  <2> QED BY <1>0, <1>1, <2>1, <2>2 DEF PreviewInv, PreviewTypeOK, NoneLost, ViewerState
<1>4. CASE ~shut /\ ~(channel # NoChannel /\ ~gone)
  <2>1. /\ IF gone THEN Drop(channel) ELSE UNCHANGED <<channel, link>>
        /\ IF dialer = NoViewer THEN dialer' = u /\ Moves(u, "dial") ELSE UNCHANGED dialer /\ Moves(u, "wait")
    BY <1>4 DEF NextConn
  <2>2. /\ NoneLost' /\ channel' = NoChannel /\ channel' \in Channels \cup {NoChannel}
        /\ link' \in [Channels -> {"unused", "live", "silent", "ended", "closed"}]
    <3>1. CASE gone
      <4>1. channel \in Channels
        BY <1>0, <3>1 DEF PreviewTypeOK
      <4> QED BY <1>0, <1>1, <2>1, <3>1, <4>1, DropKeeps
    <3>2. CASE ~gone
      BY <1>0, <1>1, <1>4, <2>1, <3>2 DEF PreviewTypeOK, NoneLost
    <3> QED BY <3>1, <3>2
  <2>3. CASE dialer = NoViewer
    <3> DEFINE r == [viewer[u] EXCEPT !.at = "dial"]
    <3>1. viewer \in [Viewers -> ViewerState] /\ viewer[u] \in ViewerState
      BY <1>0, ViewerTypes
    <3>2. r \in ViewerState /\ r.at = "dial" /\ viewer' = [viewer EXCEPT ![u] = r] /\ dialer' = u
      BY <2>1, <2>3, <3>1 DEF ViewerState, Moves
    <3> HIDE DEF r
    <3>3. viewer' \in [Viewers -> ViewerState] /\ \A v \in Viewers : viewer'[v] = IF v = u THEN r ELSE viewer[v]
      BY <3>1, <3>2
    <3>4. DialsAlone' /\ ViaKnown'
      BY <1>0, <2>2, <2>3, <3>2, <3>3, PreviewAssumption DEF DialsAlone, ViaKnown
    <3> QED BY <1>0, <1>1, <2>2, <3>2, <3>3, <3>4 DEF PreviewInv, PreviewTypeOK, ViewerState
  <2>4. CASE dialer # NoViewer
    <3>1. UNCHANGED dialer /\ viewer' \in [Viewers -> ViewerState] /\ DialsAlone' /\ ViaKnown'
      BY <2>1, <2>2, <2>4, ReachesOrAnswered
    <3> QED BY <1>0, <1>1, <2>2, <3>1 DEF PreviewInv, PreviewTypeOK, ViewerState
  <2> QED BY <2>3, <2>4
<1> QED BY <1>2, <1>3, <1>4

\* A connection is made for the host that has none, or closed at once.
LEMMA DialedKeeps == ASSUME PreviewInv, NEW u \in Viewers, Dialed(u) PROVE PreviewInv'
<1>0. PreviewTypeOK /\ DialsAlone /\ ViaKnown /\ NoneLost
  BY DEF PreviewInv
<1>1. /\ dialer = u /\ channel = NoChannel /\ dialer' = NoViewer /\ UNCHANGED <<shut, watched, visits, relays>>
      /\ \A v \in Viewers : viewer[v].at = "dial" => v = u
  BY <1>0, PreviewAssumption DEF Dialed, DialsAlone
<1>2. viewer \in [Viewers -> ViewerState] /\ Idle \in ViewerState /\ Idle.at = "idle"
  BY <1>0, ViewerTypes
<1>3. ASSUME NEW works \in BOOLEAN, NEW x \in Channels \cup {NoChannel}, works => x \in Channels, Told(u, works, x)
      PROVE  /\ viewer' \in [Viewers -> ViewerState] /\ ViaKnown'
             /\ \A v \in Viewers : viewer'[v].at # "dial"
  <2> DEFINE r(v) == CASE v = u /\ works                 -> [viewer[v] EXCEPT !.at = "use", !.via = x]
                       [] v # u /\ viewer[v].at = "wait" -> IF works THEN [viewer[v] EXCEPT !.at = "get"] ELSE Idle
                       [] OTHER                          -> IF v = u THEN Idle ELSE viewer[v]
  <2>1. viewer' = [v \in Viewers |-> r(v)]
    BY <1>3 DEF Told
  <2>2. ASSUME NEW v \in Viewers
        PROVE  r(v) \in ViewerState /\ r(v).at # "dial" /\ (r(v).at = "use" => r(v).via \in Channels)
    <3>1. viewer[v] \in ViewerState
      BY <1>2
    <3>2. CASE v = u /\ works
      <4>1. r(v) = [viewer[v] EXCEPT !.at = "use", !.via = x]
        BY <3>2
      <4> QED BY <1>3, <3>1, <3>2, <4>1 DEF ViewerState
    <3>3. CASE v # u /\ viewer[v].at = "wait" /\ works
      <4>1. r(v) = [viewer[v] EXCEPT !.at = "get"]
        BY <3>3
      <4> QED BY <3>1, <4>1 DEF ViewerState
    <3>4. CASE (v # u /\ viewer[v].at = "wait" /\ ~works) \/ (v = u /\ ~works)
      <4>1. r(v) = Idle
        BY <3>4
      <4> QED BY <1>2, <4>1
    <3>5. CASE v # u /\ viewer[v].at # "wait"
      <4>1. r(v) = viewer[v]
        BY <3>5
      <4> QED BY <1>0, <1>1, <3>1, <3>5, <4>1 DEF ViaKnown
    <3> QED BY <3>2, <3>3, <3>4, <3>5
  <2> HIDE DEF r
  <2> QED BY <2>1, <2>2 DEF ViaKnown
<1>4. CASE Told(u, FALSE, NoChannel) /\ UNCHANGED <<channel, link, keeper>>
  <2>1. viewer' \in [Viewers -> ViewerState] /\ ViaKnown' /\ \A v \in Viewers : viewer'[v].at # "dial"
    BY <1>3, <1>4
  <2>2. DialsAlone' /\ NoneLost'
    BY <1>0, <1>1, <1>4, <2>1 DEF DialsAlone, NoneLost
  <2> QED BY <1>0, <1>1, <1>4, <2>1, <2>2 DEF PreviewInv, PreviewTypeOK, ViewerState
<1>5. CASE \E x \in Channels :
             /\ link[x] = "unused"
             /\ IF Kept(x)
                THEN /\ channel' = x /\ link' = [link EXCEPT ![x] = "live"]
                     /\ keeper' = [keeper EXCEPT ![x] = "waiting"] /\ Told(u, TRUE, x)
                ELSE link' = [link EXCEPT ![x] = "closed"] /\ UNCHANGED <<channel, keeper>> /\ Told(u, FALSE, x)
  <2>1. PICK x \in Channels :
             /\ link[x] = "unused"
             /\ IF Kept(x)
                THEN /\ channel' = x /\ link' = [link EXCEPT ![x] = "live"]
                     /\ keeper' = [keeper EXCEPT ![x] = "waiting"] /\ Told(u, TRUE, x)
                ELSE link' = [link EXCEPT ![x] = "closed"] /\ UNCHANGED <<channel, keeper>> /\ Told(u, FALSE, x)
    BY <1>5
  <2>2. viewer' \in [Viewers -> ViewerState] /\ ViaKnown' /\ \A v \in Viewers : viewer'[v].at # "dial"
    BY <1>3, <2>1
  <2>3. /\ link' \in [Channels -> {"unused", "live", "silent", "ended", "closed"}]
        /\ keeper' \in [Channels -> {"off", "waiting", "pinging"}]
        /\ \A y \in Channels \ {x} : link'[y] = link[y]
        /\ IF shut THEN link'[x] = "closed" /\ channel' = channel ELSE channel' = x
    BY <1>0, <2>1 DEF PreviewTypeOK, Kept
  <2>4. NoneLost'
    BY <1>0, <1>1, <2>3, PreviewAssumption DEF NoneLost, PreviewTypeOK
  <2>5. DialsAlone'
    BY <1>1, <2>2 DEF DialsAlone
  <2>6. channel' \in Channels \cup {NoChannel}
    BY <1>1, <2>3
  <2> QED BY <1>0, <1>1, <2>2, <2>3, <2>4, <2>5, <2>6 DEF PreviewInv, PreviewTypeOK, ViewerState
<1> QED BY <1>4, <1>5 DEF Dialed

LEMMA RequestKeeps ==
  ASSUME PreviewInv, NEW u \in Viewers, Served(u) \/ WatchFires(u) \/ EnsureRelay(u) PROVE PreviewInv'
<1>0. PreviewTypeOK /\ DialsAlone /\ ViaKnown /\ NoneLost
  BY DEF PreviewInv
<1>1. CASE Served(u)
  <2> DEFINE x == viewer[u].via
  <2>1. x \in Channels /\ UNCHANGED <<dialer, shut, keeper, watched, visits>>
    BY <1>0, <1>1 DEF Served, ViaKnown
  <2>2. CASE Answered(u) /\ UNCHANGED <<channel, link, relays>>
    <3>1. viewer' \in [Viewers -> ViewerState] /\ DialsAlone' /\ ViaKnown'
      BY <2>1, <2>2, ReachesOrAnswered
    <3> QED BY <1>0, <2>1, <2>2, <3>1 DEF PreviewInv, PreviewTypeOK, NoneLost, ViewerState
  <2>3. CASE Moves(u, "listen") /\ UNCHANGED <<channel, link, relays>>
    <3>1. viewer' \in [Viewers -> ViewerState] /\ DialsAlone' /\ ViaKnown'
      BY <2>1, <2>3, ReachesOrAnswered
    <3> QED BY <1>0, <2>1, <2>3, <3>1 DEF PreviewInv, PreviewTypeOK, NoneLost, ViewerState
  <2>4. CASE Drop(x) /\ Refused(u) /\ UNCHANGED relays
    <3>1. /\ NoneLost' /\ channel' \in {channel, NoChannel} /\ channel' \in Channels \cup {NoChannel}
          /\ link' \in [Channels -> {"unused", "live", "silent", "ended", "closed"}]
      BY <1>0, <2>1, <2>4, DropKeeps
    <3>2. Answered(u) \/ viewer' = [viewer EXCEPT ![u].at = "get", ![u].tries = 1]
      BY <2>4 DEF Refused
    <3>3. viewer' \in [Viewers -> ViewerState] /\ DialsAlone' /\ ViaKnown'
      BY <2>1, <3>1, <3>2, ReachesOrAnswered
    <3> QED BY <1>0, <2>1, <2>4, <3>1, <3>3 DEF PreviewInv, PreviewTypeOK, ViewerState
  <2> QED BY <1>1, <2>2, <2>3, <2>4 DEF Served
<1>2. CASE WatchFires(u)
  <2>1. watched' \subseteq Channels /\ UNCHANGED <<channel, dialer, shut, link, keeper, viewer, visits, relays>>
    BY <1>0, <1>2 DEF WatchFires, ViaKnown, PreviewTypeOK, remoteVars
  <2> QED BY <1>0, <2>1 DEF PreviewInv, PreviewTypeOK, DialsAlone, ViaKnown, NoneLost
<1>3. CASE EnsureRelay(u)
  <2>1. /\ Answered(u) /\ UNCHANGED <<channel, dialer, shut, link, keeper, watched, visits>>
        /\ relays' \in {relays, "open"}
    BY <1>3 DEF EnsureRelay, remoteVars
  <2>2. viewer' \in [Viewers -> ViewerState] /\ DialsAlone' /\ ViaKnown'
    BY <2>1, ReachesOrAnswered
  <2> QED BY <1>0, <2>1, <2>2 DEF PreviewInv, PreviewTypeOK, NoneLost, ViewerState
<1> QED BY <1>1, <1>2, <1>3

LEMMA AskRemoteKeeps ==
  ASSUME PreviewInv, NEW u \in Viewers, NEW kind \in Reports, AskRemote(u, kind) PROVE PreviewInv'
<1>0. PreviewTypeOK /\ DialsAlone /\ ViaKnown /\ NoneLost
  BY DEF PreviewInv
<1> DEFINE r == [Idle EXCEPT !.at = "get", !.kind = kind]
<1>1. r \in ViewerState /\ r.at = "get"
  BY <1>0, ViewerTypes DEF ViewerState, Idle
<1>2. /\ viewer' = [viewer EXCEPT ![u] = r] /\ visits' \in 0..MaxVisits
      /\ UNCHANGED <<channel, dialer, shut, link, keeper, watched, relays>>
  BY <1>0, PreviewAssumption DEF AskRemote, PreviewTypeOK, remoteVars
<1> HIDE DEF r
<1>3. viewer' \in [Viewers -> ViewerState] /\ DialsAlone' /\ ViaKnown'
  BY <1>1, <1>2, ViewerGoes
<1> QED BY <1>0, <1>2, <1>3 DEF PreviewInv, PreviewTypeOK, NoneLost, ViewerState

\* What happens to the connections without a request.
LEMMA ChannelKeeps ==
  ASSUME PreviewInv, NEW x \in Channels, KeeperSteps(x) \/ Ends(x) \/ Silent(x) PROVE PreviewInv'
<1>0. PreviewTypeOK /\ DialsAlone /\ ViaKnown /\ NoneLost
  BY DEF PreviewInv
<1>1. UNCHANGED <<dialer, shut, viewer, visits, relays>>
  BY DEF KeeperSteps, KeeperTicks, KeeperPinged, WatchDrops, Ends, Silent, viewerVars
<1>2. keeper' \in [Channels -> {"off", "waiting", "pinging"}] /\ watched' \subseteq Channels
  BY <1>0 DEF KeeperSteps, KeeperTicks, KeeperPinged, WatchDrops, Ends, Silent, viewerVars, PreviewTypeOK
<1>3. CASE Drop(x)
  <2>1. /\ NoneLost' /\ channel' \in {channel, NoChannel} /\ channel' \in Channels \cup {NoChannel}
        /\ link' \in [Channels -> {"unused", "live", "silent", "ended", "closed"}]
    BY <1>0, <1>1, <1>3, DropKeeps
  <2> QED BY <1>0, <1>1, <1>2, <2>1 DEF PreviewInv, PreviewTypeOK, DialsAlone, ViaKnown
<1>4. CASE UNCHANGED <<channel, link>>
  BY <1>0, <1>1, <1>2, <1>4 DEF PreviewInv, PreviewTypeOK, DialsAlone, ViaKnown, NoneLost
<1>5. CASE Ends(x) \/ Silent(x)
  <2>1. /\ UNCHANGED channel /\ link' \in [Channels -> {"unused", "live", "silent", "ended", "closed"}]
        /\ \A y \in Channels : link'[y] \in {"live", "silent", "ended"} => link[y] \in {"live", "silent", "ended"}
    BY <1>0, <1>5 DEF Ends, Silent, PreviewTypeOK
  <2> QED BY <1>0, <1>1, <1>2, <2>1 DEF PreviewInv, PreviewTypeOK, DialsAlone, ViaKnown, NoneLost
<1> QED BY <1>3, <1>4, <1>5 DEF KeeperSteps, KeeperTicks, KeeperPinged, WatchDrops

LEMMA PreviewEnds == ASSUME PreviewInv, CloseRelays \/ CloseRemote PROVE PreviewInv'
<1>0. PreviewTypeOK /\ DialsAlone /\ ViaKnown /\ NoneLost
  BY DEF PreviewInv
<1>1. CASE CloseRelays
  BY <1>0, <1>1 DEF CloseRelays, remoteVars, viewerVars, PreviewInv, PreviewTypeOK, DialsAlone, ViaKnown, NoneLost
<1>2. CASE CloseRemote
  <2>1. /\ channel' = NoChannel /\ shut' = TRUE /\ UNCHANGED <<dialer, keeper, viewer, watched, visits, relays>>
        /\ link' = IF channel = NoChannel THEN link ELSE [link EXCEPT ![channel] = "closed"]
    BY <1>2 DEF CloseRemote, viewerVars
  <2>2. link' \in [Channels -> {"unused", "live", "silent", "ended", "closed"}]
        /\ \A y \in Channels : link'[y] \notin {"live", "silent", "ended"}
    BY <1>0, <2>1, PreviewAssumption DEF PreviewTypeOK, NoneLost
  <2> QED BY <1>0, <2>1, <2>2 DEF PreviewInv, PreviewTypeOK, DialsAlone, ViaKnown, NoneLost
<1> QED BY <1>1, <1>2

LEMMA PreviewStep == PreviewInv /\ [PreviewNext]_previewVars => PreviewInv'
<1> SUFFICES ASSUME PreviewInv, [PreviewNext]_previewVars PROVE PreviewInv'
  OBVIOUS
<1>1. ASSUME NEW u \in Viewers, ViewerSteps(u) PROVE PreviewInv'
  BY <1>1, NextConnKeeps, DialedKeeps, RequestKeeps DEF ViewerSteps
<1>2. CASE UNCHANGED previewVars
  BY <1>2 DEF previewVars, remoteVars, viewerVars, PreviewInv, PreviewTypeOK, DialsAlone, ViaKnown, NoneLost
<1> QED BY <1>1, <1>2, AskRemoteKeeps, ChannelKeeps, PreviewEnds DEF PreviewNext

\* Whatever a preview's requests, its ping and Close do to each other, a
\* connection that was made and not closed is the host's.
THEOREM NoneLostCorrect == PreviewSpec => []NoneLost
<1>1. PreviewInv => NoneLost
  BY DEF PreviewInv
<1> QED BY <1>1, PreviewInitInv, PreviewStep, PTL DEF PreviewSpec

-----------------------------------------------------------------------------
(***************************************************************************)
(* The dial of a chain of hosts.  Of the two clients that are closed with  *)
(* the last hop's, each is open at most once, and only while the dial is   *)
(* beyond it (`OpenBelow').                                                *)
(***************************************************************************)
MayBeOpen(l) ==
  /\ l =< hops
  /\ \/ step = "tunnel" /\ l < level
     \/ step = "shake" /\ l =< level
     \/ step \in {"client", "running"}

OpenBelow == \A l \in Hops : Nested(l) \/ (open[l] =< 1 /\ (open[l] = 0 \/ MayBeOpen(l)))

TriesLeft == step = "attempt" => tries[level] < MaxTries

\* How the shell ended is known before its output ends.
ShellKnown ==
  /\ step \notin {"running", "closed"} => shellEnd = "no" /\ monitor = "off"
  /\ monitor = "marked" =>
       /\ shellEnd # "no" /\ shell \in {"exited", "disconnected"}
       /\ step = "running" => shell = IF shellEnd = "lost" THEN "disconnected" ELSE "exited"
  /\ eof => monitor = "marked"
  /\ told # "no" => eof /\ told \in {"exited", "disconnected"} /\ (step = "running" => told = shell)

DialInv == SshTypeOK /\ TriesLeft /\ OpenBelow /\ WithinBudget /\ ShellKnown

LEMMA SshTypes ==
  ASSUME SshTypeOK
  PROVE  /\ hops \in Nat /\ hops >= 1 /\ hops =< MaxHops /\ MaxHops \in Nat /\ level \in Nat /\ level >= 1 /\ level =< hops
         /\ level \in Hops /\ hops \in Hops /\ Hops \subseteq Nat /\ \A l \in Hops : l >= 1 /\ l =< MaxHops
         /\ clock \in Nat /\ stalled \in Nat /\ stalled =< clock /\ Budget \in Nat /\ ShakeLimit \in Nat
         /\ MaxTries \in Nat /\ MaxTries >= 1 /\ MaxStall \in Nat /\ tries[level] \in 0..MaxTries
BY SshAssumption DEF SshTypeOK, Hops

LEMMA ShutCloses ==
  ASSUME open \in [Hops -> Nat], NEW ls
  PROVE  /\ Shut(ls) \in [Hops -> Nat]
         /\ \A l \in Hops : /\ l \notin ls => Shut(ls)[l] = open[l]
                            /\ open[l] = 0 => Shut(ls)[l] = 0
                            /\ l \in ls /\ open[l] =< 1 => Shut(ls)[l] = 0
BY DEF Shut

LEMMA RemainingBound == ASSUME SshTypeOK PROVE Remaining \in Nat /\ (Remaining = 0 \/ clock + Remaining = Budget)
BY SshTypes DEF Remaining

LEMMA SshInitInv == SshInit => DialInv
<1> SUFFICES ASSUME SshInit PROVE DialInv
  OBVIOUS
<1>1. hops \in 1..MaxHops /\ hops \in Nat /\ MaxHops \in Nat /\ 0 \in 0..MaxTries
  BY SshAssumption DEF SshInit, Hops
<1>2. SshTypeOK
  <2>1. /\ tries \in [Hops -> 0..MaxTries] /\ open \in [Hops -> Nat] /\ left \in [Hops -> Nat]
        /\ hops \in Hops /\ level \in 1..hops
    BY <1>1 DEF SshInit, Hops
  <2>2. /\ step \in Dialing /\ clock \in Nat /\ stalled \in 0..clock
        /\ shell = "connecting" /\ shellEnd = "no" /\ monitor = "off" /\ eof = FALSE /\ told = "no"
    BY DEF SshInit, Dialing
  <2> QED BY <2>1, <2>2 DEF SshTypeOK
<1>3. OpenBelow /\ TriesLeft /\ ShellKnown
  BY DEF SshInit, OpenBelow, TriesLeft, ShellKnown
<1>4. WithinBudget
  BY SshAssumption DEF SshInit, WithinBudget
<1> QED BY <1>2, <1>3, <1>4 DEF DialInv

\* The steps of a dial before there is a terminal leave the shell alone.
LEMMA NoShellYet ==
  ASSUME DialInv, step \notin {"running", "closed"}, step' # "running", UNCHANGED shellVars
  PROVE  ShellKnown'
BY DEF DialInv, ShellKnown, shellVars

LEMMA BeginKeeps == ASSUME DialInv, Begin PROVE DialInv'
<1>1. /\ tries' = [tries EXCEPT ![level] = 0] /\ step = "begin" /\ step' \in {"attempt", "lost"}
      /\ UNCHANGED <<hops, level, open, left, clock, stalled, shellVars>> /\ ShellKnown'
  BY NoShellYet DEF Begin
<1>2. SshTypeOK' /\ tries'[level] = 0
  BY <1>1, SshTypes DEF DialInv, SshTypeOK, Dialing, shellVars
<1>3. TriesLeft'
  BY <1>1, <1>2, SshTypes DEF DialInv, TriesLeft
<1>4. OpenBelow'
  BY <1>1 DEF DialInv, OpenBelow, MayBeOpen, Nested
<1> QED BY <1>1, <1>2, <1>3, <1>4 DEF DialInv, WithinBudget

LEMMA AttemptKeeps == ASSUME DialInv, Attempt PROVE DialInv'
<1>0. SshTypeOK /\ TriesLeft /\ OpenBelow /\ WithinBudget
  BY DEF DialInv
<1>1. /\ step = "attempt" /\ UNCHANGED <<hops, left, stalled, shellVars>> /\ step' \in {"lost", "begin", "shake", "dialed"}
      /\ ShellKnown'
  BY NoShellYet DEF Attempt
<1>2. CASE clock >= Budget
  <2>1. step' = "lost" /\ UNCHANGED <<level, tries, open, clock>>
    BY <1>2 DEF Attempt
  <2> QED BY <1>0, <1>1, <2>1 DEF DialInv, SshTypeOK, Dialing, TriesLeft, OpenBelow, MayBeOpen, Nested, WithinBudget,
                              shellVars
<1>3. CASE ~(clock >= Budget)
  <2>1. tries' = [tries EXCEPT ![level] = @ + 1]
    BY <1>3 DEF Attempt
  <2>2. tries' \in [Hops -> 0..MaxTries]
    <3>1. tries[level] + 1 \in 0..MaxTries
      BY <1>0, <1>1, SshTypes DEF TriesLeft
    <3> QED BY <1>0, <2>1, <3>1, SshTypes DEF SshTypeOK
  <2>3. CASE level > 1
    <3>1. level' = level - 1 /\ step' = "begin" /\ UNCHANGED <<open, clock>>
      BY <1>3, <2>3 DEF Attempt
    <3>2. level' \in 1..hops'
      BY <1>0, <1>1, <2>3, <3>1, SshTypes
    <3>3. OpenBelow'
      BY <1>0, <1>1, <3>1 DEF OpenBelow, MayBeOpen, Nested
    <3> QED BY <1>0, <1>1, <2>2, <3>1, <3>2, <3>3 DEF DialInv, SshTypeOK, Dialing, TriesLeft, WithinBudget, shellVars
  <2>4. CASE ~(level > 1)
    <3>1. /\ UNCHANGED level
          /\ \E d \in 0..Remaining : \/ Passes(d) /\ Opened(1) /\ step' = "shake"
                                     \/ step' = "dialed" /\ Passes(d) /\ UNCHANGED open
      BY <1>3, <2>4 DEF Attempt
    <3>2. level = 1 /\ 1 \in Hops
      BY <1>0, <2>4, SshTypes
    <3>3. clock' \in Nat /\ clock' =< Budget /\ clock' >= clock
      BY <1>0, <1>3, <3>1, SshTypes, RemainingBound DEF Passes
    <3>4. stalled' \in 0..clock' /\ WithinBudget'
      BY <1>0, <1>1, <3>3, SshTypes DEF WithinBudget
    <3>5. open' \in [Hops -> Nat] /\ OpenBelow'
      <4>1. CASE step' = "dialed" /\ UNCHANGED open
        BY <1>0, <1>1, <3>1, <4>1 DEF OpenBelow, MayBeOpen, Nested, SshTypeOK
      <4>2. CASE Opened(1) /\ step' = "shake"
        <5>1. open' \in [Hops -> Nat] /\ \A l \in Hops : open'[l] = IF l = 1 THEN open[1] + 1 ELSE open[l]
          BY <1>0, <3>2, <4>2 DEF Opened, SshTypeOK
        <5>2. \A l \in Hops : Nested(l) \/ open[l] = 0
          BY <1>0, <1>1 DEF OpenBelow, MayBeOpen
        <5>3. ASSUME NEW l \in Hops PROVE (Nested(l) \/ (open[l] =< 1 /\ (open[l] = 0 \/ MayBeOpen(l))))'
          <6>1. CASE l = 1
            BY <1>0, <1>1, <3>1, <3>2, <4>2, <5>1, <5>2, <6>1, SshTypes DEF Nested, MayBeOpen
          <6>2. CASE l # 1
            BY <1>0, <1>1, <5>1, <5>2, <6>2 DEF Nested
          <6> QED BY <6>1, <6>2
        <5> QED BY <5>1, <5>3 DEF OpenBelow
      <4> QED BY <3>1, <4>1, <4>2
    <3>6. level' \in 1..hops'
      BY <1>0, <1>1, <3>1 DEF SshTypeOK
    <3> QED BY <1>0, <1>1, <2>2, <3>1, <3>3, <3>4, <3>5, <3>6 DEF DialInv, SshTypeOK, Dialing, TriesLeft, shellVars
  <2> QED BY <2>3, <2>4
<1> QED BY <1>2, <1>3

\* What is over budget is what was: the time of a dial is its deadline's.
LEMMA OtherDialStepKeeps ==
  ASSUME DialInv, TryAgain \/ Lost PROVE DialInv'
<1>0. SshTypeOK /\ TriesLeft /\ OpenBelow /\ WithinBudget
  BY DEF DialInv
<1>1. CASE Lost
  <2>1. /\ step = "lost" /\ step' \in {"failed", "dialed"} /\ UNCHANGED <<hops, tries, open, left, clock, stalled, shellVars>>
        /\ level' \in 1..hops /\ ShellKnown'
    BY <1>0, <1>1, NoShellYet, SshTypes DEF Lost
  <2>2. OpenBelow'
    BY <1>0, <2>1 DEF OpenBelow, MayBeOpen, Nested
  <2> QED BY <1>0, <2>1, <2>2 DEF DialInv, SshTypeOK, Dialing, TriesLeft, WithinBudget, shellVars
<1>2. CASE TryAgain
  <2>1. /\ step = "dialed" /\ UNCHANGED <<hops, level, tries, open, left, stalled, shellVars>>
        /\ \/ step' = "lost" /\ clock' = clock
           \/ /\ step' = "attempt" /\ tries[level] # MaxTries /\ clock < Budget /\ clock' = clock + tries[level]
    BY <1>0, <1>2, SshTypes DEF TryAgain, AfterFailure, GivesUp
  <2>2. clock' \in Nat /\ stalled' \in 0..clock' /\ WithinBudget'
    <3>1. CASE clock' = clock
      BY <1>0, <2>1, <3>1, SshTypes DEF WithinBudget
    <3>2. CASE clock < Budget /\ clock' = clock + tries[level]
      BY <1>0, <2>1, <3>2, SshTypes DEF WithinBudget
    <3> QED BY <2>1, <3>1, <3>2
  <2>3. TriesLeft'
    BY <1>0, <2>1, SshTypes DEF TriesLeft
  <2>4. ShellKnown' /\ step' \in {"lost", "attempt"}
    BY <2>1, NoShellYet
  <2>5. OpenBelow'
    BY <1>0, <2>1, <2>4 DEF OpenBelow, MayBeOpen, Nested
  <2> QED BY <1>0, <2>1, <2>2, <2>3, <2>4, <2>5 DEF DialInv, SshTypeOK, Dialing, shellVars
<1> QED BY <1>1, <1>2

LEMMA TunnelKeeps == ASSUME DialInv, Tunnel PROVE DialInv'
<1>0. SshTypeOK /\ TriesLeft /\ OpenBelow /\ WithinBudget
  BY DEF DialInv
<1>1. PICK d \in 0..MaxStall :
        /\ clock' = clock + d /\ stalled' = stalled + d
        /\ \/ Opened(level) /\ step' = "shake"
           \/ open' = Shut({level - 1, level - 2}) /\ step' = "dialed"
  BY DEF Tunnel, Passes
<1>2. step = "tunnel" /\ step' \in {"shake", "dialed"} /\ UNCHANGED <<hops, level, tries, left, shellVars>> /\ ShellKnown'
  BY NoShellYet DEF Tunnel
<1>3. clock' \in Nat /\ stalled' \in 0..clock' /\ WithinBudget'
  BY <1>0, <1>1, SshTypes DEF WithinBudget
<1>4. \A l \in Hops : Nested(l) \/ (open[l] =< 1 /\ (open[l] = 0 \/ l < level))
  BY <1>0, <1>2 DEF OpenBelow, MayBeOpen
<1>5. open' \in [Hops -> Nat] /\ OpenBelow'
  <2>1. CASE Opened(level) /\ step' = "shake"
    <3>1. open' \in [Hops -> Nat] /\ \A l \in Hops : open'[l] = IF l = level THEN open[level] + 1 ELSE open[l]
      BY <1>0, <2>1, SshTypes DEF Opened, SshTypeOK
    <3>2. ASSUME NEW l \in Hops PROVE (Nested(l) \/ (open[l] =< 1 /\ (open[l] = 0 \/ MayBeOpen(l))))'
      <4>1. CASE l = level
        <5>1. Nested(l) \/ open[l] = 0
          BY <1>0, <1>4, <4>1, SshTypes
        <5> QED BY <1>0, <1>2, <2>1, <3>1, <4>1, <5>1, SshTypes DEF Nested, MayBeOpen
      <4>2. CASE l # level
        BY <1>0, <1>2, <1>4, <2>1, <3>1, <4>2, SshTypes DEF Nested, MayBeOpen
      <4> QED BY <4>1, <4>2
    <3> QED BY <3>1, <3>2 DEF OpenBelow
  <2>2. CASE open' = Shut({level - 1, level - 2}) /\ step' = "dialed"
    <3>1. open' \in [Hops -> Nat]
      BY <1>0, <2>2, ShutCloses DEF SshTypeOK
    <3>2. ASSUME NEW l \in Hops, ~Nested(l) PROVE open'[l] = 0
      <4>1. CASE open[l] = 0
        BY <1>0, <2>2, <4>1, ShutCloses DEF SshTypeOK
      <4>2. CASE open[l] # 0
        <5>1. open[l] =< 1 /\ l < level /\ l > hops - 2
          BY <1>0, <1>4, <3>2, <4>2, SshTypes DEF Nested
        <5>2. l \in {level - 1, level - 2}
          BY <1>0, <5>1, SshTypes
        <5> QED BY <1>0, <2>2, <5>1, <5>2, ShutCloses DEF SshTypeOK
      <4> QED BY <4>1, <4>2
    <3>3. ASSUME NEW l \in Hops PROVE (Nested(l) \/ (open[l] =< 1 /\ (open[l] = 0 \/ MayBeOpen(l))))'
      BY <1>2, <3>2 DEF Nested
    <3> QED BY <3>1, <3>3 DEF OpenBelow
  <2> QED BY <1>1, <2>1, <2>2
<1> QED BY <1>0, <1>2, <1>3, <1>5 DEF DialInv, SshTypeOK, Dialing, TriesLeft, shellVars

LEMMA ShakeKeeps == ASSUME DialInv, Shake PROVE DialInv'
<1>0. SshTypeOK /\ TriesLeft /\ OpenBelow /\ WithinBudget
  BY DEF DialInv
<1> DEFINE limit == Shorter(ShakeLimit, Remaining)
<1>1. limit \in Nat /\ limit =< Remaining
  BY <1>0, SshTypes, RemainingBound DEF Shorter
<1> HIDE DEF limit
<1>2. /\ step = "shake" /\ UNCHANGED <<hops, tries, stalled, shellVars>>
      /\ \E d \in 0..limit : clock' = clock + d
      /\ left' = left \/ left' = [left EXCEPT ![level] = @ + 1]
      /\ \/ /\ UNCHANGED open
            /\ IF level = hops THEN step' = "client" /\ UNCHANGED level ELSE step' = "tunnel" /\ level' = level + 1
         \/ UNCHANGED level /\ open' = Shut({level, level - 1}) /\ step' = "lost"
  <2>1. limit \in 0..limit /\ {level} \cup {level - 1} = {level, level - 1}
    BY <1>1
  <2> QED BY <2>1 DEF Shake, limit, Passes, ClosedWith
<1>3. step' \in {"client", "tunnel", "lost"} /\ ShellKnown' /\ level' \in 1..hops
  BY <1>0, <1>2, NoShellYet, SshTypes
<1>4. clock' \in Nat /\ stalled' \in 0..clock' /\ WithinBudget'
  <2>1. PICK d \in 0..limit : clock' = clock + d
    BY <1>2
  <2>2. d \in Nat /\ d =< Remaining
    BY <1>0, <1>1, <2>1, RemainingBound
  <2>3. clock' = clock \/ clock' =< Budget
    BY <1>0, <2>1, <2>2, SshTypes, RemainingBound
  <2> QED BY <1>0, <1>2, <2>1, <2>2, <2>3, SshTypes DEF WithinBudget
<1>5. left' \in [Hops -> Nat]
  BY <1>0, <1>2, SshTypes DEF SshTypeOK
<1>6. \A l \in Hops : Nested(l) \/ (open[l] =< 1 /\ (open[l] = 0 \/ l =< level))
  BY <1>0, <1>2 DEF OpenBelow, MayBeOpen
<1>7. open' \in [Hops -> Nat] /\ OpenBelow'
  <2>1. CASE UNCHANGED open /\ step' = "client" /\ level = hops
    BY <1>0, <1>2, <1>6, <2>1, SshTypes DEF OpenBelow, MayBeOpen, Nested, SshTypeOK
  <2>2. CASE UNCHANGED open /\ step' = "tunnel" /\ level' = level + 1
    <3>1. ASSUME NEW l \in Hops PROVE (Nested(l) \/ (open[l] =< 1 /\ (open[l] = 0 \/ MayBeOpen(l))))'
      <4>1. l =< level => l < level' /\ l =< hops'
        BY <1>0, <1>2, <2>2, SshTypes
      <4> QED BY <1>2, <1>6, <2>2, <4>1 DEF Nested, MayBeOpen
    <3> QED BY <1>0, <2>2, <3>1 DEF OpenBelow, SshTypeOK
  <2>3. CASE UNCHANGED level /\ open' = Shut({level, level - 1}) /\ step' = "lost"
    <3>1. open' \in [Hops -> Nat]
      BY <1>0, <2>3, ShutCloses DEF SshTypeOK
    <3>2. ASSUME NEW l \in Hops, ~Nested(l) PROVE open'[l] = 0
      <4>1. CASE open[l] = 0
        BY <1>0, <2>3, <4>1, ShutCloses DEF SshTypeOK
      <4>2. CASE open[l] # 0
        <5>1. open[l] =< 1 /\ l =< level /\ l > hops - 2
          BY <1>0, <1>6, <3>2, <4>2, SshTypes DEF Nested
        <5>2. l \in {level, level - 1}
          BY <1>0, <5>1, SshTypes
        <5> QED BY <1>0, <2>3, <5>1, <5>2, ShutCloses DEF SshTypeOK
      <4> QED BY <4>1, <4>2
    <3>3. ASSUME NEW l \in Hops PROVE (Nested(l) \/ (open[l] =< 1 /\ (open[l] = 0 \/ MayBeOpen(l))))'
      BY <1>2, <3>2 DEF Nested
    <3> QED BY <3>1, <3>3 DEF OpenBelow
  <2> QED BY <1>2, <2>1, <2>2, <2>3
<1> QED BY <1>0, <1>2, <1>3, <1>4, <1>5, <1>7 DEF DialInv, SshTypeOK, Dialing, TriesLeft, shellVars

\* The last two clients are closed, and nothing but nested ones stays open.
LEMMA ClosingKeeps ==
  ASSUME DialInv, step \in {"client", "running"}, open' = Shut({hops, hops - 1}), UNCHANGED hops
  PROVE  open' \in [Hops -> Nat] /\ OpenBelow'
<1>0. SshTypeOK /\ OpenBelow
  BY DEF DialInv
<1>1. open' \in [Hops -> Nat]
  BY <1>0, ShutCloses DEF SshTypeOK
<1>2. ASSUME NEW l \in Hops, ~Nested(l) PROVE open'[l] = 0
  <2>1. CASE open[l] = 0
    BY <1>0, <2>1, ShutCloses DEF SshTypeOK
  <2>2. CASE open[l] # 0
    <3>1. open[l] =< 1 /\ l =< hops /\ l > hops - 2
      BY <1>0, <1>2, <2>2, SshTypes DEF Nested, OpenBelow, MayBeOpen
    <3>2. l \in {hops, hops - 1}
      BY <1>0, <3>1, SshTypes
    <3> QED BY <1>0, <3>1, <3>2, ShutCloses DEF SshTypeOK
  <2> QED BY <2>1, <2>2
<1>3. ASSUME NEW l \in Hops PROVE (Nested(l) \/ (open[l] =< 1 /\ (open[l] = 0 \/ MayBeOpen(l))))'
  BY <1>2 DEF Nested
<1> QED BY <1>1, <1>3 DEF OpenBelow

LEMMA StartShellKeeps == ASSUME DialInv, StartShell PROVE DialInv'
<1>0. SshTypeOK /\ TriesLeft /\ OpenBelow /\ WithinBudget /\ ShellKnown
  BY DEF DialInv
<1>1. step = "client" /\ UNCHANGED <<hops, level, tries, left, clock, stalled, shellEnd, eof, told>>
  BY DEF StartShell
<1>2. CASE step' = "running" /\ shell' = "connected" /\ monitor' = "waiting" /\ UNCHANGED open
  <2>1. OpenBelow' /\ ShellKnown'
    BY <1>0, <1>1, <1>2 DEF OpenBelow, MayBeOpen, Nested, ShellKnown
  <2> QED BY <1>0, <1>1, <1>2, <2>1 DEF DialInv, SshTypeOK, TriesLeft, WithinBudget
<1>3. CASE step' = "failed" /\ open' = Shut({hops, hops - 1}) /\ UNCHANGED <<shell, monitor>>
  <2>1. OpenBelow' /\ ShellKnown' /\ open' \in [Hops -> Nat]
    BY <1>0, <1>1, <1>3, ClosingKeeps DEF ShellKnown
  <2> QED BY <1>0, <1>1, <1>3, <2>1 DEF DialInv, SshTypeOK, TriesLeft, WithinBudget
<1> QED BY <1>2, <1>3 DEF StartShell

\* The end of a terminal: its shell, the mark, the pipe, the reader, Close.
LEMMA TerminalEndKeeps ==
  ASSUME DialInv, ShellSteps \/ ShellEnds PROVE DialInv'
<1>0. SshTypeOK /\ TriesLeft /\ OpenBelow /\ WithinBudget /\ ShellKnown
  BY DEF DialInv
<1>1. UNCHANGED <<hops, level, step, tries, open, left, clock, stalled>>
  BY DEF ShellSteps, MarkExited, ClosePipe, ReaderEnds, ShellEnds, dialVars
<1>2. OpenBelow' /\ TriesLeft' /\ WithinBudget'
  BY <1>0, <1>1 DEF OpenBelow, MayBeOpen, Nested, TriesLeft, WithinBudget
<1>3. CASE MarkExited
  <2>1. ShellKnown'
    BY <1>0, <1>1, <1>3 DEF MarkExited, ShellKnown, SshTypeOK
  <2> QED BY <1>0, <1>1, <1>2, <1>3, <2>1 DEF DialInv, SshTypeOK, MarkExited
<1>4. CASE ClosePipe
  <2>1. ShellKnown'
    BY <1>0, <1>1, <1>4 DEF ClosePipe, PipeCloses, ShellKnown
  <2> QED BY <1>0, <1>1, <1>2, <1>4, <2>1 DEF DialInv, SshTypeOK, ClosePipe
<1>5. CASE ReaderEnds
  <2>1. ShellKnown' /\ told' \in {"exited", "disconnected"}
    BY <1>0, <1>1, <1>5 DEF ReaderEnds, ShellKnown
  <2> QED BY <1>0, <1>1, <1>2, <1>5, <2>1 DEF DialInv, SshTypeOK, ReaderEnds
<1>6. CASE ShellEnds
  <2>1. ShellKnown'
    BY <1>0, <1>1, <1>6 DEF ShellEnds, ShellKnown
  <2> QED BY <1>0, <1>1, <1>2, <1>6, <2>1 DEF DialInv, SshTypeOK, ShellEnds
<1> QED BY <1>3, <1>4, <1>5, <1>6 DEF ShellSteps

LEMMA CloseTerminalKeeps == ASSUME DialInv, CloseTerminal \/ \E l \in Hops : CloseLeft(l) PROVE DialInv'
<1>0. SshTypeOK /\ TriesLeft /\ OpenBelow /\ WithinBudget /\ ShellKnown
  BY DEF DialInv
<1>1. CASE CloseTerminal
  <2>1. /\ step = "running" /\ step' = "closed" /\ shell' = "exited" /\ shellEnd' # "no"
        /\ shellEnd' \in {"no", "exited", "lost"} /\ open' = Shut({hops, hops - 1})
        /\ UNCHANGED <<hops, level, tries, left, clock, stalled, monitor, eof, told>>
    BY <1>0, <1>1 DEF CloseTerminal, SshTypeOK
  <2>2. OpenBelow' /\ ShellKnown' /\ open' \in [Hops -> Nat]
    BY <1>0, <2>1, ClosingKeeps DEF ShellKnown
  <2> QED BY <1>0, <2>1, <2>2 DEF DialInv, SshTypeOK, TriesLeft, WithinBudget
<1>2. CASE \E l \in Hops : CloseLeft(l)
  <2>1. left' \in [Hops -> Nat] /\ UNCHANGED <<hops, level, step, tries, open, clock, stalled, shell, shellEnd, monitor, eof, told>>
    BY <1>0, <1>2 DEF CloseLeft, SshTypeOK, shellVars
  <2> QED BY <1>0, <2>1 DEF DialInv, SshTypeOK, TriesLeft, OpenBelow, MayBeOpen, Nested, WithinBudget, ShellKnown
<1> QED BY <1>1, <1>2

LEMMA SshStep == DialInv /\ [SshNext]_sshVars => DialInv'
<1> SUFFICES ASSUME DialInv, [SshNext]_sshVars PROVE DialInv'
  OBVIOUS
<1>1. CASE UNCHANGED sshVars
  BY <1>1 DEF sshVars, dialVars, shellVars, DialInv, SshTypeOK, TriesLeft, OpenBelow, MayBeOpen, Nested, WithinBudget,
              ShellKnown
<1> QED BY <1>1, BeginKeeps, AttemptKeeps, OtherDialStepKeeps, TunnelKeeps, ShakeKeeps, StartShellKeeps, TerminalEndKeeps,
           CloseTerminalKeeps DEF SshNext, DialSteps

\* Nothing is left open by a dial that failed or a terminal that closed, one
\* budget bounds the whole chain, and the end of a shell is told as what it is,
\* for chains of any length, whatever fails.
THEOREM DialIsSoundCorrect == SshSpec => []DialIsSound
<1>1. ASSUME DialInv PROVE DialIsSound
  <2>1. NothingOpen
    BY <1>1 DEF DialInv, OpenBelow, MayBeOpen, NothingOpen
  <2>2. EndIsKnown
    BY <1>1 DEF DialInv, ShellKnown, EndIsKnown
  <2> QED BY <1>1, <2>1, <2>2 DEF DialInv, DialIsSound
<1> QED BY <1>1, SshInitInv, SshStep, PTL DEF SshSpec

-----------------------------------------------------------------------------
(* The probe of a host's agents, beside a collection.                      *)

LEMMA ProbeStep == ProbesHold /\ [ProbeNext]_probeVars => ProbesHold'
<1> SUFFICES ASSUME ProbesHold, [ProbeNext]_probeVars PROVE ProbesHold'
  OBVIOUS
<1>1. CASE Connected \/ Dropped \/ Installs \/ Lists \/ Ages
  BY <1>1 DEF ProbesHold, Connected, Dropped, Installs, Lists, Ages
<1>2. CASE Closes
  BY <1>2 DEF ProbesHold, Closes
<1>3. CASE ProbeAnswers \/ ProbeEnds
  BY <1>3 DEF ProbesHold, ProbeAnswers, ProbeEnds
<1>4. ASSUME NEW c \in Callers, CallerSteps(c) PROVE ProbesHold'
  <2>1. CASE BeginProbe(c)
    BY <2>1 DEF ProbesHold, BeginProbe, Accepting
  <2>2. CASE ~BeginProbe(c)
    BY <1>4, <2>2 DEF ProbesHold, CallerSteps, Collect, Collected, AskProbe, Launches, Refuses
  <2> QED BY <2>1, <2>2
<1>5. CASE UNCHANGED probeVars
  BY <1>5 DEF ProbesHold, probeVars
<1> QED BY <1>1, <1>2, <1>3, <1>4, <1>5 DEF ProbeNext

\* Once Close returned no probe runs, whatever collections and launches are
\* still under way.
THEOREM ProbesHoldCorrect == ProbeSpec => []ProbesHold
<1>1. ProbeInit => ProbesHold
  BY DEF ProbeInit, ProbesHold
<1> QED BY <1>1, ProbeStep, PTL DEF ProbeSpec

-----------------------------------------------------------------------------
(***************************************************************************)
(* What is kept of an agent's logs and of a pane.  A log was as long as    *)
(* what is kept of it says, so that a longer one is read again; what was   *)
(* read while a transcript moved says nothing of a file that ever returns  *)
(* (`Told').                                                               *)
(***************************************************************************)
ExistsIn(lg, at, path) ==
  IF path[2] = "rollout" THEN lg["rollout"] # <<>> ELSE at = path[1] /\ lg[path[2]] # <<>>

SaidBy(lg, f) == IF f = "rollout" THEN ParseCodexSessionCWD(lg[f]) ELSE ParseClaudeProjectCWD(lg[f])

\* The file was there when a size was found.
Was(at, path) == path[2] = "rollout" \/ at = path[1] \/ (path[1] = "derived" /\ at = "elsewhere")

Seen(lg, at, path, size) == size > 0 => size =< Len(lg[path[2]]) /\ Was(at, path)

ToldBy(lg, at, path, size, dir) ==
  /\ Seen(lg, at, path, size)
  /\ size > 0 /\ ExistsIn(lg, at, path) /\ size = Len(lg[path[2]]) => dir = SaidBy(lg, path[2])

LogLines == ClaudeRecords \cup CodexRecords

HostKnown == /\ logs \in [Logs -> Seq(LogLines)] /\ place \in Places \cup {NoPlace}
             /\ probed \in [place : Places \cup {NoPlace}, fresh : BOOLEAN]

CacheKnown ==
  /\ logCache = [p \in Paths |-> logCache[p]]
  /\ \A p \in Paths : /\ logCache[p].size \in Nat
                      /\ ToldBy(logs, place, p, logCache[p].size, logCache[p].dir)

ReqKnown(lg, at, q) ==
  /\ q.at \in {"stat", "load", "store"} => q.dir \in Places /\ q.todo \in Seq(Logs) /\ q.todo # <<>>
  /\ q.at \in {"load", "store"} => q.size \in Nat /\ Seen(lg, at, Reading(q), q.size)
  /\ q.at = "store" => ToldBy(lg, at, Reading(q), q.size, q.read)

RequestsKnown == req = [r \in Asking |-> req[r]] /\ \A r \in Asking : ReqKnown(logs, place, req[r])

OwnRequests == ~crossed => \A r \in Asking : req[r].at # "idle" => req[r].of = paneSession

HeaderInv == HostKnown /\ CacheKnown /\ RequestsKnown /\ OwnRequests /\ OwnSessions

LEMMA ReadingIsPath ==
  ASSUME NEW q, q.dir \in Places, q.todo \in Seq(Logs), q.todo # <<>>
  PROVE  Reading(q) \in Paths /\ Reading(q)[2] = Head(q.todo) /\ Head(q.todo) \in Logs
<1>1. Head(q.todo) \in Logs
  BY HeadTailProperties
<1> QED BY <1>1 DEF Reading, Paths

\* What was found of a log holds though the host goes on: logs only grow, and
\* no transcript comes back to where it was.
LEMMA HostOnlyAdds ==
  ASSUME HostKnown, OnHost, NEW path \in Paths, NEW size \in Nat, NEW dir
  PROVE  /\ Seen(logs, place, path, size) => Seen(logs', place', path, size)
         /\ ToldBy(logs, place, path, size, dir) => ToldBy(logs', place', path, size, dir)
<1>0. path[1] \in Places /\ path[2] \in Logs /\ logs[path[2]] \in Seq(LogLines) /\ Len(logs[path[2]]) \in Nat
  BY DEF Paths, HostKnown
<1>1. CASE UNCHANGED <<logs, place>>
  BY <1>1
<1>2. CASE Relocates
  <2>1. place = "derived" /\ place' = "elsewhere" /\ logs' = logs
    BY <1>2 DEF Relocates
  <2>2. Was(place, path) => Was(place', path) /\ (path[2] = "rollout" \/ path[1] = "derived")
    BY <2>1 DEF Was
  <2> QED BY <2>1, <2>2 DEF Seen, ToldBy, ExistsIn
<1>3. ASSUME NEW f \in Logs, NEW rec \in LogRecords[f], Writes(f, rec)
      PROVE  /\ Seen(logs, place, path, size) => Seen(logs', place', path, size)
             /\ ToldBy(logs, place, path, size, dir) => ToldBy(logs', place', path, size, dir)
  <2>1. /\ logs' = [logs EXCEPT ![f] = Append(logs[f], rec)]
        /\ IF place = NoPlace /\ f = "main" THEN place' \in Places ELSE place' = place
    BY <1>3 DEF Writes
  <2>2. CASE f = path[2]
    <3>1. logs'[path[2]] = Append(logs[path[2]], rec)
      BY <1>0, <2>1, <2>2 DEF HostKnown
    <3>2. rec \in LogLines
      BY HeaderAssumption DEF LogLines
    <3>3. Len(logs'[path[2]]) = Len(logs[path[2]]) + 1
      BY <1>0, <3>1, <3>2
    <3>4. Was(place, path) => Was(place', path)
      BY <1>0, <2>1 DEF Was, NoPlace, Places
    <3> QED BY <1>0, <3>3, <3>4 DEF Seen, ToldBy
  <2>3. CASE f # path[2]
    <3>1. logs'[path[2]] = logs[path[2]]
      BY <1>0, <2>1, <2>3 DEF HostKnown
    <3>2. Was(place, path) => Was(place', path) /\ (path[2] = "rollout" \/ place' = place)
      BY <1>0, <2>1 DEF Was, NoPlace, Places
    <3>3. path[2] = "rollout" => logs'["rollout"] = logs["rollout"]
      BY <3>1
    <3> QED BY <3>1, <3>2, <3>3 DEF Seen, ToldBy, ExistsIn, SaidBy
  <2> QED BY <2>2, <2>3
<1>4. OnHost => UNCHANGED <<logs, place>> \/ Relocates \/ \E f \in Logs : \E rec \in LogRecords[f] : Writes(f, rec)
  BY DEF OnHost, ProcessEnds, ProcessMoves, ProcessStarts
<1> QED BY <1>1, <1>2, <1>3, <1>4

LEMMA OnHostKeeps == ASSUME HeaderInv, OnHost PROVE HeaderInv'
<1>0. HostKnown /\ CacheKnown /\ RequestsKnown /\ OwnRequests /\ OwnSessions
  BY DEF HeaderInv
<1>1. UNCHANGED <<paneSession, logCache, probed, cached, req, crossed>>
  BY DEF OnHost, Relocates, ProcessEnds, ProcessMoves, ProcessStarts, Writes, HostChanges, cacheVars
<1>2. HostKnown'
  <2>1. CASE UNCHANGED <<logs, place>>
    BY <1>0, <1>1, <2>1 DEF HostKnown
  <2>2. CASE Relocates
    BY <1>0, <1>1, <2>2 DEF HostKnown, Relocates, Places
  <2>3. ASSUME NEW f \in Logs, NEW rec \in LogRecords[f], Writes(f, rec) PROVE HostKnown'
    <3>1. rec \in LogLines
      BY HeaderAssumption DEF LogLines
    <3>2. Append(logs[f], rec) \in Seq(LogLines)
      BY <1>0, <3>1 DEF HostKnown
    <3>3. logs' = [logs EXCEPT ![f] = Append(logs[f], rec)] /\ place' \in Places \cup {NoPlace}
      BY <1>0, <2>3 DEF Writes, HostKnown
    <3> QED BY <1>0, <1>1, <3>2, <3>3 DEF HostKnown
  <2>4. OnHost => UNCHANGED <<logs, place>> \/ Relocates \/ \E f \in Logs : \E rec \in LogRecords[f] : Writes(f, rec)
    BY DEF OnHost, ProcessEnds, ProcessMoves, ProcessStarts
  <2> QED BY <2>1, <2>2, <2>3, <2>4
<1>3. CacheKnown'
  BY <1>0, <1>1, HostOnlyAdds DEF CacheKnown
<1>4. ASSUME NEW r \in Asking PROVE ReqKnown(logs', place', req[r])
  <2>1. ReqKnown(logs, place, req[r])
    BY <1>0 DEF RequestsKnown
  <2>2. CASE req[r].at \in {"load", "store"}
    <3>1. Reading(req[r]) \in Paths
      BY <2>1, <2>2, ReadingIsPath DEF ReqKnown
    <3> QED BY <1>0, <2>1, <2>2, <3>1, HostOnlyAdds DEF ReqKnown
  <2>3. CASE req[r].at \notin {"load", "store"}
    BY <2>1, <2>3 DEF ReqKnown
  <2> QED BY <2>2, <2>3
<1>5. RequestsKnown' /\ OwnRequests' /\ OwnSessions'
  BY <1>0, <1>1, <1>4 DEF RequestsKnown, OwnRequests, OwnSessions
<1> QED BY <1>2, <1>3, <1>5 DEF HeaderInv

LEMMA HeaderInitInv == HeaderInit => HeaderInv
<1> SUFFICES ASSUME HeaderInit PROVE HeaderInv
  OBVIOUS
<1>1. HostKnown
  BY HeaderAssumption DEF HeaderInit, HostKnown, LogLines
<1>2. ASSUME NEW p \in Paths
      PROVE  logCache[p].size \in Nat /\ ToldBy(logs, place, p, logCache[p].size, logCache[p].dir)
  <2>1. logCache[p].size = 0
    BY DEF HeaderInit
  <2> QED BY <2>1 DEF ToldBy, Seen
<1>3. logCache = [p \in Paths |-> logCache[p]] /\ req = [r \in Asking |-> req[r]]
  BY DEF HeaderInit
<1>4. \A r \in Asking : req[r].at = "idle"
  BY DEF HeaderInit, NotAsking
<1>5. RequestsKnown
  BY <1>3, <1>4 DEF RequestsKnown, ReqKnown
<1>6. OwnRequests /\ OwnSessions
  BY <1>4 DEF HeaderInit, OwnRequests, OwnSessions
<1> QED BY <1>1, <1>2, <1>3, <1>5, <1>6 DEF HeaderInv, CacheKnown

\* What one request does leaves the host and the other requests alone.
LEMMA RequestGoesOn ==
  ASSUME HeaderInv, NEW r \in Asking, NEW q, Becomes(r, q), ReqKnown(logs, place, q),
         q.at # "idle" => q.of = paneSession \/ crossed \/ (req[r].at # "idle" /\ q.of = req[r].of),
         UNCHANGED <<logs, place, paneSession, crossed>>
  PROVE  RequestsKnown' /\ OwnRequests'
<1>0. RequestsKnown /\ OwnRequests
  BY DEF HeaderInv
<1>1. req' = [s \in Asking |-> IF s = r THEN q ELSE req[s]]
  BY <1>0 DEF Becomes, RequestsKnown
<1>2. req' = [s \in Asking |-> req'[s]] /\ \A s \in Asking : req'[s] = IF s = r THEN q ELSE req[s]
  BY <1>1
<1>3. RequestsKnown'
  BY <1>0, <1>2 DEF RequestsKnown
<1>4. OwnRequests'
  BY <1>0, <1>2 DEF OwnRequests
<1> QED BY <1>3, <1>4

\* A request that reads no log.
LEMMA ElsewhereKnown ==
  ASSUME NEW q, q.at \notin {"stat", "load", "store"}
  PROVE  ReqKnown(logs, place, q)
BY DEF ReqKnown

LEMMA BeginsKeeps == ASSUME HeaderInv, NEW r \in Asking, Begins(r) PROVE HeaderInv'
<1>0. HostKnown /\ CacheKnown /\ OwnSessions
  BY DEF HeaderInv
<1>1. UNCHANGED <<logs, place, paneSession, logCache, probed, cached, crossed>>
  BY DEF Begins, paneHostVars, cacheVars
<1> DEFINE q == [at |-> "snap", of |-> paneSession, base |-> PaneCWD]
<1>2. Becomes(r, q) /\ q.at = "snap" /\ q.of = paneSession
  BY DEF Begins
<1> HIDE DEF q
<1>3. RequestsKnown' /\ OwnRequests'
  BY <1>1, <1>2, ElsewhereKnown, RequestGoesOn
<1> QED BY <1>0, <1>1, <1>3 DEF HeaderInv, HostKnown, CacheKnown, OwnSessions

\* What is kept of the pane is of the session the request began with.
LEMMA ReplyKeeps ==
  ASSUME HeaderInv, NEW r \in Asking, req[r].at # "idle", NEW dirs, Reply(r, dirs),
         UNCHANGED <<logs, place, paneSession, logCache, probed, crossed>>
  PROVE  HeaderInv'
<1>0. HostKnown /\ CacheKnown /\ OwnSessions /\ OwnRequests
  BY DEF HeaderInv
<1>1. Becomes(r, NotAsking) /\ NotAsking.at = "idle"
  BY DEF Reply, NotAsking
<1>2. RequestsKnown' /\ OwnRequests'
  BY <1>1, ElsewhereKnown, RequestGoesOn
<1>3. cached' = cached \/ cached' = [of |-> req[r].of, dirs |-> dirs]
  BY DEF Reply
<1>4. OwnSessions'
  BY <1>0, <1>3 DEF OwnSessions, OwnRequests
<1> QED BY <1>0, <1>2, <1>4 DEF HeaderInv, HostKnown, CacheKnown

LEMMA WithCandidatesKeeps ==
  ASSUME HeaderInv, NEW r \in Asking, req[r].at # "idle", NEW dirs, WithCandidates(r, dirs),
         UNCHANGED <<logs, place, paneSession, logCache, probed, cached, crossed>>
  PROVE  HeaderInv'
<1>0. HostKnown /\ CacheKnown /\ OwnSessions
  BY DEF HeaderInv
<1> DEFINE ds == IF dirs = <<>> THEN Recall(req[r].base) ELSE dirs
           q  == [at |-> "inspect", of |-> req[r].of, base |-> req[r].base, dirs |-> ds]
<1>1. Becomes(r, q) /\ q.at = "inspect" /\ q.of = req[r].of
  BY DEF WithCandidates, Candidates
<1> HIDE DEF q
<1>2. RequestsKnown' /\ OwnRequests'
  BY <1>1, ElsewhereKnown, RequestGoesOn
<1> QED BY <1>0, <1>2 DEF HeaderInv, HostKnown, CacheKnown, OwnSessions

LEMMA SnapKeeps == ASSUME HeaderInv, NEW r \in Asking, SnapProcesses(r) PROVE HeaderInv'
<1>0. HostKnown /\ CacheKnown /\ OwnSessions
  BY DEF HeaderInv
<1>1. req[r].at = "snap" /\ UNCHANGED <<logs, place, paneSession, logCache, probed, crossed>>
  BY DEF SnapProcesses, paneHostVars, cacheVars
<1> DEFINE agent == PaneAgent
           q     == [at |-> "locate", of |-> req[r].of, base |-> req[r].base, shell |-> PaneCWD,
                     agent |-> agent, runs |-> table[agent].runs, tree |-> DescendantPIDs(table, agent)]
<1>2. CASE Reply(r, <<>>)
  BY <1>1, <1>2, ReplyKeeps
<1>3. CASE WithCandidates(r, <<>>) /\ UNCHANGED cached
  BY <1>1, <1>3, WithCandidatesKeeps
<1>4. CASE Becomes(r, q) /\ UNCHANGED cached
  <2>1. q.at = "locate" /\ q.of = req[r].of
    OBVIOUS
  <2> HIDE DEF q
  <2>2. RequestsKnown' /\ OwnRequests'
    BY <1>1, <1>4, <2>1, ElsewhereKnown, RequestGoesOn
  <2> QED BY <1>0, <1>1, <1>4, <2>2 DEF HeaderInv, HostKnown, CacheKnown, OwnSessions
<1> QED BY <1>2, <1>3, <1>4 DEF SnapProcesses

\* The next step of a search is of the request it is a step of.
LEMMA FallsBackKeeps ==
  ASSUME HeaderInv, NEW r \in Asking, req[r].at # "idle", FallsBack(r), UNCHANGED <<logs, place, paneSession, crossed>>
  PROVE  RequestsKnown' /\ OwnRequests'
<1> DEFINE q    == req[r]
           next == [at |-> "fallback", of |-> q.of, base |-> q.base, shell |-> q.shell, agent |-> q.agent,
                    tree |-> q.tree]
<1>1. Becomes(r, next) /\ next.at = "fallback" /\ next.of = q.of
  BY DEF FallsBack
<1> HIDE DEF next
<1> QED BY <1>1, ElsewhereKnown, RequestGoesOn

LEMMA SearchKeeps ==
  ASSUME HeaderInv, NEW r \in Asking, req[r].at # "idle", NEW at \in {"stat", "probe"}, NEW dir, NEW todo, NEW found,
         NEW probing, at = "stat" => dir \in Places /\ todo \in Seq(Logs) /\ todo # <<>>,
         Becomes(r, Search(req[r], at, dir, todo, found, probing)), UNCHANGED <<logs, place, paneSession, crossed>>
  PROVE  RequestsKnown' /\ OwnRequests'
<1> DEFINE next == Search(req[r], at, dir, todo, found, probing)
<1>1. next.at = at /\ next.of = req[r].of /\ next.dir = dir /\ next.todo = todo
  BY DEF Search
<1> HIDE DEF next
<1>2. ReqKnown(logs, place, next)
  BY <1>1 DEF ReqKnown
<1> QED BY <1>1, <1>2, RequestGoesOn DEF next

LEMMA LoadingKeeps ==
  ASSUME HeaderInv, NEW r \in Asking, req[r].at \in {"stat", "load"}, NEW at \in {"load", "store"}, NEW size \in Nat,
         NEW read, Becomes(r, Loading(req[r], at, size, read)), UNCHANGED <<logs, place, paneSession, crossed>>,
         Seen(logs, place, Reading(req[r]), size), at = "store" => ToldBy(logs, place, Reading(req[r]), size, read)
  PROVE  RequestsKnown' /\ OwnRequests'
<1> DEFINE q    == req[r]
           next == Loading(req[r], at, size, read)
<1>1. /\ next.at = at /\ next.of = q.of /\ next.dir = q.dir /\ next.todo = q.todo /\ next.size = size
      /\ next.read = read /\ Reading(next) = Reading(q)
  BY DEF Loading, Reading
<1>2. q.dir \in Places /\ q.todo \in Seq(Logs) /\ q.todo # <<>>
  BY DEF HeaderInv, RequestsKnown, ReqKnown
<1> HIDE DEF next
<1>3. ReqKnown(logs, place, next)
  BY <1>1, <1>2 DEF ReqKnown
<1> QED BY <1>1, <1>3, RequestGoesOn DEF next

LEMMA LocateKeeps == ASSUME HeaderInv, NEW r \in Asking, LocateSession(r) PROVE HeaderInv'
<1>0. HostKnown /\ CacheKnown /\ OwnSessions
  BY DEF HeaderInv
<1>1. /\ req[r].at = "locate"
      /\ UNCHANGED <<logs, place, paneSession, logCache, probed, cached, crossed>>
  BY DEF LocateSession, Searching, paneHostVars, cacheVars
<1>2. RequestsKnown' /\ OwnRequests'
  <2>1. CASE FallsBack(r)
    BY <1>1, <2>1, FallsBackKeeps
  <2>2. ASSUME NEW dir \in Places, NEW todo \in Seq(Logs), todo # <<>>,
               Becomes(r, Search(req[r], "stat", dir, todo, <<>>, onSsh /\ req[r].runs = "claude"))
        PROVE  RequestsKnown' /\ OwnRequests'
    BY <1>1, <2>2, SearchKeeps
  <2>3. FirstPlace \in Places /\ "derived" \in Places
    BY <1>0 DEF HostKnown, FirstPlace, Places
  <2>4. <<"main", "sub">> \in Seq(Logs) /\ <<"rollout">> \in Seq(Logs) /\ <<"main", "sub">> # <<>> /\ <<"rollout">> # <<>>
    BY DEF Logs
  <2> QED BY <2>1, <2>2, <2>3, <2>4 DEF LocateSession
<1> QED BY <1>0, <1>1, <1>2 DEF HeaderInv, HostKnown, CacheKnown, OwnSessions

\* The next log, or what follows the last.
LEMMA OnwardKeeps ==
  ASSUME HeaderInv, NEW r \in Asking, req[r].at \in {"stat", "load", "store"}, NEW d, Onward(r, d),
         UNCHANGED <<logs, place, paneSession, crossed>>
  PROVE  RequestsKnown' /\ OwnRequests'
<1> DEFINE q     == req[r]
           todo  == Tail(q.todo)
           found == WithCWD(q.found, d)
<1>1. q.dir \in Places /\ q.todo \in Seq(Logs) /\ q.todo # <<>>
  BY DEF HeaderInv, RequestsKnown, ReqKnown
<1>2. todo \in Seq(Logs)
  BY <1>1, HeadTailProperties
<1>3. \/ todo # <<>> /\ Becomes(r, Search(q, "stat", q.dir, todo, found, q.probe))
      \/ Becomes(r, Candidates(q, found))
      \/ Becomes(r, Search(q, "probe", q.dir, todo, found, q.probe))
      \/ FallsBack(r)
  BY DEF Onward
<1>4. CASE Becomes(r, Candidates(q, found))
  <2> DEFINE next == [at |-> "inspect", of |-> q.of, base |-> q.base, dirs |-> found]
  <2>1. Becomes(r, next) /\ next.at = "inspect" /\ next.of = q.of
    BY <1>4 DEF Candidates
  <2> HIDE DEF next
  <2> QED BY <2>1, ElsewhereKnown, RequestGoesOn
<1> HIDE DEF todo, found
<1> QED BY <1>1, <1>2, <1>3, <1>4, SearchKeeps, FallsBackKeeps

LEMMA StatKeeps == ASSUME HeaderInv, NEW r \in Asking, StatLog(r) PROVE HeaderInv'
<1>0. HostKnown /\ CacheKnown /\ OwnSessions
  BY DEF HeaderInv
<1> DEFINE path == Reading(req[r])
           size == Len(logs[path[2]])
<1>1. req[r].at = "stat" /\ UNCHANGED <<logs, place, paneSession, logCache, probed, cached, crossed>>
  BY DEF StatLog, Searching, paneHostVars, cacheVars
<1>2. req[r].dir \in Places /\ req[r].todo \in Seq(Logs) /\ req[r].todo # <<>>
  BY <1>1 DEF HeaderInv, RequestsKnown, ReqKnown
<1>3. path \in Paths /\ path[2] \in Logs
  BY <1>2, ReadingIsPath
<1>4. size \in Nat
  BY <1>0, <1>3 DEF HostKnown
<1>5. LogExists(path) => Seen(logs, place, path, size)
  BY <1>4 DEF LogExists, Seen, Was
<1>6. Seen(logs, place, path, 0)
  BY DEF Seen
<1>7. \/ \E d : Onward(r, d)
      \/ LogExists(path) /\ Loads(r, size)
      \/ Loads(r, 0)
  BY DEF StatLog
<1>8. RequestsKnown' /\ OwnRequests'
  <2>1. ASSUME NEW d, Onward(r, d) PROVE RequestsKnown' /\ OwnRequests'
    BY <1>1, <2>1, OnwardKeeps
  <2> HIDE DEF path, size
  <2>2. ASSUME NEW n \in Nat, Seen(logs, place, Reading(req[r]), n), Loads(r, n) PROVE RequestsKnown' /\ OwnRequests'
    BY <1>1, <2>2, LoadingKeeps DEF Loads
  <2> QED BY <1>4, <1>5, <1>6, <1>7, <2>1, <2>2 DEF path
<1> QED BY <1>0, <1>1, <1>8 DEF HeaderInv, HostKnown, CacheKnown, OwnSessions

LEMMA LoadKeeps == ASSUME HeaderInv, NEW r \in Asking, LoadLog(r) PROVE HeaderInv'
<1>0. HostKnown /\ CacheKnown /\ OwnSessions /\ ReqKnown(logs, place, req[r])
  BY DEF HeaderInv, RequestsKnown
<1>1. req[r].at = "load" /\ UNCHANGED <<logs, place, paneSession, logCache, probed, cached, crossed>>
  BY DEF LoadLog, Searching, paneHostVars, cacheVars
<1> DEFINE q    == req[r]
           path == Reading(q)
           said == IF LogExists(path) THEN Parsed(path[2]) ELSE NoDir
<1>2. q.dir \in Places /\ q.todo \in Seq(Logs) /\ q.todo # <<>> /\ q.size \in Nat /\ Seen(logs, place, path, q.size)
  BY <1>0, <1>1 DEF ReqKnown
<1>4. Becomes(r, Loading(q, "store", q.size, said)) \/ Onward(r, NoDir)
  BY DEF LoadLog
<1>5. CASE Becomes(r, Loading(q, "store", q.size, said))
  <2>1. LogExists(path) = ExistsIn(logs, place, path) /\ Parsed(path[2]) = SaidBy(logs, path[2])
    BY DEF LogExists, ExistsIn, Parsed, SaidBy
  <2>2. ToldBy(logs, place, path, q.size, said)
    BY <1>2, <2>1 DEF ToldBy
  <2> HIDE DEF said
  <2>3. RequestsKnown' /\ OwnRequests'
    BY <1>1, <1>2, <1>5, <2>2, LoadingKeeps
  <2> QED BY <1>0, <1>1, <2>3 DEF HeaderInv, HostKnown, CacheKnown, OwnSessions
<1>6. CASE Onward(r, NoDir)
  <2>1. RequestsKnown' /\ OwnRequests'
    BY <1>1, <1>6, OnwardKeeps
  <2> QED BY <1>0, <1>1, <2>1 DEF HeaderInv, HostKnown, CacheKnown, OwnSessions
<1> QED BY <1>4, <1>5, <1>6

\* What is kept of a log is what it said at the size it had before.
LEMMA StoreKeeps == ASSUME HeaderInv, NEW r \in Asking, StoreLog(r) PROVE HeaderInv'
<1>0. HostKnown /\ CacheKnown /\ OwnSessions /\ ReqKnown(logs, place, req[r])
  BY DEF HeaderInv, RequestsKnown
<1> DEFINE q     == req[r]
           path  == Reading(q)
           fresh == [size |-> q.size, dir |-> q.read]
<1>1. /\ q.at = "store" /\ UNCHANGED <<logs, place, paneSession, probed, cached, crossed>> /\ Onward(r, q.read)
      /\ logCache' = IF q.size = 0 THEN logCache ELSE [logCache EXCEPT ![path] = [size |-> q.size, dir |-> q.read]]
  BY DEF StoreLog, SizeBefore, Searching, paneHostVars
<1>2. /\ q.dir \in Places /\ q.todo \in Seq(Logs) /\ q.todo # <<>> /\ q.size \in Nat
      /\ ToldBy(logs, place, path, q.size, q.read)
  BY <1>0, <1>1 DEF ReqKnown
<1>3. path \in Paths
  BY <1>2, ReadingIsPath
<1>4. fresh.size = q.size /\ fresh.dir = q.read
  OBVIOUS
<1> HIDE DEF fresh, path
<1>5. logCache' = [p \in Paths |-> logCache'[p]] /\ \A p \in Paths : logCache'[p] = logCache[p] \/ (p = path /\ logCache'[p] = fresh)
  <2>1. CASE q.size = 0
    BY <1>0, <1>1, <2>1 DEF CacheKnown
  <2>2. CASE q.size # 0
    <3>1. logCache' = [logCache EXCEPT ![path] = fresh]
      BY <1>1, <2>2 DEF fresh
    <3>2. logCache' = [p \in Paths |-> IF p = path THEN fresh ELSE logCache[p]]
      BY <1>0, <3>1 DEF CacheKnown
    <3> QED BY <3>2
  <2> QED BY <2>1, <2>2
<1>6. CacheKnown'
  BY <1>0, <1>1, <1>2, <1>4, <1>5 DEF CacheKnown, path
<1>7. RequestsKnown' /\ OwnRequests'
  BY <1>1, OnwardKeeps
<1> QED BY <1>0, <1>1, <1>6, <1>7 DEF HeaderInv, HostKnown, OwnSessions

LEMMA ProbeKeeps == ASSUME HeaderInv, NEW r \in Asking, Probe(r) PROVE HeaderInv'
<1>0. HostKnown /\ CacheKnown /\ OwnSessions /\ ReqKnown(logs, place, req[r])
  BY DEF HeaderInv, RequestsKnown
<1>1. req[r].at = "probe" /\ UNCHANGED <<logs, place, paneSession, logCache, cached, crossed>>
  BY DEF Probe, Searching, paneHostVars
<1>2. probed' \in [place : Places \cup {NoPlace}, fresh : BOOLEAN]
  <2>1. (probed' = probed \/ probed' = [place |-> place, fresh |-> TRUE]) /\ place \in Places \cup {NoPlace}
    BY <1>0 DEF Probe, HostKnown
  <2>2. [place |-> place, fresh |-> TRUE] \in [place : Places \cup {NoPlace}, fresh : BOOLEAN]
    BY <2>1
  <2>3. probed \in [place : Places \cup {NoPlace}, fresh : BOOLEAN]
    BY <1>0 DEF HostKnown
  <2> QED BY <2>1, <2>2, <2>3
<1>3. CASE FallsBack(r)
  <2>1. RequestsKnown' /\ OwnRequests'
    BY <1>1, <1>3, FallsBackKeeps
  <2> QED BY <1>0, <1>1, <1>2, <2>1 DEF HeaderInv, HostKnown, CacheKnown, OwnSessions
<1>4. CASE /\ place \notin {NoPlace, req[r].dir}
           /\ Becomes(r, Search(req[r], "stat", place, <<"main", "sub">>, <<>>, FALSE))
  <2>1. <<"main", "sub">> \in Seq(Logs) /\ <<"main", "sub">> # <<>> /\ place \in Places
    BY <1>0, <1>4 DEF Logs, HostKnown
  <2>2. RequestsKnown' /\ OwnRequests'
    BY <1>1, <1>4, <2>1, SearchKeeps
  <2> QED BY <1>0, <1>1, <1>2, <2>2 DEF HeaderInv, HostKnown, CacheKnown, OwnSessions
<1> QED BY <1>3, <1>4 DEF Probe

LEMMA AnswerKeeps == ASSUME HeaderInv, NEW r \in Asking, Fallback(r) \/ Inspect(r) \/ AskCached(r) PROVE HeaderInv'
<1>1. CASE Fallback(r)
  <2>1. /\ req[r].at = "fallback" /\ UNCHANGED <<logs, place, paneSession, logCache, probed, cached, crossed>>
        /\ \E dirs : WithCandidates(r, dirs)
    BY <1>1 DEF Fallback, paneHostVars, cacheVars
  <2> QED BY <2>1, WithCandidatesKeeps
<1>2. CASE Inspect(r)
  <2>1. /\ req[r].at = "inspect" /\ UNCHANGED <<logs, place, paneSession, logCache, probed, crossed>>
        /\ \E dirs : Reply(r, dirs)
    BY <1>2 DEF Inspect, paneHostVars, cacheVars
  <2> QED BY <2>1, ReplyKeeps
<1>3. CASE AskCached(r)
  <2>1. UNCHANGED <<logs, place, paneSession, logCache, probed, cached, req, crossed>>
    BY <1>3 DEF AskCached, paneHostVars, cacheVars
  <2> QED BY <2>1 DEF HeaderInv, HostKnown, CacheKnown, RequestsKnown, OwnRequests, OwnSessions
<1> QED BY <1>1, <1>2, <1>3

\* A restart forgets what is kept of the pane.
LEMMA RestartPaneKeeps == ASSUME HeaderInv, RestartPane \/ ProbeExpires PROVE HeaderInv'
<1>0. HostKnown /\ CacheKnown /\ RequestsKnown /\ OwnRequests /\ OwnSessions
  BY DEF HeaderInv
<1>1. CASE RestartPane
  <2>1. /\ cached' = NotCached /\ crossed' = (crossed \/ \E r \in Asking : req[r].at # "idle")
        /\ UNCHANGED <<logs, place, logCache, probed, req>>
    BY <1>1 DEF RestartPane, cacheVars
  <2>2. OwnRequests' /\ OwnSessions'
    BY <2>1 DEF OwnRequests, OwnSessions
  <2> QED BY <1>0, <2>1, <2>2 DEF HeaderInv, HostKnown, CacheKnown, RequestsKnown
<1>2. CASE ProbeExpires
  <2>1. /\ probed' = [probed EXCEPT !.fresh = FALSE]
        /\ UNCHANGED <<logs, place, paneSession, logCache, cached, req, crossed>>
    BY <1>2 DEF ProbeExpires, paneHostVars
  <2>2. probed' \in [place : Places \cup {NoPlace}, fresh : BOOLEAN]
    BY <1>0, <2>1 DEF HostKnown
  <2> QED BY <1>0, <2>1, <2>2 DEF HeaderInv, HostKnown, CacheKnown, RequestsKnown, OwnRequests, OwnSessions
<1> QED BY <1>1, <1>2

LEMMA HeaderStep == HeaderInv /\ [HeaderNext]_headerVars => HeaderInv'
<1> SUFFICES ASSUME HeaderInv, [HeaderNext]_headerVars PROVE HeaderInv'
  OBVIOUS
<1>1. ASSUME NEW r \in Asking, Resolve(r) \/ Ask(r) \/ OpenPane(r) PROVE HeaderInv'
  BY <1>1, BeginsKeeps, SnapKeeps, LocateKeeps, StatKeeps, LoadKeeps, StoreKeeps, ProbeKeeps, AnswerKeeps
     DEF Resolve, Ask, OpenPane
<1>2. CASE UNCHANGED headerVars
  BY <1>2 DEF headerVars, paneHostVars, cacheVars, HeaderInv, HostKnown, CacheKnown, RequestsKnown, OwnRequests,
              OwnSessions
<1> QED BY <1>1, <1>2, OnHostKeeps, RestartPaneKeeps DEF HeaderNext

LEMMA HeaderIsKnown == HeaderInv => LogsAsRead /\ OwnSessions
<1> SUFFICES ASSUME HeaderInv, NEW path \in Paths, LogExists(path), logCache[path].size = Len(logs[path[2]])
             PROVE  logCache[path].dir = Parsed(path[2])
  BY DEF HeaderInv, LogsAsRead
<1>1. ToldBy(logs, place, path, logCache[path].size, logCache[path].dir) /\ logCache[path].size \in Nat
  BY DEF HeaderInv, CacheKnown
<1>2. path[2] \in Logs /\ logs[path[2]] \in Seq(LogLines)
  BY DEF HeaderInv, HostKnown, Paths
<1>3. logs[path[2]] # <<>>
  BY <1>2 DEF LogExists
<1>4. Len(logs[path[2]]) > 0
  BY <1>2, <1>3
<1> QED BY <1>1, <1>4 DEF ToldBy, LogExists, ExistsIn, Parsed, SaidBy

\* What is kept of a log of the size it has is what that log says, though it
\* grew or moved while it was read and another request read it too; and what is
\* kept of a pane was said of its session, unless a request crossed a restart.
THEOREM HeaderKeepsWhatItRead == HeaderSpec => [](LogsAsRead /\ OwnSessions)
BY HeaderInitInv, HeaderStep, HeaderIsKnown, PTL DEF HeaderSpec

\* The parts keep what they promise while they run beside each other: each is
\* a conjunct of its own, as they share no state.
THEOREM PartsHoldCorrect == PreviewSpec /\ SshSpec /\ ProbeSpec /\ HeaderSpec => []PartsHold
<1>1. NoneLost /\ DialIsSound /\ ProbesHold /\ LogsAsRead /\ OwnSessions => PartsHold
  BY DEF PartsHold
<1>2. ASSUME PreviewSpec, SshSpec, ProbeSpec, HeaderSpec PROVE []PartsHold
  <2>1. []NoneLost /\ []DialIsSound /\ []ProbesHold /\ [](LogsAsRead /\ OwnSessions)
    BY <1>2, NoneLostCorrect, DialIsSoundCorrect, ProbesHoldCorrect, HeaderKeepsWhatItRead
  <2> QED BY <1>1, <2>1, PTL
<1> QED BY <1>2

-----------------------------------------------------------------------------
(***************************************************************************)
(* Induction over data.  The library's induction theorems take an operator *)
(* as a parameter; for sets of numbers it follows from their order being   *)
(* well-founded, and with it what a fold over a sequence computes.         *)
(***************************************************************************)
LEMMA LeastNat ==
  ASSUME NEW T \in SUBSET Nat, T # {}
  PROVE  \E n \in T : \A m \in T : n <= m
<1> DEFINE Less == {ss \in Nat \X Nat : ss[1] < ss[2]}
<1>1. IsWellFoundedOn(Less, Nat)
  BY NatLessThanWellFounded DEF OpToRel
<1>2. \E x \in T : \A y \in T : ~(<<y, x>> \in Less)
  <2> HIDE DEF Less
  <2> QED BY <1>1, WFMin
<1>3. \A x, y \in Nat : <<y, x>> \in Less <=> y < x
  OBVIOUS
<1>4. PICK x \in T : \A y \in T : ~(<<y, x>> \in Less)
  BY <1>2
<1>5. \A y \in T : ~(y < x)
  BY <1>3, <1>4
<1>6. \A y \in T : x <= y
  BY <1>5, T \subseteq Nat
<1> QED BY <1>6

\* Induction: a set with 0 that is closed under the successor has every number.
LEMMA Inductive ==
  ASSUME NEW T \in SUBSET Nat, 0 \in T, \A n \in T : n + 1 \in T
  PROVE  T = Nat
<1> SUFFICES ASSUME Nat \ T # {} PROVE FALSE
  OBVIOUS
<1>1. PICK n \in Nat \ T : \A m \in Nat \ T : n <= m
  BY LeastNat, Nat \ T \in SUBSET Nat
<1>2. n # 0 /\ n \in Nat
  BY <1>1
<1>3. n - 1 \in Nat /\ n - 1 < n
  BY <1>2
<1>4. n - 1 \in T
  BY <1>1, <1>3
<1>5. (n - 1) + 1 \in T
  BY <1>4
<1> QED BY <1>1, <1>2, <1>5

LEMMA InductiveTo ==
  ASSUME NEW n \in Nat, NEW T \in SUBSET (0..n), 0 \in T, \A k \in 0..(n - 1) : k \in T => k + 1 \in T
  PROVE  T = 0..n
<1> DEFINE S == {k \in Nat : k <= n => k \in T}
<1>1. S \in SUBSET Nat /\ 0 \in S
  OBVIOUS
<1>2. \A k \in S : k + 1 \in S
  <2> TAKE k \in S
  <2>1. k \in Nat /\ (k <= n => k \in T)
    OBVIOUS
  <2> SUFFICES ASSUME k + 1 <= n PROVE k + 1 \in T
    BY <2>1
  <2>2. k \in 0..(n - 1) /\ k \in T
    BY <2>1
  <2> QED BY <2>2
<1>3. S = Nat
  <2> HIDE DEF S
  <2> QED BY <1>1, <1>2, Inductive
<1>4. \A k \in 0..n : k \in T
  <2> TAKE k \in 0..n
  <2>1. k \in S
    BY <1>3
  <2> QED BY <2>1
<1> QED BY <1>4

LEMMA MaxOf ==
  ASSUME NEW n \in Nat, NEW s \in SUBSET (1..n), NEW m \in s, \A x \in s : x <= m
  PROVE  Max(s) = m
<1>1. m \in s /\ \A y \in s : m >= y
  OBVIOUS
<1>2. \A x \in s : (\A y \in s : x >= y) => x = m
  OBVIOUS
<1> QED BY <1>1, <1>2 DEF Max

LEMMA MaxIn ==
  ASSUME NEW n \in Nat, NEW s \in SUBSET (1..n), s # {}
  PROVE  Max(s) \in s /\ \A x \in s : x <= Max(s)
<1> DEFINE T == {n - x : x \in s}
<1>1. T \in SUBSET Nat /\ T # {}
  <2>1. \A x \in s : n - x \in Nat
    OBVIOUS
  <2>2. PICK x \in s : TRUE
    OBVIOUS
  <2> QED BY <2>1, <2>2
<1>2. PICK t \in T : \A u \in T : t <= u
  <2> HIDE DEF T
  <2> QED BY <1>1, LeastNat
<1>3. PICK m \in s : t = n - m
  BY <1>2
<1>4. \A x \in s : n - m <= n - x
  BY <1>2, <1>3
<1>5. \A x \in s : x <= m
  BY <1>4
<1> QED BY <1>5, MaxOf

IsFold(it, n, base, G) ==
  \A s \in SUBSET (1..n) : it[s] = IF s = {} THEN base ELSE G[Max(s)][it[s \ {Max(s)}]]

\* A fold is defined: what MapThenFoldSet iterates over the sets of indices exists.
LEMMA FoldDefined ==
  ASSUME NEW n \in Nat, NEW V, NEW base \in V, NEW G \in [1..n -> [V -> V]]
  PROVE  \E it \in [SUBSET (1..n) -> V] : IsFold(it, n, base, G)
<1> USE DEF IsFold
<1> DEFINE Folds(m, it) == IsFold(it, m, base, G)
           T == {m \in 0..n : \E it \in [SUBSET (1..m) -> V] : Folds(m, it)}
<1>1. 0 \in T
  <2> DEFINE z == [s \in SUBSET (1..0) |-> base]
  <2>1. [s \in SUBSET (1..0) |-> base] \in [SUBSET (1..0) -> V]
    OBVIOUS
  <2>2. \A s \in SUBSET (1..0) : s = {}
    OBVIOUS
  <2>3. Folds(0, z)
    BY <2>2
  <2> HIDE DEF IsFold, z
  <2>4. z \in [SUBSET (1..0) -> V]
    BY <2>1 DEF z
  <2>5. \E it \in [SUBSET (1..0) -> V] : Folds(0, it)
    BY <2>3, <2>4
  <2>6. 0 \in 0..n
    OBVIOUS
  <2> QED BY <2>5, <2>6
<1>2. ASSUME NEW m \in 0..(n - 1), m \in T PROVE m + 1 \in T
  <2>1. PICK it \in [SUBSET (1..m) -> V] : Folds(m, it)
    BY <1>2
  <2>0. m \in Nat /\ m + 1 \in Nat /\ m + 1 \in 1..n /\ m + 1 \in 0..n
    OBVIOUS
  <2> DEFINE jt == [s \in SUBSET (1..(m + 1)) |-> IF m + 1 \in s THEN G[m + 1][it[s \ {m + 1}]] ELSE it[s]]
  <2>2. \A s \in SUBSET (1..(m + 1)) : s \ {m + 1} \in SUBSET (1..m)
    <3>1. \A x \in 1..(m + 1) : x # m + 1 => x \in 1..m
      BY <2>0
    <3> QED BY <3>1
  <2>3. \A s \in SUBSET (1..(m + 1)) : m + 1 \notin s => s \in SUBSET (1..m)
    <3>1. \A x \in 1..(m + 1) : x # m + 1 => x \in 1..m
      BY <2>0
    <3> QED BY <3>1
  <2>4. jt \in [SUBSET (1..(m + 1)) -> V]
    BY <2>2, <2>3, m + 1 \in 1..n
  <2>5. ASSUME NEW s \in SUBSET (1..(m + 1)) 
        PROVE  jt[s] = IF s = {} THEN base ELSE G[Max(s)][jt[s \ {Max(s)}]]
    <3>1. CASE m + 1 \in s
      <4>1. Max(s) = m + 1
        <5>1. \A x \in s : x <= m + 1
          BY <2>0
        <5> QED BY <3>1, <5>1, <2>0, MaxOf
      <4>2. m + 1 \notin s \ {m + 1} /\ s \ {m + 1} \in SUBSET (1..(m + 1))
        OBVIOUS
      <4>3. jt[s \ {m + 1}] = it[s \ {m + 1}]
        BY <4>2
      <4>4. jt[s] = G[m + 1][it[s \ {m + 1}]]
        BY <3>1
      <4> QED BY <3>1, <4>1, <4>3, <4>4
    <3>2. CASE m + 1 \notin s
      <4>1. s \in SUBSET (1..m) /\ jt[s] = it[s]
        BY <3>2, <2>3
      <4>2. it[s] = IF s = {} THEN base ELSE G[Max(s)][it[s \ {Max(s)}]]
        BY <4>1, <2>1
      <4>3. m + 1 \notin s \ {Max(s)} /\ s \ {Max(s)} \in SUBSET (1..(m + 1))
        BY <3>2
      <4>4. jt[s \ {Max(s)}] = it[s \ {Max(s)}]
        BY <4>3
      <4> QED BY <4>1, <4>2, <4>4
    <3> QED BY <3>1, <3>2
  <2>6. Folds(m + 1, jt)
    BY <2>5
  <2> HIDE DEF jt, IsFold
  <2> QED BY <2>0, <2>4, <2>6
<1>3. T = 0..n
  <2>1. T \in SUBSET (0..n)
    OBVIOUS
  <2> HIDE DEF T
  <2> QED BY <2>1, <1>1, <1>2, InductiveTo
<1> HIDE DEF IsFold
<1>4. n \in T
  <2> HIDE DEF T
  <2> QED BY <1>3
<1> QED BY <1>4

-----------------------------------------------------------------------------
(***************************************************************************)
(* What a terminal is given, part by part: shown, on its way through       *)
(* xterm.js, kept until it is attached, on the wire and in the channel.    *)
(***************************************************************************)
LEMMA ConcatThree ==
  ASSUME NEW s \in Seq(Nat), NEW t \in Seq(Nat), NEW u \in Seq(Nat)
  PROVE  (s \o t) \o u = s \o (t \o u)
BY ConcatAssociative, SMTT(20)

LEMMA PrefixOf == \A i \in Nat : (1..i) \ {i} = 1..(i - 1)
OBVIOUS

IsFlat(g, k, w, n) ==
  /\ g[0] = <<>> /\ Flatten(k, w) = g[n]
  /\ \A i \in 1..n : g[i] = IF w[i].conn = k THEN g[i - 1] \o w[i].chunks ELSE g[i - 1]

\* The prefixes of a fold.
LEMMA FlattenSteps ==
  ASSUME NEW k, NEW w, NEW n \in Nat, DOMAIN w = 1..n, \A i \in 1..n : w[i].chunks \in Seq(Nat)
  PROVE  \E g \in [0..n -> Seq(Nat)] : IsFlat(g, k, w, n)
<1> DEFINE V == Seq(Nat)
           G == [i \in 1..n |-> [v \in V |-> IF w[i].conn = k THEN v \o w[i].chunks ELSE v]]
           body(it) == [s \in SUBSET (1..n) |-> IF s = {} THEN <<>>
                          ELSE IF w[Max(s)].conn = k THEN it[s \ {Max(s)}] \o w[Max(s)].chunks ELSE it[s \ {Max(s)}]]
           c == CHOOSE it : it = body(it)
<1>1. <<>> \in V /\ G \in [1..n -> [V -> V]]
  OBVIOUS
<1>2. PICK it \in [SUBSET (1..n) -> V] :
        \A s \in SUBSET (1..n) : it[s] = IF s = {} THEN <<>> ELSE G[Max(s)][it[s \ {Max(s)}]]
  <2> DEFINE base == <<>>
  <2>1. base \in V
    OBVIOUS
  <2> HIDE DEF V, G, base
  <2>2. \E it \in [SUBSET (1..n) -> V] : IsFold(it, n, base, G)
    BY <1>1, <2>1, FoldDefined
  <2> QED BY <2>2 DEF base, IsFold
<1>3. it = body(it)
  <2>1. ASSUME NEW s \in SUBSET (1..n)
        PROVE  it[s] = body(it)[s]
    <3>1. CASE s = {}
      BY <1>2, <3>1
    <3>2. CASE s # {}
      <4>1. Max(s) \in 1..n /\ s \ {Max(s)} \in SUBSET (1..n)
        BY <3>2, MaxIn
      <4>2. it[s \ {Max(s)}] \in V
        BY <1>2, <4>1
      <4>3. it[s] = G[Max(s)][it[s \ {Max(s)}]]
        BY <1>2, <3>2
      <4> HIDE DEF V
      <4> QED BY <3>2, <4>1, <4>2, <4>3
    <3> QED BY <3>1, <3>2
  <2> QED BY <2>1, <1>2
<1>4. c = body(c)
  <2> HIDE DEF body
  <2> QED BY <1>3
<1>5. Flatten(k, w) = c[1..n]
  BY DEF Flatten, FoldLeft, MapThenFoldSet
<1> HIDE DEF c
<1> DEFINE g == [i \in 0..n |-> c[1..i]]
<1>6. g[0] = <<>>
  <2>1. 1..0 = {} /\ {} \in SUBSET (1..n)
    OBVIOUS
  <2> QED BY <1>4, <2>1
<1>7. ASSUME NEW i \in 1..n PROVE g[i] = IF w[i].conn = k THEN g[i - 1] \o w[i].chunks ELSE g[i - 1]
  <2>1. 1..i \in SUBSET (1..n) /\ 1..i # {}
    <3>1. i \in 1..i /\ \A x \in 1..i : x \in 1..n
      OBVIOUS
    <3> QED BY <3>1
  <2>2. Max(1..i) = i
    BY MaxOf, i \in Nat, i \in 1..i, \A x \in 1..i : x <= i
  <2>3. (1..i) \ {i} = 1..(i - 1)
    BY PrefixOf, i \in Nat
  <2>4. body(c)[1..i] = IF w[i].conn = k THEN c[1..(i - 1)] \o w[i].chunks ELSE c[1..(i - 1)]
    BY <2>1, <2>2, <2>3
  <2>5. g[i] = c[1..i] /\ g[i - 1] = c[1..(i - 1)]
    OBVIOUS
  <2> HIDE DEF g, body
  <2> QED BY <1>4, <2>4, <2>5
<1>8. \A i \in 0..n : g[i] \in V
  <2> DEFINE T == {i \in 0..n : g[i] \in V}
  <2>1. T \in SUBSET (0..n) /\ 0 \in T
    <3> HIDE DEF g
    <3>1. g[0] \in V
      BY <1>6, <1>1
    <3> QED BY <3>1
  <2>2. \A i \in 0..(n - 1) : i \in T => i + 1 \in T
    <3> SUFFICES ASSUME NEW i \in 0..(n - 1), g[i] \in V PROVE g[i + 1] \in V
      <4> HIDE DEF g
      <4> QED OBVIOUS
    <3>1. i + 1 \in 1..n /\ (i + 1) - 1 = i
      OBVIOUS
    <3>2. g[i + 1] = IF w[i + 1].conn = k THEN g[i] \o w[i + 1].chunks ELSE g[i]
      <4> HIDE DEF g
      <4> QED BY <1>7, <3>1
    <3> HIDE DEF g
    <3> QED BY <3>1, <3>2
  <2>3. T = 0..n
    <3> HIDE DEF T
    <3> QED BY <2>1, <2>2, InductiveTo
  <2> QED BY <2>3
<1>9. g \in [0..n -> V] /\ Flatten(k, w) = g[n]
  <2>1. Flatten(k, w) = g[n]
    BY <1>5
  <2> QED BY <1>8, <2>1
<1> HIDE DEF g, body
<1>10. IsFlat(g, k, w, n)
  BY <1>6, <1>7, <1>9 DEF IsFlat
<1> QED BY <1>9, <1>10

Entries(E) == \A e \in E : e.chunks \in Seq(Nat)

LEMMA FlattenOf ==
  ASSUME NEW E, Entries(E), NEW k, NEW w \in Seq(E)
  PROVE  \E g \in [0..Len(w) -> Seq(Nat)] : IsFlat(g, k, w, Len(w))
<1>1. Len(w) \in Nat /\ DOMAIN w = 1..Len(w) /\ \A i \in 1..Len(w) : w[i] \in E
  OBVIOUS
<1>2. \A i \in 1..Len(w) : w[i].chunks \in Seq(Nat)
  BY <1>1 DEF Entries
<1> QED BY <1>1, <1>2, FlattenSteps

LEMMA FlattenType ==
  ASSUME NEW E, Entries(E), NEW k, NEW w \in Seq(E)
  PROVE  Flatten(k, w) \in Seq(Nat)
<1>1. PICK g \in [0..Len(w) -> Seq(Nat)] : IsFlat(g, k, w, Len(w))
  BY FlattenOf
<1>2. Flatten(k, w) = g[Len(w)]
  BY <1>1 DEF IsFlat
<1>3. Len(w) \in 0..Len(w)
  OBVIOUS
<1> QED BY <1>2, <1>3

LEMMA FlattenEmpty == \A k : Flatten(k, <<>>) = <<>>
<1> TAKE k
<1>1. <<>> \in Seq({}) /\ Entries({}) /\ Len(<<>>) = 0
  BY DEF Entries
<1>2. PICK g \in [0..Len(<<>>) -> Seq(Nat)] : IsFlat(g, k, <<>>, Len(<<>>))
  BY <1>1, FlattenOf
<1> QED BY <1>1, <1>2 DEF IsFlat

LEMMA FlattenOne ==
  ASSUME NEW k, NEW e, e.chunks \in Seq(Nat)
  PROVE  Flatten(k, <<e>>) = IF e.conn = k THEN e.chunks ELSE <<>>
<1>1. <<e>> \in Seq({e}) /\ Entries({e}) /\ Len(<<e>>) = 1 /\ <<e>>[1] = e
  BY DEF Entries
<1>2. PICK g \in [0..Len(<<e>>) -> Seq(Nat)] : IsFlat(g, k, <<e>>, Len(<<e>>))
  BY <1>1, FlattenOf
<1>3. g[1] = IF e.conn = k THEN <<>> \o e.chunks ELSE <<>>
  BY <1>1, <1>2, 1 \in 1..1, 1 - 1 = 0 DEF IsFlat
<1>4. <<>> \o e.chunks = e.chunks
  OBVIOUS
<1> QED BY <1>1, <1>2, <1>3, <1>4 DEF IsFlat

\* Nothing of a connection's is in it.
LEMMA FlattenNone ==
  ASSUME NEW E, Entries(E), NEW k, NEW w \in Seq(E), \A i \in 1..Len(w) : w[i].conn # k
  PROVE  Flatten(k, w) = <<>>
<1>1. PICK g \in [0..Len(w) -> Seq(Nat)] : IsFlat(g, k, w, Len(w))
  BY FlattenOf
<1> DEFINE T == {i \in 0..Len(w) : g[i] = <<>>}
<1>2. T \in SUBSET (0..Len(w)) /\ 0 \in T /\ Len(w) \in Nat
  BY <1>1 DEF IsFlat
<1>3. \A i \in 0..(Len(w) - 1) : i \in T => i + 1 \in T
  <2> SUFFICES ASSUME NEW i \in 0..(Len(w) - 1), g[i] = <<>> PROVE g[i + 1] = <<>>
    BY <1>2
  <2>1. i + 1 \in 1..Len(w) /\ (i + 1) - 1 = i
    BY <1>2
  <2> QED BY <1>1, <2>1 DEF IsFlat
<1>4. T = 0..Len(w)
  <2> HIDE DEF T
  <2> QED BY <1>2, <1>3, InductiveTo
<1>5. Len(w) \in T
  <2> HIDE DEF T
  <2> QED BY <1>2, <1>4
<1> QED BY <1>1, <1>5 DEF IsFlat

LEMMA FlattenConcat ==
  ASSUME NEW E, Entries(E), NEW k, NEW a \in Seq(E), NEW b \in Seq(E)
  PROVE  Flatten(k, a \o b) = Flatten(k, a) \o Flatten(k, b)
<1> DEFINE w == a \o b
           m == Len(a)
           n == Len(b)
<1>1. /\ w \in Seq(E) /\ m \in Nat /\ n \in Nat /\ Len(w) = m + n
      /\ \A i \in 1..m : w[i] = a[i]
      /\ \A i \in 1..n : w[m + i] = b[i]
      /\ \A i \in 1..n : b[i] \in E
  OBVIOUS
<1>2. PICK f \in [0..m -> Seq(Nat)] : IsFlat(f, k, a, m)
  BY FlattenOf
<1>3. PICK g \in [0..n -> Seq(Nat)] : IsFlat(g, k, b, n)
  BY FlattenOf
<1>4. PICK h \in [0..(m + n) -> Seq(Nat)] : IsFlat(h, k, w, m + n)
  <2> HIDE DEF w
  <2>1. PICK h \in [0..Len(w) -> Seq(Nat)] : IsFlat(h, k, w, Len(w))
    BY <1>1, FlattenOf
  <2>2. Len(w) = m + n
    BY <1>1
  <2> HIDE DEF m, n
  <2> QED BY <2>1, <2>2
<1> HIDE DEF w, m, n
<1>5. h[m] = f[m]
  <2> DEFINE T == {i \in 0..m : h[i] = f[i]}
  <2>1. T \in SUBSET (0..m) /\ 0 \in T
    BY <1>1, <1>2, <1>4 DEF IsFlat
  <2>2. \A i \in 0..(m - 1) : i \in T => i + 1 \in T
    <3> SUFFICES ASSUME NEW i \in 0..(m - 1), i \in T PROVE i + 1 \in T
      OBVIOUS
    <3>0. h[i] = f[i] /\ i + 1 \in 0..m
      BY <1>1
    <3>1. i + 1 \in 1..m /\ i + 1 \in 1..(m + n) /\ (i + 1) - 1 = i /\ w[i + 1] = a[i + 1]
      BY <1>1 DEF IsFlat
    <3>2. h[i + 1] = f[i + 1]
      BY <1>2, <1>4, <3>0, <3>1 DEF IsFlat
    <3> QED BY <3>0, <3>2
  <2>3. T = 0..m
    <3> HIDE DEF T
    <3> QED BY <1>1, <2>1, <2>2, InductiveTo
  <2>4. m \in T
    <3> HIDE DEF T
    <3> QED BY <1>1, <2>3
  <2> QED BY <2>4
<1>6. h[m + n] = f[m] \o g[n]
  <2> DEFINE T == {i \in 0..n : h[m + i] = f[m] \o g[i]}
  <2>1. T \in SUBSET (0..n) /\ 0 \in T
    <3>1. f[m] \in Seq(Nat) /\ f[m] \o <<>> = f[m] /\ m + 0 = m
      BY <1>1, <1>2
    <3>2. g[0] = <<>>
      BY <1>3 DEF IsFlat
    <3>3. h[m + 0] = f[m] \o g[0]
      BY <1>5, <3>1, <3>2
    <3>4. 0 \in 0..n /\ T \in SUBSET (0..n)
      BY <1>1
    <3> QED BY <3>3, <3>4
  <2>2. \A i \in 0..(n - 1) : i \in T => i + 1 \in T
    <3> SUFFICES ASSUME NEW i \in 0..(n - 1), i \in T PROVE i + 1 \in T
      OBVIOUS
    <3>0. h[m + i] = f[m] \o g[i] /\ i + 1 \in 0..n /\ i \in 0..n
      <4>1. h[m + i] = f[m] \o g[i] /\ n \in Nat
        BY <1>1
      <4> HIDE DEF w, m, n, T
      <4> QED BY ONLY <4>1, i \in 0..(n - 1)
    <3>1. /\ i + 1 \in 1..n /\ m + (i + 1) \in 1..(m + n) /\ (i + 1) - 1 = i /\ (m + (i + 1)) - 1 = m + i
          /\ w[m + (i + 1)] = b[i + 1]
      <4>1. m \in Nat /\ n \in Nat /\ \A j \in 1..n : w[m + j] = b[j]
        BY <1>1
      <4> HIDE DEF w, m, n
      <4>2. i + 1 \in 1..n
        BY ONLY <4>1, i \in 0..(n - 1)
      <4> QED BY ONLY <4>1, <4>2, i \in 0..(n - 1)
    <3>2. h[m + (i + 1)] = IF b[i + 1].conn = k THEN h[m + i] \o b[i + 1].chunks ELSE h[m + i]
      BY <1>4, <3>1 DEF IsFlat
    <3>3. g[i + 1] = IF b[i + 1].conn = k THEN g[i] \o b[i + 1].chunks ELSE g[i]
      BY <1>3, <3>1 DEF IsFlat
    <3>4. b[i + 1].chunks \in Seq(Nat)
      BY <1>1, <3>1 DEF Entries
    <3>5. f[m] \in Seq(Nat) /\ g[i] \in Seq(Nat)
      BY <1>1, <1>2, <1>3, <3>0, m \in 0..m
    <3>6. (f[m] \o g[i]) \o b[i + 1].chunks = f[m] \o (g[i] \o b[i + 1].chunks)
      BY <3>4, <3>5, ConcatThree
    <3>7. h[m + (i + 1)] = f[m] \o g[i + 1]
      BY <3>0, <3>2, <3>3, <3>6
    <3> QED BY <3>0, <3>7
  <2>3. T = 0..n
    <3> HIDE DEF T
    <3> QED BY <1>1, <2>1, <2>2, InductiveTo
  <2>4. n \in T
    <3> HIDE DEF T
    <3> QED BY <1>1, <2>3
  <2> QED BY <2>4
<1> QED BY <1>2, <1>3, <1>4, <1>5, <1>6 DEF w, m, n, IsFlat

-----------------------------------------------------------------------------
(* What a terminal does with the frames it is given.                       *)

ScreenStates == [attached : BOOLEAN, replaying : BOOLEAN, awaiting : BOOLEAN, depth : Int, quiet : BOOLEAN]
TapeWrites  == [chunks : Seq(Nat), replay : BOOLEAN, conn : Conns]
Terminals   == [screen : ScreenStates, tape : Seq(TapeWrites)]

\* Only bytes carry chunks.
SilentFrames(given) == \A i \in 1..Len(given) : given[i].type # "bytes" => given[i].chunks = <<>>

From(w, C) == \A i \in 1..Len(w) : w[i].conn \in C

\* The replayed writes that are not parsed are counted, and suppress input.
ReplayedIn(w) == {i \in 1..Len(w) : w[i].replay}
Counted(t) == t.screen.depth = Cardinality(ReplayedIn(t.tape)) /\ (t.screen.depth > 0 => t.screen.quiet)

LEMMA FrameEntries == Entries(Frames) /\ Entries(TapeWrites)
BY DEF Entries, Frames, TapeWrites

LEMMA TapesConcat ==
  ASSUME NEW k, NEW a \in Seq(TapeWrites), NEW b \in Seq(TapeWrites)
  PROVE  Flatten(k, a \o b) = Flatten(k, a) \o Flatten(k, b)
<1>1. Entries(TapeWrites)
  BY FrameEntries
<1> HIDE DEF TapeWrites
<1> QED BY <1>1, FlattenConcat

LEMMA ReplayedFinite ==
  ASSUME NEW w, Len(w) \in Nat
  PROVE  IsFiniteSet(ReplayedIn(w)) /\ Cardinality(ReplayedIn(w)) \in Nat /\ (ReplayedIn(w) # {} => Cardinality(ReplayedIn(w)) > 0)
<1>1. IsFiniteSet(1..Len(w)) /\ ReplayedIn(w) \subseteq 1..Len(w)
  BY FS_Interval DEF ReplayedIn
<1>2. IsFiniteSet(ReplayedIn(w))
  BY <1>1, FS_Subset
<1> QED BY <1>2, FS_CardinalityType, FS_EmptySet

LEMMA ReplayedAppend ==
  ASSUME NEW w \in Seq(TapeWrites), NEW e \in TapeWrites
  PROVE  Cardinality(ReplayedIn(Append(w, e))) = Cardinality(ReplayedIn(w)) + (IF e.replay THEN 1 ELSE 0)
<1> DEFINE v == Append(w, e)
           n == Len(w)
<1>1. n \in Nat /\ Len(v) = n + 1 /\ v[n + 1] = e /\ \A i \in 1..n : v[i] = w[i]
  OBVIOUS
<1> HIDE DEF v
<1>2. n + 1 \notin ReplayedIn(w)
  BY <1>1 DEF ReplayedIn
<1>3. ReplayedIn(v) = IF e.replay THEN ReplayedIn(w) \cup {n + 1} ELSE ReplayedIn(w)
  BY <1>1 DEF ReplayedIn
<1>4. IsFiniteSet(ReplayedIn(w)) /\ Cardinality(ReplayedIn(w)) \in Nat
  BY <1>1, ReplayedFinite
<1>5. Cardinality(ReplayedIn(w) \cup {n + 1}) = Cardinality(ReplayedIn(w)) + 1
  BY <1>2, <1>4, FS_AddElement
<1> QED BY <1>3, <1>4, <1>5 DEF v

LEMMA ReplayedTail ==
  ASSUME NEW w \in Seq(TapeWrites), w # <<>>
  PROVE  Cardinality(ReplayedIn(w)) = Cardinality(ReplayedIn(Tail(w))) + (IF Head(w).replay THEN 1 ELSE 0)
<1> DEFINE v == Tail(w)
           n == Len(w)
           R == ReplayedIn(w) \ {1}
           f == [i \in ReplayedIn(v) |-> i + 1]
<1>1. n \in Nat \ {0} /\ Len(v) = n - 1 /\ Head(w) = w[1] /\ \A i \in 1..(n - 1) : v[i] = w[i + 1]
  OBVIOUS
<1> HIDE DEF v
<1>2. f \in Bijection(ReplayedIn(v), R)
  <2>1. f \in [ReplayedIn(v) -> R]
    BY <1>1 DEF ReplayedIn
  <2>2. \A i, j \in ReplayedIn(v) : f[i] = f[j] => i = j
    BY <1>1 DEF ReplayedIn
  <2>3. ASSUME NEW j \in R PROVE \E i \in ReplayedIn(v) : f[i] = j
    <3>1. j \in 2..n /\ w[j].replay
      BY <1>1 DEF ReplayedIn
    <3>2. j - 1 \in ReplayedIn(v)
      BY <1>1, <3>1 DEF ReplayedIn
    <3> QED BY <3>1, <3>2
  <2> HIDE DEF f, R
  <2>4. f \in Injection(ReplayedIn(v), R)
    BY <2>1, <2>2 DEF Injection, IsInjective
  <2>5. f \in Surjection(ReplayedIn(v), R)
    BY <2>1, <2>3 DEF Surjection
  <2> QED BY <2>4, <2>5 DEF Bijection
<1>3. IsFiniteSet(ReplayedIn(v)) /\ Cardinality(ReplayedIn(v)) \in Nat
  BY <1>1, ReplayedFinite
<1>4. Cardinality(R) = Cardinality(ReplayedIn(v)) /\ IsFiniteSet(R)
  <2> HIDE DEF f, R
  <2> QED BY <1>2, <1>3, FS_Bijection DEF ExistsBijection
<1>5. ReplayedIn(w) = IF Head(w).replay THEN R \cup {1} ELSE R
  BY <1>1 DEF ReplayedIn
<1>6. Cardinality(R \cup {1}) = Cardinality(R) + 1
  BY <1>4, FS_AddElement
<1> HIDE DEF R
<1> QED BY <1>3, <1>4, <1>5, <1>6 DEF v

LEMMA AppliedStep ==
  ASSUME NEW t \in Terminals, NEW f \in Frames, f.type # "bytes" => f.chunks = <<>>,
         NEW C, From(t.tape, C), f.conn \in C
  PROVE  LET u == Applied(t, f)
         IN /\ u \in Terminals /\ From(u.tape, C)
            /\ \A k : Flatten(k, u.tape) = Flatten(k, t.tape) \o (IF f.conn = k THEN f.chunks ELSE <<>>)
            /\ Counted(t) => Counted(u)
<1> DEFINE u == Applied(t, f)
           e == [chunks |-> f.chunks, replay |-> t.screen.replaying, conn |-> f.conn]
<1>0. t.screen \in ScreenStates /\ t.tape \in Seq(TapeWrites) /\ f.chunks \in Seq(Nat) /\ f.conn \in Conns
  BY DEF Terminals, Frames
<1>1. CASE f.type = "bytes"
  <2>1. e \in TapeWrites
    BY <1>0 DEF ScreenStates, TapeWrites
  <2>2. BytesWritten(t.screen) \in ScreenStates
    <3>1. t.screen.depth + 1 \in Int
      BY <1>0 DEF ScreenStates
    <3>2. [t.screen EXCEPT !.depth = t.screen.depth + 1, !.quiet = TRUE] \in ScreenStates
      BY <1>0, <3>1 DEF ScreenStates
    <3> QED BY <1>0, <3>2 DEF BytesWritten
  <2>3. u = [t EXCEPT !.screen = BytesWritten(@), !.tape = Append(@, e)]
    BY <1>1 DEF Applied
  <2>4. u.screen = BytesWritten(t.screen) /\ u.tape = Append(t.tape, e) /\ u \in Terminals
    <3>1. Append(t.tape, e) \in Seq(TapeWrites)
      BY <2>1, <1>0
    <3> HIDE DEF e, u
    <3> QED BY <2>2, <2>3, <3>1 DEF Terminals
  <2>5. From(u.tape, C)
    BY <2>4, <1>0, <2>1 DEF From
  <2>6. \A k : Flatten(k, u.tape) = Flatten(k, t.tape) \o (IF f.conn = k THEN f.chunks ELSE <<>>)
    <3> TAKE k
    <3>1. Append(t.tape, e) = t.tape \o <<e>> /\ <<e>> \in Seq(TapeWrites)
      BY <1>0, <2>1
    <3>2. Flatten(k, u.tape) = Flatten(k, t.tape) \o Flatten(k, <<e>>)
      <4> HIDE DEF e, u
      <4>1. t.tape \in Seq(TapeWrites) /\ <<e>> \in Seq(TapeWrites) /\ Entries(TapeWrites)
        BY <3>1, <1>0, FrameEntries
      <4>2. Flatten(k, t.tape \o <<e>>) = Flatten(k, t.tape) \o Flatten(k, <<e>>)
        BY <4>1, TapesConcat
      <4> QED BY <2>4, <3>1, <4>2
    <3>3. Flatten(k, <<e>>) = IF e.conn = k THEN e.chunks ELSE <<>>
      BY <1>0, FlattenOne
    <3> QED BY <3>2, <3>3
  <2>7. Counted(t) => Counted(u)
    <3>1. Cardinality(ReplayedIn(u.tape)) = Cardinality(ReplayedIn(t.tape)) + (IF t.screen.replaying THEN 1 ELSE 0)
      BY <2>1, <2>4, <1>0, ReplayedAppend
    <3>2. Cardinality(ReplayedIn(t.tape)) \in Nat
      BY <1>0, ReplayedFinite
    <3> QED BY <3>1, <3>2, <2>4, <1>0 DEF Counted, BytesWritten, ScreenStates
  <2> QED BY <2>4, <2>5, <2>6, <2>7
<1>2. CASE f.type # "bytes"
  <2>1. u.tape = t.tape /\ u.screen \in ScreenStates /\ u \in Terminals
    BY <1>0, <1>2 DEF Applied, Terminals, ScreenStates, Restore, Frames
  <2>2. \A k : Flatten(k, t.tape) = Flatten(k, t.tape) \o (IF f.conn = k THEN f.chunks ELSE <<>>)
    <3> TAKE k
    <3>1. Flatten(k, t.tape) \in Seq(Nat)
      BY <1>0, FlattenType, FrameEntries
    <3>2. Flatten(k, t.tape) \o <<>> = Flatten(k, t.tape)
      BY <3>1
    <3> QED BY <3>2, <1>2
  <2>3. Cardinality(ReplayedIn(t.tape)) \in Nat
    BY <1>0, ReplayedFinite
  <2>4. u.screen.depth = t.screen.depth /\ (t.screen.depth > 0 /\ t.screen.quiet => u.screen.quiet)
    BY <1>0, <1>2 DEF Applied, Terminals, ScreenStates, Restore, Frames
  <2> QED BY <2>1, <2>2, <2>3, <2>4 DEF Counted
<1> QED BY <1>1, <1>2

\* What is put on the tape by the frames up to one.
IsShown(g, t, given) ==
  /\ g[0] = t /\ FoldLeft(Applied, t, given) = g[Len(given)]
  /\ \A i \in 1..Len(given) : g[i] = Applied(g[i - 1], given[i])

LEMMA AppliedType ==
  ASSUME NEW t \in Terminals, NEW f \in Frames
  PROVE  Applied(t, f) \in Terminals
<1> DEFINE e == [chunks |-> f.chunks, replay |-> t.screen.replaying, conn |-> f.conn]
<1>0. t.screen \in ScreenStates /\ t.tape \in Seq(TapeWrites) /\ f.chunks \in Seq(Nat) /\ f.conn \in Conns
  BY DEF Terminals, Frames
<1>1. CASE f.type = "bytes"
  <2>1. Append(t.tape, e) \in Seq(TapeWrites)
    BY <1>0 DEF ScreenStates, TapeWrites
  <2>2. BytesWritten(t.screen) \in ScreenStates
    <3>1. t.screen.depth + 1 \in Int
      BY <1>0 DEF ScreenStates
    <3>2. [t.screen EXCEPT !.depth = t.screen.depth + 1, !.quiet = TRUE] \in ScreenStates
      BY <1>0, <3>1 DEF ScreenStates
    <3> QED BY <1>0, <3>2 DEF BytesWritten
  <2>3. Applied(t, f) = [t EXCEPT !.screen = BytesWritten(@), !.tape = Append(@, e)]
    BY <1>1 DEF Applied
  <2> HIDE DEF e
  <2> QED BY <2>1, <2>2, <2>3 DEF Terminals
<1>2. CASE f.type # "bytes"
  BY <1>0, <1>2 DEF Applied, Terminals, ScreenStates, Restore, Frames
<1> QED BY <1>1, <1>2

LEMMA ShownSteps ==
  ASSUME NEW t \in Terminals, NEW given \in Seq(Frames)
  PROVE  \E g \in [0..Len(given) -> Terminals] : IsShown(g, t, given)
<1> DEFINE n == Len(given)
           G == [i \in 1..n |-> [v \in Terminals |-> Applied(v, given[i])]]
           body(it) == [s \in SUBSET (1..n) |-> IF s = {} THEN t ELSE Applied(it[s \ {Max(s)}], given[Max(s)])]
           c == CHOOSE it : it = body(it)
<1>0. n \in Nat /\ DOMAIN given = 1..n /\ \A i \in 1..n : given[i] \in Frames
  OBVIOUS
<1> HIDE DEF n
<1>1. G \in [1..n -> [Terminals -> Terminals]]
  BY <1>0, AppliedType
<1>2. PICK it \in [SUBSET (1..n) -> Terminals] : IsFold(it, n, t, G)
  <2> HIDE DEF G
  <2> QED BY <1>0, <1>1, FoldDefined
<1>3. it = body(it)
  <2>1. ASSUME NEW s \in SUBSET (1..n)
        PROVE  it[s] = body(it)[s]
    <3>1. CASE s = {}
      BY <1>2, <3>1 DEF IsFold
    <3>2. CASE s # {}
      <4>1. Max(s) \in 1..n /\ s \ {Max(s)} \in SUBSET (1..n)
        BY <3>2, <1>0, MaxIn
      <4>2. it[s \ {Max(s)}] \in Terminals
        BY <1>2, <4>1
      <4>3. it[s] = G[Max(s)][it[s \ {Max(s)}]]
        BY <1>2, <3>2 DEF IsFold
      <4> QED BY <3>2, <4>1, <4>2, <4>3
    <3> QED BY <3>1, <3>2
  <2> QED BY <2>1, <1>2
<1>4. c = body(c)
  <2> HIDE DEF body
  <2> QED BY <1>3
<1>5. FoldLeft(Applied, t, given) = c[1..n]
  BY <1>0 DEF FoldLeft, MapThenFoldSet
<1> HIDE DEF c
<1> DEFINE g == [i \in 0..n |-> c[1..i]]
<1>6. g[0] = t
  <2>1. 1..0 = {} /\ {} \in SUBSET (1..n) /\ 0 \in 0..n
    BY <1>0
  <2> QED BY <1>4, <2>1
<1>7. ASSUME NEW i \in 1..n PROVE g[i] = Applied(g[i - 1], given[i])
  <2>1. 1..i \in SUBSET (1..n) /\ 1..i # {}
    <3>1. i \in 1..i /\ \A x \in 1..i : x \in 1..n
      BY <1>0
    <3> QED BY <3>1
  <2>2. Max(1..i) = i
    BY <1>0, MaxOf, i \in Nat, i \in 1..i, \A x \in 1..i : x <= i
  <2>3. (1..i) \ {i} = 1..(i - 1)
    BY PrefixOf, i \in Nat
  <2>4. body(c)[1..i] = Applied(c[1..(i - 1)], given[i])
    BY <2>1, <2>2, <2>3
  <2>5. g[i] = c[1..i] /\ g[i - 1] = c[1..(i - 1)]
    BY <1>0
  <2> HIDE DEF g, body
  <2> QED BY <1>4, <2>4, <2>5
<1>8. \A i \in 0..n : g[i] \in Terminals
  <2> DEFINE T == {i \in 0..n : g[i] \in Terminals}
  <2>1. T \in SUBSET (0..n) /\ 0 \in T
    <3> HIDE DEF g
    <3> QED BY <1>0, <1>6
  <2>2. \A i \in 0..(n - 1) : i \in T => i + 1 \in T
    <3> SUFFICES ASSUME NEW i \in 0..(n - 1), i \in T PROVE i + 1 \in T
      OBVIOUS
    <3> HIDE DEF g
    <3>1. i + 1 \in 1..n /\ i + 1 \in 0..n /\ (i + 1) - 1 = i
      BY <1>0
    <3>2. g[i + 1] = Applied(g[i], given[i + 1])
      BY <1>7, <3>1
    <3>3. g[i + 1] \in Terminals
      BY <1>0, <3>1, <3>2, AppliedType
    <3> QED BY <3>1, <3>3
  <2>3. T = 0..n
    <3> HIDE DEF T
    <3> QED BY <1>0, <2>1, <2>2, InductiveTo
  <2> QED BY <2>3
<1>9. g \in [0..n -> Terminals] /\ FoldLeft(Applied, t, given) = g[n]
  BY <1>0, <1>5, <1>8
<1> HIDE DEF g, body
<1>10. IsShown(g, t, given)
  BY <1>6, <1>7, <1>9 DEF IsShown, n
<1> QED BY <1>9, <1>10 DEF n

\* Showing frames gives the terminal what they carry, in order.
LEMMA ShowAll ==
  ASSUME NEW t \in Terminals, NEW given \in Seq(Frames), SilentFrames(given),
         NEW C, From(t.tape, C), From(given, C)
  PROVE  LET u == FoldLeft(Applied, t, given)
         IN /\ u \in Terminals /\ From(u.tape, C)
            /\ \A k : Flatten(k, u.tape) = Flatten(k, t.tape) \o Flatten(k, given)
            /\ Counted(t) => Counted(u)
<1> DEFINE n == Len(given)
<1>0. n \in Nat /\ \A i \in 1..n : given[i] \in Frames
  OBVIOUS
<1>1. PICK g \in [0..n -> Terminals] : IsShown(g, t, given)
  BY ShownSteps
<1>2. /\ g[0] = t /\ FoldLeft(Applied, t, given) = g[n]
      /\ \A i \in 1..n : g[i] = Applied(g[i - 1], given[i])
  BY <1>1 DEF IsShown
<1>3. \A i \in 1..n : given[i].type # "bytes" => given[i].chunks = <<>>
  BY DEF SilentFrames
<1>4. \A i \in 1..n : given[i].conn \in C
  BY DEF From
<1>5. ASSUME NEW k
      PROVE  Flatten(k, g[n].tape) = Flatten(k, t.tape) \o Flatten(k, given)
  <2>1. PICK h \in [0..n -> Seq(Nat)] : IsFlat(h, k, given, n)
    BY FrameEntries, FlattenOf
  <2>2. /\ h[0] = <<>> /\ Flatten(k, given) = h[n]
        /\ \A i \in 1..n : h[i] = IF given[i].conn = k THEN h[i - 1] \o given[i].chunks ELSE h[i - 1]
    BY <2>1 DEF IsFlat
  <2> DEFINE T == {i \in 0..n : From(g[i].tape, C) /\ Flatten(k, g[i].tape) = Flatten(k, t.tape) \o h[i]}
  <2> HIDE DEF n
  <2>3. Flatten(k, t.tape) \in Seq(Nat)
    BY FrameEntries, FlattenType DEF Terminals
  <2>4. T \in SUBSET (0..n) /\ 0 \in T
    <3>1. Flatten(k, t.tape) \o <<>> = Flatten(k, t.tape)
      BY <2>3
    <3>2. Flatten(k, g[0].tape) = Flatten(k, t.tape) \o h[0] /\ From(g[0].tape, C)
      BY <1>2, <2>2, <3>1
    <3>3. 0 \in 0..n
      BY <1>0
    <3> QED BY <3>2, <3>3
  <2>5. \A i \in 0..(n - 1) : i \in T => i + 1 \in T
    <3> SUFFICES ASSUME NEW i \in 0..(n - 1), i \in T PROVE i + 1 \in T
      OBVIOUS
    <3>1. i + 1 \in 1..n /\ i + 1 \in 0..n /\ (i + 1) - 1 = i /\ i \in 0..n
      BY <1>0
    <3>2. g[i] \in Terminals /\ From(g[i].tape, C) /\ Flatten(k, g[i].tape) = Flatten(k, t.tape) \o h[i]
      BY <3>1
    <3> DEFINE f == given[i + 1]
    <3>3. f \in Frames /\ f.conn \in C /\ (f.type # "bytes" => f.chunks = <<>>)
      BY <1>0, <1>3, <1>4, <3>1
    <3>4. g[i + 1] = Applied(g[i], f)
      BY <1>2, <3>1
    <3>5. h[i + 1] = IF f.conn = k THEN h[i] \o f.chunks ELSE h[i]
      BY <2>2, <3>1
    <3>6. h[i] \in Seq(Nat) /\ f.chunks \in Seq(Nat)
      BY <2>1, <3>1, <3>3 DEF Frames
    <3> HIDE DEF f
    <3>7. From(g[i + 1].tape, C) /\ Flatten(k, g[i + 1].tape) = Flatten(k, g[i].tape) \o (IF f.conn = k THEN f.chunks ELSE <<>>)
      <4>1. /\ From(Applied(g[i], f).tape, C)
            /\ \A j : Flatten(j, Applied(g[i], f).tape) = Flatten(j, g[i].tape) \o (IF f.conn = j THEN f.chunks ELSE <<>>)
        BY <3>2, <3>3, AppliedStep
      <4> QED BY <3>4, <4>1
    <3>8. (Flatten(k, t.tape) \o h[i]) \o f.chunks = Flatten(k, t.tape) \o (h[i] \o f.chunks)
      BY <2>3, <3>6, ConcatThree
    <3>9. (Flatten(k, t.tape) \o h[i]) \o <<>> = Flatten(k, t.tape) \o h[i]
      BY <2>3, <3>6
    <3>10. Flatten(k, g[i + 1].tape) = Flatten(k, t.tape) \o h[i + 1]
      BY <3>2, <3>5, <3>7, <3>8, <3>9
    <3> QED BY <3>1, <3>7, <3>10
  <2>6. T = 0..n
    <3> HIDE DEF T
    <3> QED BY <1>0, <2>4, <2>5, InductiveTo
  <2>7. n \in T
    <3> HIDE DEF T
    <3> QED BY <1>0, <2>6
  <2> QED BY <2>2, <2>7
<1>6. From(g[n].tape, C) /\ (Counted(t) => Counted(g[n]))
  <2> DEFINE T == {i \in 0..n : From(g[i].tape, C) /\ (Counted(t) => Counted(g[i]))}
  <2> HIDE DEF n
  <2>1. T \in SUBSET (0..n) /\ 0 \in T
    BY <1>0, <1>2
  <2>2. \A i \in 0..(n - 1) : i \in T => i + 1 \in T
    <3> SUFFICES ASSUME NEW i \in 0..(n - 1), i \in T PROVE i + 1 \in T
      OBVIOUS
    <3>1. i + 1 \in 1..n /\ i + 1 \in 0..n /\ (i + 1) - 1 = i /\ i \in 0..n
      BY <1>0
    <3>2. g[i] \in Terminals /\ From(g[i].tape, C) /\ (Counted(t) => Counted(g[i]))
      BY <3>1
    <3> DEFINE f == given[i + 1]
    <3>3. f \in Frames /\ f.conn \in C /\ (f.type # "bytes" => f.chunks = <<>>)
      BY <1>0, <1>3, <1>4, <3>1
    <3>4. g[i + 1] = Applied(g[i], f)
      BY <1>2, <3>1
    <3> HIDE DEF f
    <3>5. From(g[i + 1].tape, C) /\ (Counted(g[i]) => Counted(g[i + 1]))
      BY <3>2, <3>3, <3>4, AppliedStep
    <3> QED BY <3>1, <3>2, <3>5
  <2>3. T = 0..n
    <3> HIDE DEF T
    <3> QED BY <1>0, <2>1, <2>2, InductiveTo
  <2>4. n \in T
    <3> HIDE DEF T
    <3> QED BY <1>0, <2>3
  <2> QED BY <2>4
<1>7. g[n] \in Terminals
  BY <1>0, n \in 0..n
<1> QED BY <1>2, <1>5, <1>6, <1>7

-----------------------------------------------------------------------------
\* Chunks in order, up to the p-th; without a gap; and with the p-th at the end.
Rising(s, p) ==
  s \in Seq(Nat) /\ (\A i \in 1..(Len(s) - 1) : s[i] < s[i + 1]) /\ (s # <<>> => s[Len(s)] <= p)

Gapless(s) == \A i \in 1..(Len(s) - 1) : s[i + 1] = s[i] + 1

EndsAt(s, p) == s # <<>> => s[Len(s)] = p

LEMMA RisingStill ==
  ASSUME NEW s, NEW p \in Nat, Rising(s, p)
  PROVE  Rising(s, p + 1)
<1>1. s \in Seq(Nat) /\ (s # <<>> => s[Len(s)] \in Nat)
  <2>1. s \in Seq(Nat)
    BY DEF Rising
  <2> QED BY <2>1
<1> QED BY <1>1 DEF Rising

LEMMA RisingMore ==
  ASSUME NEW s, NEW p \in Nat, Rising(s, p)
  PROVE  /\ Rising(Append(s, p + 1), p + 1) /\ EndsAt(Append(s, p + 1), p + 1) /\ Append(s, p + 1) # <<>>
         /\ Gapless(s) /\ EndsAt(s, p) => Gapless(Append(s, p + 1))
<1> DEFINE v == Append(s, p + 1)
           n == Len(s)
<1>1. s \in Seq(Nat) /\ n \in Nat /\ (s # <<>> => n > 0 /\ s[n] \in Nat) /\ (s = <<>> => n = 0)
  <2>1. s \in Seq(Nat)
    BY DEF Rising
  <2>2. s # <<>> => Len(s) \in Nat \ {0} /\ s[Len(s)] \in Nat
    BY <2>1
  <2> QED BY <2>1, <2>2
<1>2. v \in Seq(Nat) /\ v # <<>> /\ Len(v) = n + 1 /\ v[n + 1] = p + 1 /\ \A i \in 1..n : v[i] = s[i]
  <2>1. s \in Seq(Nat) /\ p + 1 \in Nat
    BY <1>1
  <2>2. v \in Seq(Nat) /\ Len(v) = n + 1 /\ v[n + 1] = p + 1 /\ \A i \in 1..n : v[i] = s[i]
    BY <2>1
  <2> QED BY <1>1, <2>2
<1> HIDE DEF v
<1>3. ASSUME NEW i \in 1..n PROVE v[i] < v[i + 1] /\ (Gapless(s) /\ EndsAt(s, p) => v[i + 1] = v[i] + 1)
  <2>1. CASE i = n
    BY <1>1, <1>2, <2>1 DEF Rising, EndsAt
  <2>2. CASE i # n
    <3>1. i \in 1..(n - 1) /\ i + 1 \in 1..n
      BY <1>1, <2>2
    <3>2. s[i] < s[i + 1] /\ (Gapless(s) => s[i + 1] = s[i] + 1)
      BY <3>1 DEF Rising, Gapless
    <3> HIDE DEF n
    <3> QED BY <1>2, <3>1, <3>2
  <2> QED BY <2>1, <2>2
<1> HIDE DEF n
<1>4. Rising(v, p + 1) /\ EndsAt(v, p + 1) /\ v # <<>> /\ (Gapless(s) /\ EndsAt(s, p) => Gapless(v))
  <2>1. Len(v) - 1 = n
    BY <1>1, <1>2
  <2>2. v[Len(v)] = p + 1 /\ p + 1 <= p + 1
    BY <1>1, <1>2
  <2>3. Rising(v, p + 1)
    BY <1>2, <1>3, <2>1, <2>2 DEF Rising
  <2>4. EndsAt(v, p + 1)
    BY <2>2 DEF EndsAt
  <2>5. Gapless(s) /\ EndsAt(s, p) => Gapless(v)
    BY <1>3, <2>1 DEF Gapless
  <2> QED BY <1>2, <2>3, <2>4, <2>5
<1> QED BY <1>4 DEF v

\* What the replay buffer holds is in order.
LEMMA WindowRises ==
  ASSUME NEW r \in Seq(Nat), NEW p \in Nat, \A i \in 1..Len(r) : r[i] = p - Len(r) + i
  PROVE  Rising(r, p) /\ Gapless(r) /\ EndsAt(r, p)
<1>1. Len(r) \in Nat /\ (r # <<>> => Len(r) > 0) /\ \A i \in 1..Len(r) : r[i] \in Nat
  OBVIOUS
<1>2. \A i \in 1..(Len(r) - 1) : r[i + 1] = r[i] + 1
  BY <1>1
<1>3. r # <<>> => r[Len(r)] = p
  BY <1>1
<1> QED BY <1>1, <1>2, <1>3 DEF Rising, Gapless, EndsAt

LEMMA NewestWindow ==
  ASSUME NEW r \in Seq(Nat), NEW p \in Nat, \A i \in 1..Len(r) : r[i] = p - Len(r) + i, Len(r) <= Window
  PROVE  LET q == Newest(Append(r, p + 1))
         IN q \in Seq(Nat) /\ Len(q) <= Window /\ \A i \in 1..Len(q) : q[i] = (p + 1) - Len(q) + i
<1> DEFINE v == Append(r, p + 1)
           n == Len(r)
<1>0. Window \in Nat \ {0}
  BY TerminalAssumption
<1>1. n \in Nat /\ v \in Seq(Nat) /\ Len(v) = n + 1 /\ \A i \in 1..(n + 1) : v[i] = p - n + i
  OBVIOUS
<1> HIDE DEF v, n
<1>2. CASE n + 1 > Window
  <2>1. n = Window
    BY <1>0, <1>1, <1>2 DEF n
  <2>2. Newest(v) = SubSeq(v, 2, n + 1)
    BY <1>0, <1>1, <1>2, <2>1 DEF Newest
  <2>3. SubSeq(v, 2, n + 1) \in Seq(Nat) /\ Len(SubSeq(v, 2, n + 1)) = n
    BY <1>1, <2>1, <1>0, \A i \in 2..(n + 1) : v[i] \in Nat
  <2>4. \A i \in 1..n : SubSeq(v, 2, n + 1)[i] = v[i + 1]
    BY <1>1, <2>1, <1>0
  <2> DEFINE q == SubSeq(v, 2, n + 1)
  <2>5. \A i \in 1..n : i + 1 \in 1..(n + 1) /\ v[i + 1] = (p + 1) - n + i
    BY <1>1
  <2>6. q \in Seq(Nat) /\ Len(q) = n /\ \A i \in 1..n : q[i] = (p + 1) - n + i
    BY <2>3, <2>4, <2>5
  <2> HIDE DEF q
  <2>7. q \in Seq(Nat) /\ Len(q) <= Window /\ \A i \in 1..Len(q) : q[i] = (p + 1) - Len(q) + i
    BY <2>1, <2>6, <1>0
  <2> QED BY <2>2, <2>7 DEF v, q
<1>3. CASE n + 1 <= Window
  <2>1. Newest(v) = SubSeq(v, 1, n + 1)
    BY <1>0, <1>1, <1>3 DEF Newest
  <2>2. SubSeq(v, 1, n + 1) = v
    BY <1>1
  <2>3. \A i \in 1..(n + 1) : v[i] = (p + 1) - (n + 1) + i
    BY <1>1
  <2>4. v \in Seq(Nat) /\ Len(v) <= Window /\ \A i \in 1..Len(v) : v[i] = (p + 1) - Len(v) + i
    BY <1>1, <1>3, <2>3
  <2>5. Newest(v) = v
    BY <2>1, <2>2
  <2> QED BY <2>4, <2>5 DEF v
<1> QED BY <1>0, <1>1, <1>2, <1>3

\* How what a terminal is given moves on towards it.
LEMMA PendingShown ==
  ASSUME NEW a \in Seq(Nat), NEW b \in Seq(Nat), NEW c \in Seq(Nat)
  PROVE  (a \o b) \o c = (a \o (b \o c)) \o <<>>
<1>1. (a \o b) \o c = a \o (b \o c)
  BY ConcatThree
<1>2. a \o (b \o c) \in Seq(Nat)
  OBVIOUS
<1>3. \A s \in Seq(Nat) : s \o <<>> = s
  OBVIOUS
<1> QED BY <1>1, <1>2, <1>3

LEMMA HeadOnwards ==
  ASSUME NEW a \in Seq(Nat), NEW d \in Seq(Nat), NEW e \in Seq(Nat), e # <<>>
  PROVE  (a \o d) \o e = (a \o (d \o <<Head(e)>>)) \o Tail(e)
<1>1. e = <<Head(e)>> \o Tail(e) /\ <<Head(e)>> \in Seq(Nat) /\ Tail(e) \in Seq(Nat)
  <2>1. Len(e) \in Nat \ {0} /\ Head(e) \in Nat /\ Tail(e) \in Seq(Nat)
    OBVIOUS
  <2>2. Len(<<Head(e)>> \o Tail(e)) = Len(e) /\ \A i \in 1..Len(e) : (<<Head(e)>> \o Tail(e))[i] = e[i]
    BY <2>1
  <2> QED BY <2>1, <2>2, SeqEqual
<1>2. ASSUME NEW h \in Seq(Nat), NEW r \in Seq(Nat)
      PROVE  (a \o d) \o (h \o r) = (a \o (d \o h)) \o r
  <2>1. ASSUME NEW b \in Seq(Nat)
        PROVE  b \o (h \o r) = (b \o h) \o r
    BY ONLY b \in Seq(Nat), h \in Seq(Nat), r \in Seq(Nat), ConcatThree, ZenonT(20)
  <2>2. a \o d \in Seq(Nat)
    OBVIOUS
  <2>3. (a \o d) \o (h \o r) = ((a \o d) \o h) \o r
    BY ONLY <2>1, <2>2
  <2>4. (a \o d) \o h = a \o (d \o h)
    BY ONLY a \in Seq(Nat), d \in Seq(Nat), h \in Seq(Nat), ConcatThree, ZenonT(20)
  <2> QED BY ONLY <2>3, <2>4
<1>3. (a \o d) \o (<<Head(e)>> \o Tail(e)) = (a \o (d \o <<Head(e)>>)) \o Tail(e)
  BY ONLY <1>1, <1>2
<1> QED BY ONLY <1>1, <1>3

LEMMA AppendLast ==
  ASSUME NEW a \in Seq(Nat), NEW e \in Seq(Nat), NEW x \in Nat
  PROVE  a \o Append(e, x) = Append(a \o e, x)
<1> DEFINE s == a \o Append(e, x)
           t == Append(a \o e, x)
<1>1. a \o e \in Seq(Nat) /\ Append(e, x) \in Seq(Nat) /\ Len(a \o e) = Len(a) + Len(e)
  OBVIOUS
<1>2. s \in Seq(Nat) /\ t \in Seq(Nat) /\ Len(s) = Len(t)
  BY <1>1
<1>3. \A i \in 1..Len(s) : s[i] = t[i]
  OBVIOUS
<1> HIDE DEF s, t
<1>4. s = t
  BY <1>2, <1>3, SeqEqual
<1> QED BY <1>4 DEF s, t

-----------------------------------------------------------------------------
ConnKnown ==
  /\ conn = last \/ (last = 0 /\ conn = 1 /\ socket = "gone")
  /\ \A k \in Conns : k > last => serving[k] = "none"

ServedConns == {k \in Conns : serving[k] # "none"}

\* Before its handler subscribed there is nothing of a connection.
NoneBefore ==
  /\ \A k \in Conns \ ServedConns : wire[k] = <<>> /\ chan[k] = <<>> /\ k \notin subs \cup behind
  /\ conn \notin ServedConns => shown = <<>>
  /\ From(tape, ServedConns) /\ From(pending, ServedConns)

OwnFrames ==
  /\ \A k \in Conns : From(wire[k], {k}) /\ SilentFrames(wire[k])
  /\ SilentFrames(pending)

LastKept == \A i \in 1..Len(retained) : retained[i] = produced - Len(retained) + i

GivenInOrder ==
  socket \in {"connecting", "open"} =>
    /\ Rising(Given(conn), produced)
    /\ conn \notin behind => Gapless(Given(conn))
    /\ conn \in subs \ behind => EndsAt(Given(conn), produced) /\ (retained # <<>> => Given(conn) # <<>>)

\* A terminal that is not on the page and has a socket is a new one; only
\* there frames wait for it.  A restart is offered to a pane that is there.
FreshUntilAttached ==
  /\ socket # "gone" /\ ~screen.attached => screen = FreshScreen /\ tape = <<>>
  /\ screen.attached \/ socket = "gone" => pending = <<>>
  /\ offered => socket # "gone"

ReplaysCounted == socket = "open" /\ ~mixed => Counted([screen |-> screen, tape |-> tape])

TerminalInv ==
  /\ TerminalTypeOK /\ ConnKnown /\ NoneBefore /\ OwnFrames /\ LastKept /\ GivenInOrder
  /\ FreshUntilAttached /\ ReplaysCounted

LEMMA TerminalTypes ==
  ASSUME TerminalTypeOK
  PROVE  /\ produced \in Nat /\ retained \in Seq(Nat) /\ Len(retained) <= Window
         /\ state \in {"connected", "disconnected", "exited"}
         /\ subs \subseteq Conns /\ behind \subseteq Conns
         /\ chan \in [Conns -> Seq(Nat)] /\ wire \in [Conns -> Seq(Frames)]
         /\ serving \in [Conns -> {"none", "streaming", "reported", "returned"}]
         /\ socket \in {"gone", "connecting", "open", "waiting", "exhausted"}
         /\ attempts \in Nat /\ offered \in BOOLEAN
         /\ screen \in ScreenStates /\ pending \in Seq(Frames) /\ tape \in Seq(TapeWrites)
         /\ shown \in Seq(Nat) /\ mixed \in BOOLEAN
BY DEF TerminalTypeOK, ScreenStates, TapeWrites

LEMMA InvTypes ==
  ASSUME TerminalInv
  PROVE  /\ produced \in Nat /\ retained \in Seq(Nat) /\ Len(retained) <= Window
         /\ subs \subseteq Conns /\ behind \subseteq Conns /\ conn \in Conns
         /\ chan \in [Conns -> Seq(Nat)] /\ wire \in [Conns -> Seq(Frames)]
         /\ pending \in Seq(Frames) /\ tape \in Seq(TapeWrites) /\ shown \in Seq(Nat)
<1>1. TerminalTypeOK
  BY DEF TerminalInv
<1> QED BY <1>1 DEF TerminalTypeOK, TapeWrites

LEMMA InvStates ==
  ASSUME TerminalInv
  PROVE  /\ state \in {"connected", "disconnected", "exited"}
         /\ serving \in [Conns -> {"none", "streaming", "reported", "returned"}]
         /\ last \in 0..MaxConns /\ attempts \in Nat /\ offered \in BOOLEAN
         /\ screen \in ScreenStates
<1>1. TerminalTypeOK
  BY DEF TerminalInv
<1> QED BY <1>1 DEF TerminalTypeOK, ScreenStates

LEMMA TypesBack ==
  ASSUME produced \in Nat, retained \in Seq(Nat), Len(retained) <= Window,
         state \in {"connected", "disconnected", "exited"},
         subs \subseteq Conns, behind \subseteq Conns,
         chan \in [Conns -> Seq(Nat)], wire \in [Conns -> Seq(Frames)],
         serving \in [Conns -> {"none", "streaming", "reported", "returned"}],
         socket \in {"gone", "connecting", "open", "waiting", "exhausted"},
         conn \in Conns, last \in 0..MaxConns, attempts \in Nat, offered \in BOOLEAN,
         screen \in ScreenStates, pending \in Seq(Frames), tape \in Seq(TapeWrites),
         shown \in Seq(Nat), mixed \in BOOLEAN
  PROVE  TerminalTypeOK
BY DEF TerminalTypeOK, ScreenStates, TapeWrites

\* What a terminal is given over a connection, part by part.
LEMMA GivenParts ==
  ASSUME TerminalTypeOK, NEW k \in Conns
  PROVE  /\ shown \in Seq(Nat) /\ chan[k] \in Seq(Nat)
         /\ Flatten(k, tape) \in Seq(Nat) /\ Flatten(k, pending) \in Seq(Nat) /\ Flatten(k, wire[k]) \in Seq(Nat)
         /\ Given(k) = (((shown \o Flatten(k, tape)) \o Flatten(k, pending)) \o Flatten(k, wire[k])) \o chan[k]
         /\ ((shown \o Flatten(k, tape)) \o Flatten(k, pending)) \o Flatten(k, wire[k]) \in Seq(Nat)
         /\ Given(k) \in Seq(Nat)
<1>1. shown \in Seq(Nat) /\ chan[k] \in Seq(Nat)
  BY DEF TerminalTypeOK
<1>2. Flatten(k, tape) \in Seq(Nat)
  <2>1. tape \in Seq(TapeWrites) /\ Entries(TapeWrites)
    BY TerminalTypes, FrameEntries
  <2> QED BY <2>1, FlattenType
<1>3. Flatten(k, pending) \in Seq(Nat) /\ Flatten(k, wire[k]) \in Seq(Nat)
  <2>1. pending \in Seq(Frames) /\ wire[k] \in Seq(Frames) /\ Entries(Frames)
    BY TerminalTypes, FrameEntries
  <2> QED BY <2>1, FlattenType
<1>4. ((shown \o Flatten(k, tape)) \o Flatten(k, pending)) \o Flatten(k, wire[k]) \in Seq(Nat)
  BY <1>1, <1>2, <1>3
<1>5. Given(k) = (((shown \o Flatten(k, tape)) \o Flatten(k, pending)) \o Flatten(k, wire[k])) \o chan[k]
  BY DEF Given
<1> QED BY <1>1, <1>2, <1>3, <1>4, <1>5

\* The first of the frames, and one more.
LEMMA FramesConcat ==
  ASSUME NEW k, NEW a \in Seq(Frames), NEW b \in Seq(Frames)
  PROVE  Flatten(k, a \o b) = Flatten(k, a) \o Flatten(k, b)
<1>1. Entries(Frames)
  BY FrameEntries
<1> QED BY <1>1, FlattenConcat

LEMMA FramesAppend ==
  ASSUME NEW k, NEW a \in Seq(Frames), NEW f \in Frames
  PROVE  Flatten(k, Append(a, f)) = Flatten(k, a) \o (IF f.conn = k THEN f.chunks ELSE <<>>)
<1>1. Append(a, f) = a \o <<f>> /\ <<f>> \in Seq(Frames)
  OBVIOUS
<1>3. f.chunks \in Seq(Nat)
  BY DEF Frames
<1>2. Flatten(k, a \o <<f>>) = Flatten(k, a) \o Flatten(k, <<f>>)
  BY <1>1, FramesConcat
<1> QED BY <1>1, <1>2, <1>3, FlattenOne

LEMMA HeadAndTail ==
  ASSUME NEW E, NEW w \in Seq(E), w # <<>>
  PROVE  w = <<Head(w)>> \o Tail(w) /\ Head(w) \in E /\ Tail(w) \in Seq(E) /\ <<Head(w)>> \in Seq(E)
<1>1. Len(w) \in Nat \ {0} /\ Head(w) \in E /\ Tail(w) \in Seq(E) /\ <<Head(w)>> \in Seq(E)
  OBVIOUS
<1>2. Len(<<Head(w)>> \o Tail(w)) = Len(w) /\ \A i \in 1..Len(w) : (<<Head(w)>> \o Tail(w))[i] = w[i]
  BY <1>1
<1>3. <<Head(w)>> \o Tail(w) \in Seq(E)
  BY <1>1
<1> QED BY <1>1, <1>2, <1>3, SeqEqual

LEMMA FramesHead ==
  ASSUME NEW k, NEW w \in Seq(Frames), w # <<>>
  PROVE  Flatten(k, w) = (IF Head(w).conn = k THEN Head(w).chunks ELSE <<>>) \o Flatten(k, Tail(w))
<1>1. w = <<Head(w)>> \o Tail(w) /\ Head(w) \in Frames /\ Tail(w) \in Seq(Frames) /\ <<Head(w)>> \in Seq(Frames)
  BY HeadAndTail
<1>2. Flatten(k, <<Head(w)>> \o Tail(w)) = Flatten(k, <<Head(w)>>) \o Flatten(k, Tail(w))
  BY <1>1, FramesConcat
<1>3. Head(w).chunks \in Seq(Nat)
  BY <1>1 DEF Frames
<1>4. Flatten(k, <<Head(w)>>) = IF Head(w).conn = k THEN Head(w).chunks ELSE <<>>
  BY <1>3, FlattenOne
<1> QED BY <1>1, <1>2, <1>4

LEMMA TapeHead ==
  ASSUME NEW k, NEW w \in Seq(TapeWrites), w # <<>>
  PROVE  Flatten(k, w) = (IF Head(w).conn = k THEN Head(w).chunks ELSE <<>>) \o Flatten(k, Tail(w))
<1>1. w = <<Head(w)>> \o Tail(w) /\ Head(w) \in TapeWrites /\ Tail(w) \in Seq(TapeWrites) /\ <<Head(w)>> \in Seq(TapeWrites)
  BY HeadAndTail
<1>2. Flatten(k, <<Head(w)>> \o Tail(w)) = Flatten(k, <<Head(w)>>) \o Flatten(k, Tail(w))
  BY <1>1, TapesConcat
<1>3. Head(w).chunks \in Seq(Nat)
  BY <1>1 DEF TapeWrites
<1>4. Flatten(k, <<Head(w)>>) = IF Head(w).conn = k THEN Head(w).chunks ELSE <<>>
  BY <1>3, FlattenOne
<1> QED BY <1>1, <1>2, <1>4

\* Of frames that are parts of others, or come after them.
LEMMA FromParts ==
  ASSUME NEW E, NEW C, NEW w \in Seq(E), From(w, C)
  PROVE  /\ w # <<>> => Head(w).conn \in C /\ From(Tail(w), C)
         /\ \A e \in E : e.conn \in C => From(Append(w, e), C)
         /\ \A D : C \subseteq D => From(w, D)
BY DEF From

LEMMA SilentParts ==
  ASSUME NEW w \in Seq(Frames), SilentFrames(w)
  PROVE  /\ w # <<>> => (Head(w).type # "bytes" => Head(w).chunks = <<>>) /\ SilentFrames(Tail(w))
         /\ \A f \in Frames : (f.type # "bytes" => f.chunks = <<>>) => SilentFrames(Append(w, f))
BY DEF SilentFrames

LEMMA NoFrames == \A C : From(<<>>, C) /\ SilentFrames(<<>>)
BY DEF From, SilentFrames

LEMMA TerminalInitInv == TerminalInit => TerminalInv
<1> SUFFICES ASSUME TerminalInit PROVE TerminalInv
  OBVIOUS
<1>1. MaxConns \in Nat \ {0} /\ Window \in Nat \ {0} /\ 1 \in Conns
  BY TerminalAssumption DEF Conns
<1>2. TerminalTypeOK
  <2>1. chan \in [Conns -> Seq(Nat)] /\ wire \in [Conns -> Seq(Frames)]
    BY DEF TerminalInit
  <2>2. serving \in [Conns -> {"none", "streaming", "reported", "returned"}]
    BY DEF TerminalInit
  <2>3. screen \in ScreenStates
    BY DEF TerminalInit, FreshScreen, ScreenStates
  <2>6. retained \in Seq(Nat) /\ Len(retained) <= Window
    <3>1. <<>> \in Seq(Nat) /\ Len(<<>>) <= Window
      BY <1>1
    <3> QED BY <3>1 DEF TerminalInit
  <2>7. subs \subseteq Conns /\ behind \subseteq Conns
    BY DEF TerminalInit
  <2>8. conn \in Conns /\ last \in 0..MaxConns
    BY <1>1 DEF TerminalInit
  <2>4. /\ produced \in Nat
        /\ attempts \in Nat /\ offered \in BOOLEAN /\ mixed \in BOOLEAN
        /\ state \in {"connected", "disconnected", "exited"}
        /\ socket \in {"gone", "connecting", "open", "waiting", "exhausted"}
    BY <1>1 DEF TerminalInit
  <2>5. pending \in Seq(Frames) /\ tape \in Seq(TapeWrites) /\ shown \in Seq(Nat)
    <3>1. <<>> \in Seq(Frames) /\ <<>> \in Seq(TapeWrites) /\ <<>> \in Seq(Nat)
      OBVIOUS
    <3> QED BY <3>1 DEF TerminalInit
  <2> QED BY <2>1, <2>2, <2>3, <2>4, <2>5, <2>6, <2>7, <2>8, TypesBack
<1>3. From(<<>>, ServedConns) /\ SilentFrames(<<>>) /\ \A k \in Conns : From(<<>>, {k})
  BY NoFrames
<1>4. NoneBefore /\ OwnFrames
  BY <1>3 DEF TerminalInit, NoneBefore, OwnFrames, ServedConns
<1>5. ConnKnown /\ LastKept /\ GivenInOrder /\ FreshUntilAttached /\ ReplaysCounted
  BY <1>1 DEF TerminalInit, ConnKnown, LastKept, GivenInOrder, FreshUntilAttached, ReplaysCounted
<1> QED BY <1>2, <1>4, <1>5 DEF TerminalInv

LEMMA PublishKeeps == ASSUME TerminalInv, Publish PROVE TerminalInv'
<1> DEFINE full == {k \in subs : Len(chan[k]) >= ChanRoom}
<1>0. /\ produced \in Nat /\ retained \in Seq(Nat) /\ Len(retained) <= Window
      /\ subs \subseteq Conns /\ behind \subseteq Conns /\ conn \in Conns
      /\ chan \in [Conns -> Seq(Nat)]
  BY InvTypes
<1>1. /\ produced' = produced + 1 /\ retained' = Newest(Append(retained, produced + 1))
      /\ chan' = [k \in Conns |-> IF k \in subs \ full THEN Append(chan[k], produced + 1) ELSE chan[k]]
      /\ behind' = behind \cup full
      /\ UNCHANGED <<state, subs, serving, wire, socket, conn, last, attempts, offered, screen, pending, tape, shown, mixed>>
  BY DEF Publish, socketVars, screenVars
<1>2. retained' \in Seq(Nat) /\ Len(retained') <= Window /\ LastKept'
  <2>1. \A i \in 1..Len(retained) : retained[i] = produced - Len(retained) + i
    BY DEF TerminalInv, LastKept
  <2>2. LET q == Newest(Append(retained, produced + 1))
        IN q \in Seq(Nat) /\ Len(q) <= Window /\ \A i \in 1..Len(q) : q[i] = (produced + 1) - Len(q) + i
    BY <2>1, <1>0, NewestWindow
  <2> QED BY <1>1, <2>2 DEF LastKept
<1>3. TerminalTypeOK'
  <2>1. chan' \in [Conns -> Seq(Nat)] /\ behind' \subseteq Conns /\ produced' \in Nat
    BY <1>0, <1>1
  <2>2. TerminalTypeOK
    BY DEF TerminalInv
  <2> HIDE DEF full
  <2> QED BY <1>1, <1>2, <2>1, <2>2 DEF TerminalTypeOK
<1>4. ConnKnown' /\ OwnFrames' /\ FreshUntilAttached' /\ ReplaysCounted'
  BY <1>1 DEF TerminalInv, ConnKnown, OwnFrames, FreshUntilAttached, ReplaysCounted
<1>5. NoneBefore'
  <2>1. ServedConns' = ServedConns
    BY <1>1 DEF ServedConns
  <2> QED BY <1>1, <2>1 DEF TerminalInv, NoneBefore
<1>6. GivenInOrder'
  <2> SUFFICES ASSUME socket \in {"connecting", "open"}
               PROVE  /\ Rising(Given(conn)', produced + 1)
                      /\ conn \notin behind' => Gapless(Given(conn)')
                      /\ conn \in subs \ behind' =>
                           EndsAt(Given(conn)', produced + 1) /\ (retained' # <<>> => Given(conn)' # <<>>)
    BY <1>1 DEF GivenInOrder
  <2>1. /\ Rising(Given(conn), produced)
        /\ conn \notin behind => Gapless(Given(conn))
        /\ conn \in subs \ behind => EndsAt(Given(conn), produced)
    BY DEF TerminalInv, GivenInOrder
  <2> DEFINE g == ((shown \o Flatten(conn, tape)) \o Flatten(conn, pending)) \o Flatten(conn, wire[conn])
  <2>2. g \in Seq(Nat) /\ chan[conn] \in Seq(Nat) /\ Given(conn) = g \o chan[conn]
    BY <1>0, GivenParts DEF TerminalInv
  <2>3. Given(conn)' = g \o chan'[conn]
    BY <1>1 DEF Given
  <2>4. conn \in behind' <=> conn \in behind \/ conn \in full
    BY <1>1
  <2>5. subs' = subs /\ chan'[conn] = IF conn \in subs \ full THEN Append(chan[conn], produced + 1) ELSE chan[conn]
    BY <1>0, <1>1
  <2> HIDE DEF g, full
  <2>6. CASE conn \in subs \ full
    <3>1. Given(conn)' = Append(Given(conn), produced + 1)
      <4>1. g \o Append(chan[conn], produced + 1) = Append(g \o chan[conn], produced + 1)
        <5>1. g \in Seq(Nat) /\ chan[conn] \in Seq(Nat) /\ produced + 1 \in Nat
          BY <2>2, <1>0
        <5> QED BY ONLY <5>1, AppendLast
      <4> QED BY <2>2, <2>3, <2>5, <2>6, <4>1
    <3>2. /\ Rising(Append(Given(conn), produced + 1), produced + 1)
          /\ EndsAt(Append(Given(conn), produced + 1), produced + 1) /\ Append(Given(conn), produced + 1) # <<>>
          /\ Gapless(Given(conn)) /\ EndsAt(Given(conn), produced) => Gapless(Append(Given(conn), produced + 1))
      BY <2>1, <1>0, RisingMore
    <3> QED BY <2>1, <2>4, <2>6, <3>1, <3>2
  <2>7. CASE conn \notin subs \ full
    <3>1. Given(conn)' = Given(conn)
      BY <2>2, <2>3, <2>5, <2>7
    <3>2. conn \notin subs \ behind'
      BY <2>4, <2>7
    <3>3. Rising(Given(conn), produced + 1)
      BY <2>1, <1>0, RisingStill
    <3> QED BY <2>1, <2>4, <3>1, <3>2, <3>3
  <2> QED BY <2>6, <2>7
<1> QED BY <1>2, <1>3, <1>4, <1>5, <1>6 DEF TerminalInv

\* The order of what is given stays when the same is given and nothing more is
\* asked of it.
LEMMA SameGiven ==
  ASSUME TerminalInv, produced' = produced, retained' = retained, behind' = behind, conn' = conn,
         socket' \in {"connecting", "open"} => socket \in {"connecting", "open"},
         conn \in subs' => conn \in subs,
         socket' \in {"connecting", "open"} => Given(conn)' = Given(conn)
  PROVE  GivenInOrder'
BY DEF TerminalInv, GivenInOrder

LEMMA OutputEndsKeeps == ASSUME TerminalInv, OutputEnds PROVE TerminalInv'
<1>1. /\ subs' = {} /\ state' \in {"disconnected", "exited"}
      /\ UNCHANGED <<produced, retained, chan, behind, serving, wire, socket, conn, last, attempts, offered, screen, pending, tape, shown, mixed>>
  BY DEF OutputEnds, socketVars, screenVars
<1>2. TerminalTypeOK'
  BY <1>1 DEF TerminalInv, TerminalTypeOK
<1>3. ConnKnown' /\ OwnFrames' /\ FreshUntilAttached' /\ ReplaysCounted' /\ LastKept'
  BY <1>1 DEF TerminalInv, ConnKnown, OwnFrames, FreshUntilAttached, ReplaysCounted, LastKept
<1>4. NoneBefore'
  <2>1. ServedConns' = ServedConns
    BY <1>1 DEF ServedConns
  <2> QED BY <1>1, <2>1 DEF TerminalInv, NoneBefore
<1>5. GivenInOrder'
  <2>1. Given(conn)' = Given(conn)
    BY <1>1 DEF Given
  <2> QED BY <1>1, <2>1, SameGiven
<1> QED BY <1>2, <1>3, <1>4, <1>5 DEF TerminalInv

LEMMA SubscribeKeeps == ASSUME TerminalInv, NEW k \in Conns, Subscribe(k) PROVE TerminalInv'
<1> DEFINE first == <<Frame(k, "connected", <<>>)>>
           replay == IF retained = <<>> THEN <<>>
                     ELSE <<Frame(k, "start", <<>>), Frame(k, "bytes", retained), Frame(k, "end", <<>>)>>
<1>0. /\ produced \in Nat /\ retained \in Seq(Nat) /\ Len(retained) <= Window
      /\ subs \subseteq Conns /\ behind \subseteq Conns /\ conn \in Conns
      /\ chan \in [Conns -> Seq(Nat)] /\ wire \in [Conns -> Seq(Frames)]
      /\ serving \in [Conns -> {"none", "streaming", "reported", "returned"}]
      /\ shown \in Seq(Nat)
  BY InvTypes, InvStates
<1>1. /\ serving[k] = "none" /\ socket = "connecting" /\ conn = k
      /\ subs' = IF state = "connected" THEN subs \cup {k} ELSE subs
      /\ wire' = [wire EXCEPT ![k] = first \o replay]
      /\ serving' = [serving EXCEPT ![k] = "streaming"]
      /\ UNCHANGED <<produced, retained, state, chan, behind, socket, conn, last, attempts, offered, screen, pending, tape, shown, mixed>>
  BY DEF Subscribe, socketVars, screenVars, SnapshotAtOnce
<1>2. /\ first \o replay \in Seq(Frames) /\ SilentFrames(first \o replay) /\ From(first \o replay, {k})
      /\ Flatten(k, first \o replay) = retained
  <2>1. /\ Frame(k, "connected", <<>>) \in Frames /\ Frame(k, "start", <<>>) \in Frames
        /\ Frame(k, "bytes", retained) \in Frames /\ Frame(k, "end", <<>>) \in Frames
    BY <1>0 DEF Frame, Frames
  <2>2. CASE retained = <<>>
    <3>1. first \o replay = first /\ first \in Seq(Frames) /\ Len(first) = 1 /\ first[1] = Frame(k, "connected", <<>>)
      BY <2>1, <2>2
    <3>2. Flatten(k, first) = <<>>
      <4> DEFINE a == Frame(k, "connected", <<>>)
      <4>1. a.chunks \in Seq(Nat) /\ a.chunks = <<>>
        BY DEF Frame
      <4> HIDE DEF a
      <4>2. Flatten(k, <<a>>) = <<>>
        BY <4>1, FlattenOne
      <4> QED BY <4>2 DEF a
    <3>3. SilentFrames(first) /\ From(first, {k})
      BY <3>1 DEF SilentFrames, From, Frame
    <3> QED BY <2>2, <3>1, <3>2, <3>3
  <2>3. CASE retained # <<>>
    <3> DEFINE a == Frame(k, "connected", <<>>)
               b == Frame(k, "start", <<>>)
               c == Frame(k, "bytes", retained)
               d == Frame(k, "end", <<>>)
    <3>0. /\ a.conn = k /\ b.conn = k /\ c.conn = k /\ d.conn = k
          /\ a.chunks = <<>> /\ b.chunks = <<>> /\ c.chunks = retained /\ d.chunks = <<>>
          /\ c.type = "bytes"
      BY DEF Frame
    <3> HIDE DEF a, b, c, d
    <3>9. a \in Frames /\ b \in Frames /\ c \in Frames /\ d \in Frames
      BY <2>1 DEF a, b, c, d
    <3>1. first \o replay = Append(Append(Append(<<a>>, b), c), d)
      BY <2>3, <3>9 DEF a, b, c, d
    <3>2. <<a>> \in Seq(Frames) /\ Append(<<a>>, b) \in Seq(Frames) /\ Append(Append(<<a>>, b), c) \in Seq(Frames)
      BY <3>9
    <3>3. Flatten(k, <<a>>) = <<>>
      BY <3>0, <3>9, FlattenOne DEF Frames
    <3> DEFINE w1 == <<a>>
               w2 == Append(w1, b)
               w3 == Append(w2, c)
    <3>10. w1 \in Seq(Frames) /\ w2 \in Seq(Frames) /\ w3 \in Seq(Frames)
      BY <3>2
    <3>4. Flatten(k, Append(<<a>>, b)) = <<>>
      <4>1. Flatten(k, w1) = <<>>
        BY <3>3
      <4> HIDE DEF w1
      <4>2. Flatten(k, Append(w1, b)) = Flatten(k, w1) \o b.chunks
        BY <3>0, <3>10, <3>9, FramesAppend
      <4>3. Flatten(k, Append(w1, b)) = <<>>
        BY <4>1, <4>2, <3>0
      <4> QED BY <4>3 DEF w1
    <3>5. Flatten(k, Append(Append(<<a>>, b), c)) = retained
      <4>1. Flatten(k, w2) = <<>>
        BY <3>4
      <4> HIDE DEF w2
      <4>2. Flatten(k, Append(w2, c)) = Flatten(k, w2) \o c.chunks
        BY <3>0, <3>10, <3>9, FramesAppend
      <4>3. Flatten(k, Append(w2, c)) = retained
        BY <4>1, <4>2, <3>0, <1>0
      <4> QED BY <4>3 DEF w2
    <3>6. Flatten(k, Append(Append(Append(<<a>>, b), c), d)) = retained
      <4>1. Flatten(k, w3) = retained
        BY <3>5
      <4> HIDE DEF w3
      <4>2. Flatten(k, Append(w3, d)) = Flatten(k, w3) \o d.chunks
        BY <3>0, <3>10, <3>9, FramesAppend
      <4>3. Flatten(k, Append(w3, d)) = retained
        BY <4>1, <4>2, <3>0, <1>0
      <4> QED BY <4>3 DEF w3
    <3> DEFINE w == Append(Append(Append(<<a>>, b), c), d)
    <3>7. w \in Seq(Frames) /\ Len(w) = 4 /\ w[1] = a /\ w[2] = b /\ w[3] = c /\ w[4] = d
      BY <3>9
    <3> HIDE DEF w
    <3>8. SilentFrames(w) /\ From(w, {k})
      BY <3>0, <3>7 DEF SilentFrames, From
    <3> QED BY <3>1, <3>6, <3>7, <3>8 DEF w
  <2> QED BY <2>2, <2>3
<1> HIDE DEF first, replay
<1>3. TerminalTypeOK'
  <2>1. wire' \in [Conns -> Seq(Frames)] /\ serving' \in [Conns -> {"none", "streaming", "reported", "returned"}] /\ subs' \subseteq Conns
    BY <1>0, <1>1, <1>2
  <2> QED BY <1>1, <2>1 DEF TerminalInv, TerminalTypeOK
<1>4. ConnKnown' /\ FreshUntilAttached' /\ ReplaysCounted' /\ LastKept'
  <2>1. k <= last
    BY <1>1 DEF TerminalInv, ConnKnown, Conns
  <2> QED BY <1>0, <1>1, <2>1 DEF TerminalInv, ConnKnown, FreshUntilAttached, ReplaysCounted, LastKept, Conns
<1>5. OwnFrames'
  BY <1>0, <1>1, <1>2 DEF TerminalInv, OwnFrames
<1>6. NoneBefore'
  <2>1. ServedConns' = ServedConns \cup {k}
    BY <1>0, <1>1 DEF ServedConns
  <2>2. From(tape, ServedConns') /\ From(pending, ServedConns')
    <3>1. tape \in Seq(TapeWrites) /\ pending \in Seq(Frames) /\ ServedConns \subseteq ServedConns'
      BY <2>1, InvTypes DEF TerminalInv
    <3> QED BY <3>1, FromParts DEF TerminalInv, NoneBefore
  <2> QED BY <1>0, <1>1, <2>1, <2>2 DEF TerminalInv, NoneBefore
<1>7. GivenInOrder'
  <2>1. k \notin ServedConns
    BY <1>1 DEF ServedConns
  <2>2. shown = <<>> /\ chan[k] = <<>> /\ k \notin behind
    BY <1>1, <2>1 DEF TerminalInv, NoneBefore
  <2>3. Flatten(k, tape) = <<>> /\ Flatten(k, pending) = <<>>
    <3>1. tape \in Seq(TapeWrites) /\ pending \in Seq(Frames) /\ From(tape, ServedConns) /\ From(pending, ServedConns)
      BY InvTypes DEF TerminalInv, NoneBefore
    <3>2. (\A i \in 1..Len(tape) : tape[i].conn # k) /\ (\A i \in 1..Len(pending) : pending[i].conn # k)
      BY <3>1, <2>1 DEF From
    <3>3. Flatten(k, tape) = <<>>
      BY <3>1, <3>2, FlattenNone, FrameEntries
    <3> QED BY <3>1, <3>2, <3>3, FlattenNone, FrameEntries
  <2>4. wire'[k] = first \o replay
    BY <1>0, <1>1
  <2>5. Given(conn)' = retained
    <3>1. Given(conn)' = (((<<>> \o <<>>) \o <<>>) \o retained) \o <<>>
      BY <1>1, <1>2, <2>2, <2>3, <2>4 DEF Given
    <3> QED BY <3>1, <1>0
  <2>6. \A i \in 1..Len(retained) : retained[i] = produced - Len(retained) + i
    BY DEF TerminalInv, LastKept
  <2>7. Rising(retained, produced) /\ Gapless(retained) /\ EndsAt(retained, produced)
    BY <1>0, <2>6, WindowRises
  <2> QED BY <1>1, <2>5, <2>7 DEF GivenInOrder
<1> QED BY <1>3, <1>4, <1>5, <1>6, <1>7 DEF TerminalInv

\* A connection that is made is told nothing yet.
NewOne ==
  /\ TerminalInv
  /\ last < MaxConns /\ socket' = "connecting" /\ conn' = last + 1 /\ last' = last + 1 /\ shown' = <<>>
  /\ wire' \in [Conns -> Seq(Frames)] /\ (\A k \in Conns : wire'[k] = wire[k] \/ wire'[k] = <<>>)
  /\ retained' \in {retained, <<>>} /\ subs' \subseteq subs
  /\ UNCHANGED <<produced, chan, behind, serving, pending, tape, mixed>>

LEMMA NewConnectionKeeps ==
  ASSUME NewOne
  PROVE  ConnKnown' /\ NoneBefore' /\ OwnFrames' /\ LastKept' /\ GivenInOrder' /\ ReplaysCounted'
         /\ conn' \in Conns /\ last' \in 0..MaxConns
<1>0. /\ produced \in Nat /\ retained \in Seq(Nat) /\ last \in 0..MaxConns /\ MaxConns \in Nat
      /\ chan \in [Conns -> Seq(Nat)] /\ wire \in [Conns -> Seq(Frames)]
      /\ tape \in Seq(TapeWrites) /\ pending \in Seq(Frames)
  BY InvTypes, InvStates, TerminalAssumption DEF NewOne
<1>1. /\ last < MaxConns /\ socket' = "connecting" /\ conn' = last + 1 /\ last' = last + 1 /\ shown' = <<>>
      /\ (\A k \in Conns : wire'[k] = wire[k] \/ wire'[k] = <<>>)
      /\ retained' \in {retained, <<>>} /\ subs' \subseteq subs
      /\ UNCHANGED <<produced, chan, behind, serving, pending, tape, mixed>>
  BY DEF NewOne
<1>2. conn' \in Conns /\ last' \in 0..MaxConns /\ serving[conn'] = "none"
  <2>1. last + 1 \in Conns /\ last + 1 > last
    BY <1>0, <1>1 DEF Conns
  <2> QED BY <1>0, <1>1, <2>1 DEF NewOne, TerminalInv, ConnKnown
<1>3. ConnKnown'
  <2>1. \A k \in Conns : k > last + 1 => k > last
    BY <1>0 DEF Conns
  <2> QED BY <1>1, <2>1 DEF NewOne, TerminalInv, ConnKnown
<1>4. conn' \notin ServedConns /\ ServedConns' = ServedConns
  BY <1>1, <1>2 DEF ServedConns
<1>5. NoneBefore'
  BY <1>1, <1>2, <1>4 DEF NewOne, TerminalInv, NoneBefore
<1>6. OwnFrames'
  <2>1. \A k \in Conns : From(wire'[k], {k}) /\ SilentFrames(wire'[k])
    BY <1>1, NoFrames DEF NewOne, TerminalInv, OwnFrames
  <2> QED BY <1>1, <2>1 DEF NewOne, TerminalInv, OwnFrames
<1>7. LastKept'
  BY <1>0, <1>1 DEF NewOne, TerminalInv, LastKept
<1>8. GivenInOrder'
  <2>1. wire'[conn'] = <<>> /\ chan[conn'] = <<>> /\ conn' \notin subs'
    BY <1>1, <1>2, <1>4 DEF NewOne, TerminalInv, NoneBefore
  <2>2. Flatten(conn', tape) = <<>> /\ Flatten(conn', pending) = <<>>
    <3>1. From(tape, ServedConns) /\ From(pending, ServedConns)
      BY DEF NewOne, TerminalInv, NoneBefore
    <3>2. (\A i \in 1..Len(tape) : tape[i].conn # conn') /\ (\A i \in 1..Len(pending) : pending[i].conn # conn')
      BY <1>4, <3>1 DEF From
    <3>3. Flatten(conn', tape) = <<>>
      BY <1>0, <3>2, FlattenNone, FrameEntries
    <3> QED BY <1>0, <3>2, <3>3, FlattenNone, FrameEntries
  <2>3. Flatten(conn', wire'[conn']) = <<>>
    BY <2>1, FlattenEmpty
  <2>4. Given(conn)' = <<>>
    <3>1. Given(conn)' = (((<<>> \o <<>>) \o <<>>) \o <<>>) \o <<>>
      BY <1>1, <2>1, <2>2, <2>3 DEF Given
    <3> QED BY <3>1
  <2>5. Rising(<<>>, produced) /\ Gapless(<<>>)
    BY DEF Rising, Gapless
  <2> QED BY <1>1, <2>1, <2>4, <2>5 DEF GivenInOrder
<1>9. ReplaysCounted'
  BY <1>1 DEF ReplaysCounted
<1> QED BY <1>2, <1>3, <1>5, <1>6, <1>7, <1>8, <1>9

LEMMA RetryKeeps == ASSUME TerminalInv, Retry PROVE TerminalInv'
<1>1. /\ socket = "waiting"
      /\ UNCHANGED <<produced, retained, state, subs, chan, behind, serving, wire, attempts, screen, pending, tape, mixed>>
  BY DEF Retry, serverVars
<1>2. CASE NewConnection /\ UNCHANGED offered
  <2>1. NewOne
    <3>1. wire \in [Conns -> Seq(Frames)]
      BY InvTypes
    <3> QED BY <1>1, <1>2, <3>1 DEF NewOne, NewConnection
  <2>2. ConnKnown' /\ NoneBefore' /\ OwnFrames' /\ LastKept' /\ GivenInOrder' /\ ReplaysCounted'
        /\ conn' \in Conns /\ last' \in 0..MaxConns
    BY <2>1, NewConnectionKeeps
  <2>3. TerminalTypeOK'
    BY <1>1, <1>2, <2>2 DEF NewConnection, TerminalInv, TerminalTypeOK
  <2>4. FreshUntilAttached'
    BY <1>1, <1>2 DEF TerminalInv, FreshUntilAttached, NewConnection
  <2> QED BY <2>2, <2>3, <2>4 DEF TerminalInv
<1>3. CASE socket' = "exhausted" /\ offered' = TRUE /\ UNCHANGED <<conn, last, shown>>
  <2>1. TerminalTypeOK'
    BY <1>1, <1>3 DEF TerminalInv, TerminalTypeOK
  <2>2. ServedConns' = ServedConns
    BY <1>1 DEF ServedConns
  <2>3. /\ ConnKnown' /\ NoneBefore' /\ OwnFrames' /\ LastKept' /\ GivenInOrder'
        /\ FreshUntilAttached' /\ ReplaysCounted'
    BY <1>1, <1>3, <2>2
       DEF TerminalInv, ConnKnown, NoneBefore, OwnFrames, LastKept, GivenInOrder, FreshUntilAttached, ReplaysCounted
  <2> QED BY <2>1, <2>3 DEF TerminalInv
<1> QED BY <1>2, <1>3 DEF Retry

LEMMA RestartKeeps == ASSUME TerminalInv, Restart PROVE TerminalInv'
<1>1. /\ offered' = FALSE /\ retained' = <<>> /\ state' = "connected" /\ subs' = {} /\ NewConnection /\ attempts' = 0
      /\ wire' = [wire EXCEPT ![conn] = <<>>]
      /\ UNCHANGED <<produced, chan, behind, serving, screen, pending, tape, mixed>>
  BY DEF Restart
<1>2. wire' \in [Conns -> Seq(Frames)] /\ \A k \in Conns : wire'[k] = wire[k] \/ wire'[k] = <<>>
  <2>1. wire \in [Conns -> Seq(Frames)] /\ conn \in Conns
    BY InvTypes
  <2>2. <<>> \in Seq(Frames)
    OBVIOUS
  <2> QED BY <1>1, <2>1, <2>2
<1>3. NewOne
  BY <1>1, <1>2 DEF NewOne, NewConnection
<1>4. ConnKnown' /\ NoneBefore' /\ OwnFrames' /\ LastKept' /\ GivenInOrder' /\ ReplaysCounted'
      /\ conn' \in Conns /\ last' \in 0..MaxConns
  BY <1>3, NewConnectionKeeps
<1>5. TerminalTypeOK'
  <2>1. <<>> \in Seq(Nat) /\ Len(<<>>) <= Window
    BY TerminalAssumption
  <2> QED BY <1>1, <1>2, <1>4, <2>1 DEF NewConnection, TerminalInv, TerminalTypeOK
<1>6. FreshUntilAttached'
  <2>1. socket # "gone"
    BY DEF Restart, TerminalInv, FreshUntilAttached
  <2> QED BY <1>1, <2>1 DEF NewConnection, TerminalInv, FreshUntilAttached
<1> QED BY <1>4, <1>5, <1>6 DEF TerminalInv

LEMMA MountKeeps == ASSUME TerminalInv, Mount PROVE TerminalInv'
<1>1. /\ socket = "gone" /\ NewConnection /\ attempts' = 0
      /\ screen' \in {[screen EXCEPT !.attached = TRUE]} \cup (IF screen = FreshScreen /\ tape = <<>> THEN {FreshScreen} ELSE {})
      /\ UNCHANGED <<produced, retained, state, subs, chan, behind, serving, wire, offered, pending, tape, mixed>>
  BY DEF Mount, serverVars
<1>2. NewOne
  <2>1. wire \in [Conns -> Seq(Frames)]
    BY InvTypes
  <2> QED BY <1>1, <2>1 DEF NewOne, NewConnection
<1>3. ConnKnown' /\ NoneBefore' /\ OwnFrames' /\ LastKept' /\ GivenInOrder' /\ ReplaysCounted'
      /\ conn' \in Conns /\ last' \in 0..MaxConns
  BY <1>2, NewConnectionKeeps
<1>4. screen \in ScreenStates
  BY InvStates
<1>5. screen' \in ScreenStates /\ (screen'.attached \/ (screen' = FreshScreen /\ tape = <<>>))
  BY <1>1, <1>4 DEF ScreenStates, FreshScreen
<1>6. TerminalTypeOK'
  BY <1>1, <1>3, <1>5 DEF NewConnection, TerminalInv, TerminalTypeOK, ScreenStates
<1>7. FreshUntilAttached'
  BY <1>1, <1>5 DEF NewConnection, TerminalInv, FreshUntilAttached
<1> QED BY <1>3, <1>6, <1>7 DEF TerminalInv

\* What a handler does for its connection.
LEMMA ForwardKeeps == ASSUME TerminalInv, NEW k \in Conns, Forward(k) PROVE TerminalInv'
<1> DEFINE f == Frame(k, "bytes", <<Head(chan[k])>>)
<1>0. /\ chan \in [Conns -> Seq(Nat)] /\ wire \in [Conns -> Seq(Frames)] /\ conn \in Conns
      /\ chan[k] \in Seq(Nat) /\ wire[k] \in Seq(Frames)
  BY InvTypes
<1>1. /\ serving[k] = "streaming" /\ chan[k] # <<>>
      /\ wire' = [wire EXCEPT ![k] = Append(@, f)] /\ chan' = [chan EXCEPT ![k] = Tail(@)]
      /\ UNCHANGED <<produced, retained, state, subs, behind, serving, socket, conn, last, attempts, offered, screen, pending, tape, shown, mixed>>
  BY DEF Forward, socketVars, screenVars
<1>2. f \in Frames /\ f.conn = k /\ f.type = "bytes" /\ f.chunks = <<Head(chan[k])>> /\ Tail(chan[k]) \in Seq(Nat)
  <2>1. Head(chan[k]) \in Nat /\ Tail(chan[k]) \in Seq(Nat)
    BY <1>0, <1>1
  <2> QED BY <2>1 DEF Frame, Frames
<1> HIDE DEF f
<1>3. Append(wire[k], f) \in Seq(Frames)
  BY <1>0, <1>2
<1>4. TerminalTypeOK'
  <2>1. wire' \in [Conns -> Seq(Frames)] /\ chan' \in [Conns -> Seq(Nat)]
    BY <1>0, <1>1, <1>2, <1>3
  <2> QED BY <1>1, <2>1 DEF TerminalInv, TerminalTypeOK
<1>5. ConnKnown' /\ FreshUntilAttached' /\ ReplaysCounted' /\ LastKept'
  BY <1>1 DEF TerminalInv, ConnKnown, FreshUntilAttached, ReplaysCounted, LastKept
<1>6. OwnFrames'
  <2>1. From(wire[k], {k}) /\ SilentFrames(wire[k])
    BY DEF TerminalInv, OwnFrames
  <2>2. From(Append(wire[k], f), {k})
    BY <1>0, <1>2, <2>1, FromParts
  <2>3. SilentFrames(Append(wire[k], f))
    BY <1>0, <1>2, <2>1, SilentParts
  <2> QED BY <1>0, <1>1, <2>2, <2>3 DEF TerminalInv, OwnFrames
<1>7. NoneBefore'
  <2>1. ServedConns' = ServedConns /\ k \in ServedConns
    BY <1>1 DEF ServedConns
  <2> QED BY <1>0, <1>1, <2>1 DEF TerminalInv, NoneBefore
<1>8. GivenInOrder'
  <2>1. Given(conn)' = Given(conn)
    <3>1. CASE k # conn
      <4>1. wire'[conn] = wire[conn] /\ chan'[conn] = chan[conn]
        BY <1>0, <1>1, <3>1
      <4> QED BY <1>1, <4>1 DEF Given
    <3>2. CASE k = conn
      <4> DEFINE a == (shown \o Flatten(k, tape)) \o Flatten(k, pending)
                 d == Flatten(k, wire[k])
                 e == chan[k]
      <4>1. a \in Seq(Nat) /\ d \in Seq(Nat) /\ e \in Seq(Nat) /\ Given(k) = (a \o d) \o e
        <5>1. shown \in Seq(Nat) /\ Flatten(k, tape) \in Seq(Nat) /\ Flatten(k, pending) \in Seq(Nat)
          BY GivenParts DEF TerminalInv
        <5>2. d \in Seq(Nat) /\ e \in Seq(Nat) /\ Given(k) = (a \o d) \o e
          BY GivenParts DEF TerminalInv
        <5> QED BY <5>1, <5>2
      <4>2. wire'[k] = Append(wire[k], f) /\ chan'[k] = Tail(chan[k])
        BY <1>0, <1>1
      <4>3. Flatten(k, Append(wire[k], f)) = d \o <<Head(e)>>
        <5>1. Flatten(k, Append(wire[k], f)) = Flatten(k, wire[k]) \o f.chunks
          BY <1>0, <1>2, FramesAppend
        <5> QED BY <1>2, <5>1
      <4>4. Given(conn)' = (a \o (d \o <<Head(e)>>)) \o Tail(e)
        BY <1>1, <3>2, <4>2, <4>3 DEF Given
      <4>5. e # <<>>
        BY <1>1
      <4> HIDE DEF a, d, e
      <4>6. (a \o d) \o e = (a \o (d \o <<Head(e)>>)) \o Tail(e)
        BY <4>1, <4>5, HeadOnwards
      <4> QED BY <3>2, <4>1, <4>4, <4>6
    <3> QED BY <3>1, <3>2
  <2> QED BY <1>1, <2>1, SameGiven
<1> QED BY <1>4, <1>5, <1>6, <1>7, <1>8 DEF TerminalInv

LEMMA ReportEndKeeps == ASSUME TerminalInv, NEW k \in Conns, ReportEnd(k) PROVE TerminalInv'
<1> DEFINE f == Frame(k, state, <<>>)
<1>0. /\ wire \in [Conns -> Seq(Frames)] /\ conn \in Conns /\ wire[k] \in Seq(Frames)
      /\ serving \in [Conns -> {"none", "streaming", "reported", "returned"}]
      /\ state \in {"connected", "disconnected", "exited"}
  BY InvTypes, InvStates
<1>1. /\ serving[k] = "streaming"
      /\ wire' = [wire EXCEPT ![k] = Append(@, f)] /\ serving' = [serving EXCEPT ![k] = "reported"]
      /\ UNCHANGED <<produced, retained, state, subs, chan, behind, socket, conn, last, attempts, offered, screen, pending, tape, shown, mixed>>
  BY DEF ReportEnd, socketVars, screenVars
<1>2. f \in Frames /\ f.conn = k /\ f.chunks = <<>>
  <2>1. <<>> \in Seq(Nat)
    OBVIOUS
  <2> QED BY <1>0, <2>1 DEF Frame, Frames
<1> HIDE DEF f
<1>3. Append(wire[k], f) \in Seq(Frames)
  BY <1>0, <1>2
<1>4. TerminalTypeOK'
  <2>1. wire' \in [Conns -> Seq(Frames)] /\ serving' \in [Conns -> {"none", "streaming", "reported", "returned"}]
    BY <1>0, <1>1, <1>2, <1>3
  <2> QED BY <1>1, <2>1 DEF TerminalInv, TerminalTypeOK
<1>5. ConnKnown' /\ FreshUntilAttached' /\ ReplaysCounted' /\ LastKept'
  BY <1>0, <1>1 DEF TerminalInv, ConnKnown, FreshUntilAttached, ReplaysCounted, LastKept
<1>6. OwnFrames'
  <2>1. From(wire[k], {k}) /\ SilentFrames(wire[k])
    BY DEF TerminalInv, OwnFrames
  <2>2. From(Append(wire[k], f), {k})
    BY <1>0, <1>2, <2>1, FromParts
  <2>3. SilentFrames(Append(wire[k], f))
    BY <1>0, <1>2, <2>1, SilentParts
  <2> QED BY <1>0, <1>1, <2>2, <2>3 DEF TerminalInv, OwnFrames
<1>7. NoneBefore'
  <2>1. ServedConns' = ServedConns /\ k \in ServedConns
    BY <1>0, <1>1 DEF ServedConns
  <2> QED BY <1>0, <1>1, <2>1 DEF TerminalInv, NoneBefore
<1>8. GivenInOrder'
  <2>1. Flatten(conn, wire'[conn]) = Flatten(conn, wire[conn])
    <3>1. CASE k # conn
      BY <1>0, <1>1, <3>1
    <3>2. CASE k = conn
      <4>1. wire'[k] = Append(wire[k], f)
        BY <1>0, <1>1
      <4>2. Flatten(k, Append(wire[k], f)) = Flatten(k, wire[k]) \o <<>>
        BY <1>0, <1>2, FramesAppend
      <4>3. Flatten(k, wire[k]) \in Seq(Nat)
        BY GivenParts DEF TerminalInv
      <4> QED BY <3>2, <4>1, <4>2, <4>3
    <3> QED BY <3>1, <3>2
  <2>2. Given(conn)' = Given(conn)
    BY <1>1, <2>1 DEF Given
  <2> QED BY <1>1, <2>2, SameGiven
<1> QED BY <1>4, <1>5, <1>6, <1>7, <1>8 DEF TerminalInv

LEMMA HandlerReturnsKeeps == ASSUME TerminalInv, NEW k \in Conns, HandlerReturns(k) PROVE TerminalInv'
<1>0. /\ wire \in [Conns -> Seq(Frames)] /\ conn \in Conns /\ chan \in [Conns -> Seq(Nat)]
      /\ serving \in [Conns -> {"none", "streaming", "reported", "returned"}]
  BY InvTypes, InvStates
<1>1. /\ serving[k] \in {"streaming", "reported"} /\ (k # conn \/ socket \notin {"connecting", "open"})
      /\ serving' = [serving EXCEPT ![k] = "returned"] /\ subs' = subs \ {k} /\ chan' = [chan EXCEPT ![k] = <<>>]
      /\ UNCHANGED <<produced, retained, state, behind, wire, socket, conn, last, attempts, offered, screen, pending, tape, shown, mixed>>
  BY DEF HandlerReturns, socketVars, screenVars
<1>2. TerminalTypeOK'
  <2>1. chan' \in [Conns -> Seq(Nat)] /\ serving' \in [Conns -> {"none", "streaming", "reported", "returned"}]
    <3>1. <<>> \in Seq(Nat)
      OBVIOUS
    <3> QED BY <1>0, <1>1, <3>1
  <2> QED BY <1>1, <2>1 DEF TerminalInv, TerminalTypeOK
<1>3. ConnKnown' /\ OwnFrames' /\ FreshUntilAttached' /\ ReplaysCounted' /\ LastKept'
  BY <1>0, <1>1 DEF TerminalInv, ConnKnown, OwnFrames, FreshUntilAttached, ReplaysCounted, LastKept
<1>4. NoneBefore'
  <2>1. ServedConns' = ServedConns /\ k \in ServedConns
    BY <1>0, <1>1 DEF ServedConns
  <2> QED BY <1>0, <1>1, <2>1 DEF TerminalInv, NoneBefore
<1>5. GivenInOrder'
  <2>1. socket \in {"connecting", "open"} => chan'[conn] = chan[conn]
    BY <1>0, <1>1
  <2>2. socket \in {"connecting", "open"} => Given(conn)' = Given(conn)
    BY <1>1, <2>1 DEF Given
  <2> QED BY <1>1, <2>2, SameGiven
<1> QED BY <1>2, <1>3, <1>4, <1>5 DEF TerminalInv

LEMMA SocketClosesKeeps == ASSUME TerminalInv, NEW k \in Conns, SocketCloses(k) PROVE TerminalInv'
<1>0. wire \in [Conns -> Seq(Frames)] /\ conn \in Conns /\ attempts \in Nat
  BY InvTypes, InvStates
<1>1. /\ socket \in {"connecting", "open"} /\ socket' = "waiting" /\ attempts' = attempts + 1
      /\ wire' = [wire EXCEPT ![k] = <<>>]
      /\ UNCHANGED <<produced, retained, state, subs, chan, behind, serving, conn, last, offered, screen, pending, tape, shown, mixed>>
  BY DEF SocketCloses, serverVars, screenVars
<1>2. TerminalTypeOK'
  <2>1. wire' \in [Conns -> Seq(Frames)]
    <3>1. <<>> \in Seq(Frames)
      OBVIOUS
    <3> QED BY <1>0, <1>1, <3>1
  <2> QED BY <1>0, <1>1, <2>1 DEF TerminalInv, TerminalTypeOK
<1>3. ConnKnown' /\ FreshUntilAttached' /\ ReplaysCounted' /\ LastKept' /\ GivenInOrder'
  BY <1>1 DEF TerminalInv, ConnKnown, FreshUntilAttached, ReplaysCounted, LastKept, GivenInOrder
<1>4. OwnFrames'
  BY <1>0, <1>1, NoFrames DEF TerminalInv, OwnFrames
<1>5. NoneBefore'
  <2>1. ServedConns' = ServedConns
    BY <1>1 DEF ServedConns
  <2> QED BY <1>0, <1>1, <2>1 DEF TerminalInv, NoneBefore
<1> QED BY <1>2, <1>3, <1>4, <1>5 DEF TerminalInv

LEMMA OpenKeeps == ASSUME TerminalInv, NEW k \in Conns, Open(k) PROVE TerminalInv'
<1>0. screen \in ScreenStates /\ tape \in Seq(TapeWrites)
  BY InvTypes, InvStates
<1>1. /\ socket = "connecting" /\ socket' = "open" /\ attempts' = 0
      /\ screen' = IF screen.attached THEN Reset(screen) ELSE screen
      /\ mixed' = (Replayed # {})
      /\ UNCHANGED <<produced, retained, state, subs, chan, behind, serving, wire, conn, last, offered, pending, tape, shown>>
  BY DEF Open, serverVars
<1>2. screen' \in ScreenStates /\ screen'.attached = screen.attached /\ (screen.attached => screen'.depth = 0 /\ screen'.quiet = FALSE)
      /\ (~screen.attached => screen' = screen)
  <2>1. CASE screen.attached
    <3>1. screen' = [attached |-> TRUE, replaying |-> FALSE, awaiting |-> FALSE, depth |-> 0, quiet |-> FALSE]
      BY <1>1, <2>1 DEF Reset, FreshScreen
    <3> QED BY <2>1, <3>1 DEF ScreenStates
  <2>2. CASE ~screen.attached
    BY <1>0, <1>1, <2>2
  <2> QED BY <2>1, <2>2
<1>3. TerminalTypeOK'
  BY <1>1, <1>2 DEF TerminalInv, TerminalTypeOK, ScreenStates
<1>4. ConnKnown' /\ OwnFrames' /\ LastKept'
  BY <1>1 DEF TerminalInv, ConnKnown, OwnFrames, LastKept
<1>5. FreshUntilAttached'
  BY <1>1, <1>2 DEF TerminalInv, FreshUntilAttached
<1>6. NoneBefore'
  <2>1. ServedConns' = ServedConns
    BY <1>1 DEF ServedConns
  <2> QED BY <1>1, <2>1 DEF TerminalInv, NoneBefore
<1>7. GivenInOrder'
  <2>1. Given(conn)' = Given(conn)
    BY <1>1 DEF Given
  <2> QED BY <1>1, <2>1, SameGiven
<1>8. ReplaysCounted'
  <2> SUFFICES ASSUME Replayed = {} PROVE Counted([screen |-> screen', tape |-> tape])
    BY <1>1 DEF ReplaysCounted
  <2>1. Cardinality(ReplayedIn(tape)) = 0
    BY FS_EmptySet DEF Replayed, ReplayedIn
  <2>2. screen'.depth = 0
    BY <1>1, <1>2 DEF TerminalInv, FreshUntilAttached, FreshScreen
  <2> QED BY <2>1, <2>2 DEF Counted
<1> QED BY <1>3, <1>4, <1>5, <1>6, <1>7, <1>8 DEF TerminalInv

\* What showing frames does.
LEMMA ShowsFrames ==
  ASSUME TerminalInv, NEW given \in Seq(Frames), SilentFrames(given), From(given, ServedConns), Show(given)
  PROVE  /\ tape' \in Seq(TapeWrites) /\ From(tape', ServedConns) /\ screen' \in ScreenStates /\ screen'.attached
         /\ offered' \in BOOLEAN
         /\ \A k : Flatten(k, tape') = Flatten(k, tape) \o Flatten(k, given)
         /\ Counted([screen |-> screen, tape |-> tape]) => Counted([screen |-> screen', tape |-> tape'])
<1> DEFINE t == [screen |-> screen, tape |-> tape]
           u == FoldLeft(Applied, t, given)
<1>0. screen \in ScreenStates /\ tape \in Seq(TapeWrites) /\ offered \in BOOLEAN /\ From(tape, ServedConns)
  BY InvTypes, InvStates DEF TerminalInv, NoneBefore
<1>1. t \in Terminals /\ t.tape = tape
  BY <1>0 DEF Terminals
<1>2. /\ tape' = u.tape /\ screen' = [u.screen EXCEPT !.attached = TRUE] /\ offered' = (offered \/ Ended(given))
  BY DEF Show
<1> HIDE DEF u
<1>3. /\ u \in Terminals /\ From(u.tape, ServedConns)
      /\ \A k : Flatten(k, u.tape) = Flatten(k, t.tape) \o Flatten(k, given)
      /\ Counted(t) => Counted(u)
  <2>1. From(t.tape, ServedConns)
    BY <1>0, <1>1
  <2> HIDE DEF t
  <2> QED BY <1>1, <2>1, ShowAll DEF u
<1>4. u.screen \in ScreenStates /\ u.tape \in Seq(TapeWrites)
  BY <1>3 DEF Terminals
<1>5. screen' \in ScreenStates /\ screen'.attached /\ screen'.depth = u.screen.depth /\ screen'.quiet = u.screen.quiet
  BY <1>2, <1>4 DEF ScreenStates
<1>6. Counted(u) => Counted([screen |-> screen', tape |-> tape'])
  BY <1>2, <1>5 DEF Counted
<1>7. \A k : Flatten(k, tape') = Flatten(k, tape) \o Flatten(k, given)
  BY <1>1, <1>2, <1>3
<1>8. Counted([screen |-> screen, tape |-> tape]) => Counted([screen |-> screen', tape |-> tape'])
  BY <1>3, <1>6
<1>9. offered' \in BOOLEAN
  BY <1>0, <1>2 DEF Ended
<1> QED BY <1>2, <1>3, <1>4, <1>5, <1>7, <1>8, <1>9

LEMMA ReceiveKeeps == ASSUME TerminalInv, NEW k \in Conns, Receive(k) PROVE TerminalInv'
<1> DEFINE f == Head(wire[k])
<1>0. /\ wire \in [Conns -> Seq(Frames)] /\ wire[k] \in Seq(Frames)
      /\ pending \in Seq(Frames) /\ tape \in Seq(TapeWrites)
  BY InvTypes
<1>1. /\ socket = "open" /\ conn = k /\ wire[k] # <<>>
      /\ wire' = [wire EXCEPT ![k] = Tail(@)]
      /\ UNCHANGED <<produced, retained, state, subs, chan, behind, serving, socket, conn, last, attempts, shown, mixed>>
  BY DEF Receive, serverVars, socketVars
<1>2. \/ screen.attached /\ Show(<<f>>) /\ pending' = pending
      \/ ~screen.attached /\ pending' = Append(pending, f) /\ UNCHANGED <<screen, tape, offered>>
  BY DEF Receive
<1>3. f \in Frames /\ f.conn = k /\ (f.type # "bytes" => f.chunks = <<>>) /\ Tail(wire[k]) \in Seq(Frames)
      /\ From(Tail(wire[k]), {k}) /\ SilentFrames(Tail(wire[k]))
  <2>1. From(wire[k], {k}) /\ SilentFrames(wire[k])
    BY DEF TerminalInv, OwnFrames
  <2>2. f \in Frames /\ Tail(wire[k]) \in Seq(Frames)
    BY <1>0, <1>1
  <2>3. f.conn \in {k} /\ From(Tail(wire[k]), {k})
    BY <1>0, <1>1, <2>1, FromParts
  <2>4. (f.type # "bytes" => f.chunks = <<>>) /\ SilentFrames(Tail(wire[k]))
    BY <1>0, <1>1, <2>1, SilentParts
  <2> QED BY <2>2, <2>3, <2>4
<1>4. k \in ServedConns /\ ServedConns' = ServedConns
  <2>1. k \in ServedConns
    BY <1>1 DEF TerminalInv, NoneBefore
  <2> QED BY <1>1, <2>1 DEF ServedConns
<1>5. wire' \in [Conns -> Seq(Frames)] /\ wire'[k] = Tail(wire[k])
  BY <1>0, <1>1, <1>3
<1>6. OwnFrames' \/ ~SilentFrames(pending')
  BY <1>0, <1>1, <1>3, <1>5 DEF TerminalInv, OwnFrames
<1>7. Flatten(k, wire[k]) = f.chunks \o Flatten(k, Tail(wire[k])) /\ f.chunks \in Seq(Nat)
  <2>1. f.chunks \in Seq(Nat)
    BY <1>3 DEF Frames
  <2> QED BY <1>0, <1>1, <1>3, <2>1, FramesHead
<1> DEFINE a == shown
           b == Flatten(k, tape)
           c == Flatten(k, pending)
           d == Flatten(k, Tail(wire[k]))
           x == f.chunks
<1>8. /\ a \in Seq(Nat) /\ b \in Seq(Nat) /\ c \in Seq(Nat) /\ d \in Seq(Nat) /\ x \in Seq(Nat)
      /\ Given(k) = (((a \o b) \o c) \o (x \o d)) \o chan[k]
  <2>1. shown \in Seq(Nat) /\ b \in Seq(Nat) /\ c \in Seq(Nat)
    BY GivenParts DEF TerminalInv
  <2>2. Given(k) = (((a \o b) \o c) \o (x \o d)) \o chan[k]
    BY <1>7 DEF Given
  <2>3. d \in Seq(Nat)
    BY <1>3, FlattenType, FrameEntries
  <2> QED BY <1>7, <2>1, <2>2, <2>3
<1>9. CASE screen.attached
  <2>1. Show(<<f>>) /\ pending' = pending /\ pending = <<>>
    BY <1>2, <1>9 DEF TerminalInv, FreshUntilAttached
  <2>2. <<f>> \in Seq(Frames) /\ SilentFrames(<<f>>) /\ From(<<f>>, ServedConns)
    <3>1. <<f>> \in Seq(Frames) /\ Len(<<f>>) = 1 /\ <<f>>[1] = f
      BY <1>3
    <3> HIDE DEF f
    <3> QED BY <1>3, <1>4, <3>1 DEF SilentFrames, From
  <2>3. /\ tape' \in Seq(TapeWrites) /\ From(tape', ServedConns) /\ screen' \in ScreenStates /\ screen'.attached
        /\ offered' \in BOOLEAN
        /\ \A j : Flatten(j, tape') = Flatten(j, tape) \o Flatten(j, <<f>>)
        /\ Counted([screen |-> screen, tape |-> tape]) => Counted([screen |-> screen', tape |-> tape'])
    <3> HIDE DEF f
    <3> QED BY <2>1, <2>2, ShowsFrames
  <2>4. TerminalTypeOK'
    BY <1>1, <1>5, <2>1, <2>3 DEF TerminalInv, TerminalTypeOK, ScreenStates, TapeWrites
  <2>5. ConnKnown' /\ LastKept' /\ FreshUntilAttached' /\ NoneBefore'
    <3>1. ConnKnown' /\ LastKept' /\ FreshUntilAttached'
      BY <1>1, <2>1, <2>3 DEF TerminalInv, ConnKnown, LastKept, FreshUntilAttached
    <3>2. NoneBefore'
      BY <1>0, <1>1, <1>4, <1>5, <2>1, <2>3 DEF TerminalInv, NoneBefore
    <3> QED BY <3>1, <3>2
  <2>6. OwnFrames'
    BY <1>6, <2>1, NoFrames
  <2>7. ReplaysCounted'
    BY <1>1, <2>3 DEF TerminalInv, ReplaysCounted
  <2>8. GivenInOrder'
    <3>1. Flatten(k, <<f>>) = x
      <4> HIDE DEF f
      <4>1. f.conn = k /\ f.chunks \in Seq(Nat)
        BY <1>3, <1>8
      <4> QED BY <4>1, FlattenOne
    <3>2. Flatten(k, tape') = b \o x
      BY <2>3, <3>1
    <3>3. c = <<>>
      BY <2>1, FlattenEmpty
    <3>4. Given(conn)' = (((a \o (b \o x)) \o <<>>) \o d) \o chan[k]
      BY <1>1, <1>5, <2>1, <3>2, <3>3 DEF Given
    <3>5. Given(conn) = (((a \o b) \o <<>>) \o (x \o d)) \o chan[k]
      BY <1>1, <1>8, <3>3
    <3> HIDE DEF a, b, c, d, x, f
    <3>6. ((a \o b) \o <<>>) \o (x \o d) = ((a \o (b \o x)) \o <<>>) \o d
      <4> DEFINE ab == a \o b
                 q  == a \o (b \o x)
      <4>0. b \in Seq(Nat) /\ d \in Seq(Nat) /\ x \in Seq(Nat)
        BY <1>8
      <4>5. ab \in Seq(Nat)
        BY <1>8
      <4>1. ab \in Seq(Nat) /\ q \in Seq(Nat)
        BY <1>8
      <4>2. ab \o <<>> = ab /\ q \o <<>> = q
        <5> HIDE DEF ab, q
        <5> QED BY <4>1
      <4>3. ab \o (x \o d) = (ab \o x) \o d
        <5> HIDE DEF ab, q
        <5> QED BY ONLY <4>0, <4>5, ConcatThree
      <4>4. ab \o x = q
        <5>1. a \in Seq(Nat)
          BY <1>8
        <5> QED BY ONLY <5>1, <4>0, ConcatThree DEF ab, q
      <4> QED BY <4>2, <4>3, <4>4
    <3>7. Given(conn)' = Given(conn)
      BY <3>4, <3>5, <3>6
    <3> QED BY <1>1, <3>7, SameGiven
  <2> QED BY <2>4, <2>5, <2>6, <2>7, <2>8 DEF TerminalInv
<1>10. CASE ~screen.attached
  <2>1. pending' = Append(pending, f) /\ UNCHANGED <<screen, tape, offered>>
    BY <1>2, <1>10
  <2>2. pending' \in Seq(Frames) /\ SilentFrames(pending') /\ From(pending', ServedConns)
    <3>1. SilentFrames(pending) /\ From(pending, ServedConns)
      BY DEF TerminalInv, OwnFrames, NoneBefore
    <3> HIDE DEF f
    <3>2. Append(pending, f) \in Seq(Frames)
      BY <1>0, <1>3
    <3>3. SilentFrames(Append(pending, f))
      BY <1>0, <1>3, <3>1, SilentParts
    <3>4. From(Append(pending, f), ServedConns)
      BY <1>0, <1>3, <1>4, <3>1, FromParts
    <3> QED BY <2>1, <3>2, <3>3, <3>4
  <2>3. TerminalTypeOK'
    BY <1>1, <1>5, <2>1, <2>2 DEF TerminalInv, TerminalTypeOK
  <2>4. ConnKnown' /\ LastKept' /\ FreshUntilAttached' /\ ReplaysCounted'
    BY <1>1, <1>10, <2>1 DEF TerminalInv, ConnKnown, LastKept, FreshUntilAttached, ReplaysCounted
  <2>5. NoneBefore'
    BY <1>0, <1>1, <1>4, <1>5, <2>1, <2>2 DEF TerminalInv, NoneBefore
  <2>6. OwnFrames'
    BY <1>6, <2>2
  <2>7. GivenInOrder'
    <3>1. Flatten(k, pending') = c \o x
      <4>1. Flatten(k, Append(pending, f)) = Flatten(k, pending) \o f.chunks
        <5> HIDE DEF f
        <5> QED BY <1>0, <1>3, FramesAppend
      <4> QED BY <2>1, <4>1
    <3>2. Given(conn)' = (((a \o b) \o (c \o x)) \o d) \o chan[k]
      BY <1>1, <1>5, <2>1, <3>1 DEF Given
    <3> HIDE DEF a, b, c, d, x, f
    <3>3. ((a \o b) \o c) \o (x \o d) = ((a \o b) \o (c \o x)) \o d
      <4> DEFINE ab == a \o b
                 p  == ab \o c
      <4>0. c \in Seq(Nat) /\ d \in Seq(Nat) /\ x \in Seq(Nat)
        BY <1>8
      <4>5. ab \in Seq(Nat)
        BY <1>8
      <4>1. p \in Seq(Nat)
        BY <1>8
      <4>2. p \o (x \o d) = (p \o x) \o d
        <5> HIDE DEF p
        <5> QED BY ONLY <4>0, <4>1, ConcatThree
      <4>3. (ab \o c) \o x = ab \o (c \o x)
        <5> HIDE DEF ab, p
        <5> QED BY ONLY <4>0, <4>5, ConcatThree
      <4> QED BY <4>2, <4>3
    <3>4. Given(conn)' = Given(conn)
      BY <1>1, <1>8, <3>2, <3>3
    <3> QED BY <1>1, <3>4, SameGiven
  <2> QED BY <2>3, <2>4, <2>5, <2>6, <2>7 DEF TerminalInv
<1> QED BY <1>9, <1>10

LEMMA AttachKeeps == ASSUME TerminalInv, Attach PROVE TerminalInv'
<1>0. pending \in Seq(Frames) /\ tape \in Seq(TapeWrites) /\ SilentFrames(pending) /\ From(pending, ServedConns) /\ conn \in Conns
  BY InvTypes DEF TerminalInv, OwnFrames, NoneBefore
<1>1. /\ socket # "gone" /\ ~screen.attached /\ Show(pending) /\ pending' = <<>>
      /\ UNCHANGED <<produced, retained, state, subs, chan, behind, serving, wire, socket, conn, last, attempts, shown, mixed>>
  BY DEF Attach, serverVars, socketVars
<1>2. /\ tape' \in Seq(TapeWrites) /\ From(tape', ServedConns) /\ screen' \in ScreenStates /\ screen'.attached
      /\ offered' \in BOOLEAN
      /\ \A k : Flatten(k, tape') = Flatten(k, tape) \o Flatten(k, pending)
      /\ Counted([screen |-> screen, tape |-> tape]) => Counted([screen |-> screen', tape |-> tape'])
  BY <1>0, <1>1, ShowsFrames
<1>3. TerminalTypeOK'
  <2>1. <<>> \in Seq(Frames)
    OBVIOUS
  <2> QED BY <1>1, <1>2, <2>1 DEF TerminalInv, TerminalTypeOK, ScreenStates, TapeWrites
<1>4. ConnKnown' /\ LastKept' /\ FreshUntilAttached' /\ ReplaysCounted'
  BY <1>1, <1>2 DEF TerminalInv, ConnKnown, LastKept, FreshUntilAttached, ReplaysCounted
<1>5. OwnFrames'
  BY <1>1, NoFrames DEF TerminalInv, OwnFrames
<1>6. NoneBefore'
  <2>1. ServedConns' = ServedConns
    BY <1>1 DEF ServedConns
  <2> QED BY <1>1, <1>2, <2>1, NoFrames DEF TerminalInv, NoneBefore
<1>7. GivenInOrder'
  <2> DEFINE a == shown
             b == Flatten(conn, tape)
             c == Flatten(conn, pending)
  <2>1. a \in Seq(Nat) /\ b \in Seq(Nat) /\ c \in Seq(Nat)
    BY <1>0, GivenParts DEF TerminalInv
  <2>2. Flatten(conn, tape') = b \o c
    BY <1>2
  <2>3. Flatten(conn, <<>>) = <<>>
    BY FlattenEmpty
  <2>4. Given(conn)' = (((a \o (b \o c)) \o <<>>) \o Flatten(conn, wire[conn])) \o chan[conn]
    BY <1>1, <2>2, <2>3 DEF Given
  <2>5. Given(conn) = (((a \o b) \o c) \o Flatten(conn, wire[conn])) \o chan[conn]
    BY DEF Given
  <2> HIDE DEF a, b, c
  <2>6. (a \o b) \o c = (a \o (b \o c)) \o <<>>
    BY ONLY <2>1, PendingShown
  <2>7. Given(conn)' = Given(conn)
    BY <2>4, <2>5, <2>6
  <2> QED BY <1>1, <2>7, SameGiven
<1> QED BY <1>3, <1>4, <1>5, <1>6, <1>7 DEF TerminalInv

LEMMA ParseKeeps == ASSUME TerminalInv, Parse PROVE TerminalInv'
<1> DEFINE w == Head(tape)
<1>0. tape \in Seq(TapeWrites) /\ screen \in ScreenStates /\ shown \in Seq(Nat) /\ conn \in Conns
  BY InvTypes, InvStates
<1>1. /\ tape # <<>> /\ tape' = Tail(tape)
      /\ screen' = IF w.replay THEN Restore([screen EXCEPT !.depth = @ - 1]) ELSE screen
      /\ shown' = IF w.conn = conn THEN shown \o w.chunks ELSE shown
      /\ UNCHANGED <<produced, retained, state, subs, chan, behind, serving, wire, socket, conn, last, attempts, offered, pending, mixed>>
  BY DEF Parse, serverVars, socketVars
<1>2. w \in TapeWrites /\ w.conn \in ServedConns /\ tape' \in Seq(TapeWrites) /\ From(tape', ServedConns)
      /\ w.chunks \in Seq(Nat) /\ w.replay \in BOOLEAN
  <2>1. From(tape, ServedConns)
    BY DEF TerminalInv, NoneBefore
  <2>2. w \in TapeWrites /\ Tail(tape) \in Seq(TapeWrites)
    BY <1>0, <1>1
  <2>3. w.conn \in ServedConns /\ From(Tail(tape), ServedConns)
    BY <1>0, <1>1, <2>1, FromParts
  <2> QED BY <1>1, <2>2, <2>3 DEF TapeWrites
<1> HIDE DEF w
<1>3. /\ screen' \in ScreenStates /\ screen'.attached = screen.attached
      /\ screen'.depth = IF w.replay THEN screen.depth - 1 ELSE screen.depth
      /\ screen.quiet => screen'.quiet \/ screen'.depth <= 0
  <2>1. [screen EXCEPT !.depth = screen.depth - 1] \in ScreenStates
    BY <1>0 DEF ScreenStates
  <2> DEFINE e == [screen EXCEPT !.depth = screen.depth - 1]
  <2>2. e \in ScreenStates /\ e.attached = screen.attached /\ e.depth = screen.depth - 1 /\ e.quiet = screen.quiet
    BY <1>0, <2>1 DEF ScreenStates
  <2>3. screen' = IF w.replay THEN Restore(e) ELSE screen
    BY <1>1
  <2> HIDE DEF e
  <2>4. /\ Restore(e) \in ScreenStates /\ Restore(e).attached = e.attached /\ Restore(e).depth = e.depth
        /\ e.quiet => Restore(e).quiet \/ e.depth <= 0
    <3>1. CASE e.awaiting \/ e.depth > 0
      BY <2>2, <3>1 DEF Restore
    <3>2. CASE ~(e.awaiting \/ e.depth > 0)
      <4>1. Restore(e) = [e EXCEPT !.quiet = FALSE]
        BY <3>2 DEF Restore
      <4>2. e.depth <= 0
        BY <2>2, <3>2 DEF ScreenStates
      <4> QED BY <2>2, <4>1, <4>2 DEF ScreenStates
    <3> QED BY <3>1, <3>2
  <2> QED BY <1>0, <2>2, <2>3, <2>4
<1>4. TerminalTypeOK'
  <2>1. shown' \in Seq(Nat)
    BY <1>0, <1>1, <1>2
  <2> QED BY <1>1, <1>2, <1>3, <2>1 DEF TerminalInv, TerminalTypeOK, ScreenStates, TapeWrites
<1>5. ConnKnown' /\ LastKept' /\ OwnFrames'
  BY <1>1 DEF TerminalInv, ConnKnown, LastKept, OwnFrames
<1>6. FreshUntilAttached'
  BY <1>1, <1>3 DEF TerminalInv, FreshUntilAttached
<1>7. NoneBefore'
  <2>1. ServedConns' = ServedConns
    BY <1>1 DEF ServedConns
  <2> QED BY <1>1, <1>2, <2>1 DEF TerminalInv, NoneBefore
<1>8. ReplaysCounted'
  <2> SUFFICES ASSUME Counted([screen |-> screen, tape |-> tape]) PROVE Counted([screen |-> screen', tape |-> tape'])
    BY <1>1 DEF TerminalInv, ReplaysCounted
  <2>1. Cardinality(ReplayedIn(tape)) = Cardinality(ReplayedIn(tape')) + (IF w.replay THEN 1 ELSE 0)
    BY <1>0, <1>1, ReplayedTail DEF w
  <2>2. Cardinality(ReplayedIn(tape')) \in Nat
    BY <1>2, ReplayedFinite
  <2>3. screen.depth = Cardinality(ReplayedIn(tape)) /\ (screen.depth > 0 => screen.quiet)
    BY DEF Counted
  <2>4. screen'.depth = Cardinality(ReplayedIn(tape')) /\ (screen'.depth > 0 => screen'.quiet)
    BY <1>0, <1>2, <1>3, <2>1, <2>2, <2>3 DEF ScreenStates
  <2> QED BY <2>4 DEF Counted
<1>9. GivenInOrder'
  <2> DEFINE x == IF w.conn = conn THEN w.chunks ELSE <<>>
             b == Flatten(conn, tape')
             p == Flatten(conn, pending)
  <2>1. x \in Seq(Nat) /\ Flatten(conn, tape) = x \o b
    <3>1. x \in Seq(Nat)
      BY <1>2
    <3> QED BY <1>0, <1>1, <3>1, TapeHead DEF w
  <2>2. b \in Seq(Nat)
    BY <1>2, FlattenType, FrameEntries
  <2>3. shown' = shown \o x
    BY <1>0, <1>1
  <2> HIDE DEF x
  <2>4. Given(conn)' = ((((shown \o x) \o b) \o p) \o Flatten(conn, wire[conn])) \o chan[conn]
    BY <1>1, <2>3 DEF Given
  <2>5. Given(conn) = (((shown \o (x \o b)) \o p) \o Flatten(conn, wire[conn])) \o chan[conn]
    BY <2>1 DEF Given
  <2> HIDE DEF b
  <2>6. (shown \o x) \o b = shown \o (x \o b)
    BY <1>0, <2>1, <2>2, ConcatThree
  <2>7. Given(conn)' = Given(conn)
    BY <2>4, <2>5, <2>6
  <2> QED BY <1>1, <2>7, SameGiven
<1> QED BY <1>4, <1>5, <1>6, <1>7, <1>8, <1>9 DEF TerminalInv

LEMMA UnmountKeeps == ASSUME TerminalInv, Unmount PROVE TerminalInv'
<1>0. wire \in [Conns -> Seq(Frames)] /\ conn \in Conns /\ screen \in ScreenStates
  BY InvTypes, InvStates
<1>1. /\ socket # "gone" /\ screen.attached /\ socket' = "gone" /\ wire' = [wire EXCEPT ![conn] = <<>>]
      /\ screen' = [screen EXCEPT !.attached = FALSE] /\ offered' = FALSE
      /\ UNCHANGED <<produced, retained, state, subs, chan, behind, serving, conn, last, attempts, pending, tape, shown, mixed>>
  BY DEF Unmount, serverVars
<1>2. TerminalTypeOK'
  <2>1. wire' \in [Conns -> Seq(Frames)]
    <3>1. <<>> \in Seq(Frames)
      OBVIOUS
    <3> QED BY <1>0, <1>1, <3>1
  <2>2. screen' \in ScreenStates
    BY <1>0, <1>1 DEF ScreenStates
  <2> QED BY <1>1, <2>1, <2>2 DEF TerminalInv, TerminalTypeOK, ScreenStates
<1>3. ConnKnown' /\ FreshUntilAttached' /\ ReplaysCounted' /\ LastKept' /\ GivenInOrder'
  BY <1>1 DEF TerminalInv, ConnKnown, FreshUntilAttached, ReplaysCounted, LastKept, GivenInOrder
<1>4. OwnFrames'
  BY <1>0, <1>1, NoFrames DEF TerminalInv, OwnFrames
<1>5. NoneBefore'
  <2>1. ServedConns' = ServedConns
    BY <1>1 DEF ServedConns
  <2> QED BY <1>0, <1>1, <2>1 DEF TerminalInv, NoneBefore
<1> QED BY <1>2, <1>3, <1>4, <1>5 DEF TerminalInv

LEMMA DisposeKeeps == ASSUME TerminalInv, Dispose PROVE TerminalInv'
<1>1. /\ socket = "gone" /\ screen' = FreshScreen /\ tape' = <<>>
      /\ UNCHANGED <<produced, retained, state, subs, chan, behind, serving, wire, socket, conn, last, attempts, offered, pending, shown, mixed>>
  BY DEF Dispose, serverVars, socketVars
<1>2. TerminalTypeOK'
  <2>1. tape' \in Seq(TapeWrites) /\ screen' \in ScreenStates
    <3>1. FreshScreen \in ScreenStates
      BY DEF FreshScreen, ScreenStates
    <3> QED BY <1>1, <3>1
  <2> QED BY <1>1, <2>1 DEF TerminalInv, TerminalTypeOK, ScreenStates, TapeWrites
<1>3. ConnKnown' /\ FreshUntilAttached' /\ ReplaysCounted' /\ LastKept' /\ GivenInOrder' /\ OwnFrames'
  BY <1>1 DEF TerminalInv, ConnKnown, FreshUntilAttached, ReplaysCounted, LastKept, GivenInOrder, OwnFrames
<1>4. NoneBefore'
  <2>1. ServedConns' = ServedConns
    BY <1>1 DEF ServedConns
  <2> QED BY <1>1, <2>1, NoFrames DEF TerminalInv, NoneBefore
<1> QED BY <1>2, <1>3, <1>4 DEF TerminalInv

LEMMA TerminalStep == TerminalInv /\ [TerminalNext]_terminalVars => TerminalInv'
<1> SUFFICES ASSUME TerminalInv, [TerminalNext]_terminalVars PROVE TerminalInv'
  OBVIOUS
<1>1. CASE Publish \/ OutputEnds \/ Retry \/ Restart \/ Parse \/ Unmount \/ Dispose \/ Mount \/ Attach
  BY <1>1, PublishKeeps, OutputEndsKeeps, RetryKeeps, RestartKeeps, ParseKeeps, UnmountKeeps, DisposeKeeps, MountKeeps, AttachKeeps
<1>2. CASE \E k \in Conns : Connection(k)
  BY <1>2, SubscribeKeeps, ForwardKeeps, ReportEndKeeps, HandlerReturnsKeeps, OpenKeeps, SocketClosesKeeps, ReceiveKeeps
     DEF Connection
<1>3. CASE UNCHANGED terminalVars
  <2>1. UNCHANGED <<produced, retained, state, subs, chan, behind, serving, wire, socket, conn, last, attempts, offered, screen, pending, tape, shown, mixed>>
    BY <1>3 DEF terminalVars, serverVars, socketVars, screenVars
  <2>2. Given(conn)' = Given(conn) /\ ServedConns' = ServedConns
    BY <2>1 DEF Given, ServedConns
  <2>3. TerminalTypeOK'
    BY <2>1 DEF TerminalInv, TerminalTypeOK, ScreenStates, TapeWrites
  <2>4. ConnKnown' /\ LastKept' /\ OwnFrames'
    BY <2>1 DEF TerminalInv, ConnKnown, LastKept, OwnFrames
  <2>5. NoneBefore'
    BY <2>1, <2>2 DEF TerminalInv, NoneBefore
  <2>6. GivenInOrder'
    BY <2>1, <2>2, SameGiven
  <2>7. FreshUntilAttached' /\ ReplaysCounted'
    BY <2>1 DEF TerminalInv, FreshUntilAttached, ReplaysCounted
  <2> QED BY <2>3, <2>4, <2>5, <2>6, <2>7 DEF TerminalInv
<1> QED BY <1>1, <1>2, <1>3 DEF TerminalNext

LEMMA TerminalShows == TerminalInv => ShownInOrder
<1> SUFFICES ASSUME TerminalInv PROVE ShownInOrder
  OBVIOUS
<1>1. OutputInOrder
  BY DEF TerminalInv, OutputInOrder, GivenInOrder, Rising, Gapless, EndsAt
<1>2. LoneReplayIsQuiet
  <2> SUFFICES ASSUME ~mixed, socket = "open", Replayed # {} PROVE screen.quiet
    BY DEF LoneReplayIsQuiet, ReplayIsQuiet
  <2>1. Counted([screen |-> screen, tape |-> tape])
    BY DEF TerminalInv, ReplaysCounted
  <2>2. tape \in Seq(TapeWrites)
    BY InvTypes
  <2>3. Cardinality(ReplayedIn(tape)) > 0
    <3>1. Replayed = ReplayedIn(tape)
      BY DEF Replayed, ReplayedIn
    <3>2. Len(tape) \in Nat
      BY <2>2
    <3> QED BY <3>1, <3>2, ReplayedFinite
  <2> QED BY <2>1, <2>3 DEF Counted
<1> QED BY <1>1, <1>2 DEF ShownInOrder

THEOREM ShownInOrderCorrect == TerminalSpec => []ShownInOrder
<1>1. TerminalSpec => []TerminalInv
  BY TerminalInitInv, TerminalStep, PTL DEF TerminalSpec
<1> QED BY <1>1, TerminalShows, PTL

-----------------------------------------------------------------------------
(***************************************************************************)
(* The types of a pane's header: what is said of a directory is said of    *)
(* one, in whatever way it was read, remembered or cached.                 *)
(***************************************************************************)
LEMMA FiniteHasMax ==
  ASSUME NEW S \in SUBSET Nat, IsFiniteSet(S), S # {}
  PROVE  Max(S) \in S
<1>1. PICK s \in Seq(S) : \A e \in S : \E i \in 1..Len(s) : s[i] = e
  BY DEF IsFiniteSet
<1> DEFINE n == Len(s)
           Bound(k) == \E m \in Nat : \A i \in 1..k : s[i] <= m
           T == {k \in 0..n : Bound(k)}
<1>2. n \in Nat /\ \A i \in 1..n : s[i] \in Nat
  <2>1. n \in Nat /\ \A i \in 1..n : s[i] \in S
    OBVIOUS
  <2> QED BY <2>1
<1>3. 0 \in T
  BY <1>2
<1>4. ASSUME NEW k \in 0..(n - 1), k \in T PROVE k + 1 \in T
  <2>1. PICK m \in Nat : \A i \in 1..k : s[i] <= m
    BY <1>4
  <2>2. k + 1 \in 1..n /\ k + 1 \in 0..n
    BY <1>2
  <2> DEFINE both == m + s[k + 1]
  <2>3. both \in Nat /\ m <= both /\ s[k + 1] <= both
    BY <1>2, <2>2
  <2>4. \A i \in 1..(k + 1) : s[i] <= both
    <3> TAKE i \in 1..(k + 1)
    <3>1. CASE i = k + 1
      BY <2>3, <3>1
    <3>2. CASE i # k + 1
      <4>1. i \in 1..k /\ i \in 1..n
        BY <1>2, <3>2
      <4>2. s[i] <= m /\ s[i] \in Nat
        BY <1>2, <2>1, <4>1
      <4> QED BY <2>3, <4>2
    <3> QED BY <3>1, <3>2
  <2> QED BY <2>2, <2>3, <2>4
<1>5. T = 0..n
  <2>1. T \in SUBSET (0..n)
    OBVIOUS
  <2> HIDE DEF T
  <2> QED BY <1>2, <1>3, <1>4, <2>1, InductiveTo
<1>6. PICK m \in Nat : \A i \in 1..n : s[i] <= m
  <2>1. n \in T
    <3> HIDE DEF T
    <3> QED BY <1>2, <1>5
  <2> QED BY <2>1
<1>7. \A e \in S : e <= m
  BY <1>1, <1>6
<1> DEFINE U == {m - e : e \in S}
<1>8. U \in SUBSET Nat /\ U # {}
  <2>1. \A e \in S : m - e \in Nat
    BY <1>7
  <2>2. PICK e \in S : TRUE
    OBVIOUS
  <2> QED BY <2>1, <2>2
<1>9. PICK t \in U : \A u \in U : t <= u
  <2> HIDE DEF U
  <2> QED BY <1>8, LeastNat
<1>10. PICK x \in S : t = m - x
  BY <1>9
<1>11. \A e \in S : m - x <= m - e
  BY <1>9, <1>10
<1>12. \A e \in S : x >= e
  BY <1>11
<1> QED BY <1>12 DEF Max

LEMMA MinIn ==
  ASSUME NEW S \in SUBSET Nat, S # {}
  PROVE  Min(S) \in S
<1>1. PICK x \in S : \A y \in S : x <= y
  BY LeastNat
<1> QED BY <1>1 DEF Min

IsKept(f, n, list, places) ==
  /\ f[0] = <<>>
  /\ \A k \in 1..n : f[k] = IF k \in places THEN Append(f[k - 1], list[k]) ELSE f[k - 1]

LEMMA KeptExists ==
  ASSUME NEW V, NEW list \in Seq(V), NEW places
  PROVE  \E f \in [0..Len(list) -> Seq(V)] : IsKept(f, Len(list), list, places)
<1> DEFINE n == Len(list)
           T == {m \in 0..n : \E f \in [0..m -> Seq(V)] : IsKept(f, m, list, places)}
<1>0. n \in Nat
  OBVIOUS
<1>1. 0 \in T
  <2> DEFINE z == [k \in 0..0 |-> <<>>]
  <2>1. z \in [0..0 -> Seq(V)] /\ IsKept(z, 0, list, places)
    BY DEF IsKept
  <2> HIDE DEF z
  <2> QED BY <1>0, <2>1
<1>2. ASSUME NEW m \in 0..(n - 1), m \in T PROVE m + 1 \in T
  <2>1. PICK f \in [0..m -> Seq(V)] : IsKept(f, m, list, places)
    BY <1>2
  <2>2. m \in Nat /\ m + 1 \in 1..n /\ m + 1 \in 0..n /\ list[m + 1] \in V /\ f[m] \in Seq(V)
    BY <1>0
  <2> DEFINE e == IF m + 1 \in places THEN Append(f[m], list[m + 1]) ELSE f[m]
             g == [k \in 0..(m + 1) |-> IF k = m + 1 THEN e ELSE f[k]]
  <2>3. e \in Seq(V)
    BY <2>2
  <2>4. g \in [0..(m + 1) -> Seq(V)] /\ g[0] = f[0] /\ g[m + 1] = e /\ \A k \in 0..m : g[k] = f[k]
    <3> HIDE DEF e
    <3> QED BY <2>2, <2>3
  <2> HIDE DEF g
  <2>5. \A k \in 1..(m + 1) : g[k] = IF k \in places THEN Append(g[k - 1], list[k]) ELSE g[k - 1]
    <3> TAKE k \in 1..(m + 1)
    <3>1. CASE k = m + 1
      <4>1. (m + 1) - 1 = m /\ m \in 0..m
        BY <2>2
      <4>2. g[k - 1] = f[m]
        BY <2>4, <3>1, <4>1
      <4> QED BY <2>4, <3>1, <4>2
    <3>2. CASE k # m + 1
      <4>1. k \in 1..m /\ k \in 0..m /\ k - 1 \in 0..m
        BY <2>2, <3>2
      <4> QED BY <2>1, <2>4, <4>1 DEF IsKept
    <3> QED BY <3>1, <3>2
  <2>6. IsKept(g, m + 1, list, places)
    BY <2>1, <2>4, <2>5 DEF IsKept
  <2> QED BY <2>2, <2>4, <2>6
<1>3. T = 0..n
  <2>1. T \in SUBSET (0..n)
    OBVIOUS
  <2> HIDE DEF T
  <2> QED BY <1>0, <1>1, <1>2, <2>1, InductiveTo
<1>4. n \in T
  <2> HIDE DEF T
  <2> QED BY <1>0, <1>3
<1> QED BY <1>4

\* What is kept of a list is a list of the same.
LEMMA ThoseType ==
  ASSUME NEW V, NEW list \in Seq(V), NEW places
  PROVE  Those(list, places) \in Seq(V)
<1> DEFINE n == Len(list)
           Next1(f, k) == IF k = 0 THEN <<>> ELSE IF k \in places THEN Append(f[k - 1], list[k]) ELSE f[k - 1]
           kept == CHOOSE f : f = [k \in 0..n |-> Next1(f, k)]
<1>0. n \in Nat
  OBVIOUS
<1>1. PICK f \in [0..n -> Seq(V)] : IsKept(f, n, list, places)
  BY KeptExists
<1>2. f = [k \in 0..n |-> Next1(f, k)]
  <2>1. \A k \in 0..n : f[k] = Next1(f, k)
    <3> TAKE k \in 0..n
    <3>1. CASE k = 0
      BY <1>1, <3>1 DEF IsKept
    <3>2. CASE k # 0
      <4>1. k \in 1..n
        BY <1>0, <3>2
      <4> QED BY <1>1, <3>2, <4>1 DEF IsKept
    <3> QED BY <3>1, <3>2
  <2> HIDE DEF Next1
  <2> QED BY <2>1
<1>3. kept = [k \in 0..n |-> IF k = 0 THEN <<>> ELSE IF k \in places THEN Append(kept[k - 1], list[k]) ELSE kept[k - 1]]
  BY <1>2
<1>4. Those(list, places) = kept[n]
  BY DEF Those
<1> HIDE DEF kept
<1> DEFINE T == {k \in 0..n : kept[k] \in Seq(V)}
<1>5. 0 \in T
  <2>1. 0 \in 0..n
    BY <1>0
  <2>2. kept[0] = <<>>
    BY <1>3, <2>1
  <2>3. kept[0] \in Seq(V)
    BY <2>2
  <2> QED BY <2>1, <2>3
<1>6. ASSUME NEW k \in 0..(n - 1), k \in T PROVE k + 1 \in T
  <2>1. k + 1 \in 1..n /\ k + 1 \in 0..n /\ k + 1 # 0 /\ (k + 1) - 1 = k /\ list[k + 1] \in V
    BY <1>0
  <2>2. kept[k + 1] = IF k + 1 \in places THEN Append(kept[(k + 1) - 1], list[k + 1]) ELSE kept[(k + 1) - 1]
    BY <1>3, <2>1
  <2>3. kept[k + 1] = IF k + 1 \in places THEN Append(kept[k], list[k + 1]) ELSE kept[k]
    BY <2>1, <2>2
  <2>4. kept[k] \in Seq(V)
    BY <1>6
  <2>5. Append(kept[k], list[k + 1]) \in Seq(V)
    BY <2>1, <2>4
  <2>6. kept[k + 1] \in Seq(V)
    BY <2>3, <2>4, <2>5
  <2> QED BY <2>1, <2>6
<1>7. T = 0..n
  <2>1. T \in SUBSET (0..n)
    OBVIOUS
  <2> HIDE DEF T
  <2> QED BY <1>0, <1>5, <1>6, <2>1, InductiveTo
<1>8. n \in T
  <2> HIDE DEF T
  <2> QED BY <1>0, <1>7
<1> QED BY <1>4, <1>8

\* What the host says of processes and logs.
LEMMA WithCWDType ==
  ASSUME NEW dirs \in Seq(Dirs), NEW d \in MaybeDir
  PROVE  WithCWD(dirs, d) \in Seq(Dirs)
BY DEF WithCWD, MaybeDir

LEMMA FallbackType ==
  ASSUME NEW t \in Tables, NEW tree, NEW agent, NEW base
  PROVE  DescendantCWDFallback(t, tree, agent, base) \in MaybeDir
<1> DEFINE read  == tree \cap Alive(t)
           moved == {p \in read : t[p].cwd # base}
<1>1. moved \subseteq Pids /\ read \subseteq Pids
  BY DEF Alive
<1>2. \A p \in Pids : t[p].cwd \in Dirs
  BY DEF Tables
<1>3. moved # {} => Max(moved) \in Pids
  <2>1. IsFiniteSet(moved) /\ moved \in SUBSET Nat
    BY <1>1, WorkdirsAssumption, FS_Subset
  <2> HIDE DEF moved
  <2> QED BY <1>1, <2>1, FiniteHasMax
<1>4. \/ moved # {} /\ DescendantCWDFallback(t, tree, agent, base) = t[Max(moved)].cwd
      \/ agent \in read /\ DescendantCWDFallback(t, tree, agent, base) = t[agent].cwd
      \/ DescendantCWDFallback(t, tree, agent, base) = NoDir
  BY DEF DescendantCWDFallback
<1> HIDE DEF moved, read
<1> QED BY <1>1, <1>2, <1>3, <1>4 DEF MaybeDir

LEMMA LastPlace ==
  ASSUME NEW V, NEW list \in Seq(V), NEW places \in SUBSET (DOMAIN list), places # {}
  PROVE  Max(places) \in places /\ list[Max(places)] \in V /\ Min(places) \in places /\ list[Min(places)] \in V
<1>1. DOMAIN list = 1..Len(list) /\ Len(list) \in Nat
  OBVIOUS
<1>2. Max(places) \in places
  BY <1>1, MaxIn
<1>3. Min(places) \in places
  <2>1. places \in SUBSET Nat
    BY <1>1
  <2> QED BY <2>1, MinIn
<1> QED BY <1>2, <1>3

LEMMA RecordPathType ==
  ASSUME NEW rec \in ClaudeRecords
  PROVE  ClaudeRecordPath(rec).by # "none" => ClaudeRecordPath(rec).dir \in Dirs
<1> DEFINE used == {i \in DOMAIN rec.touched : ClaudeToolPath(rec.touched[i])}
<1>1. rec.touched \in Seq(Touched) /\ used \in SUBSET (DOMAIN rec.touched)
  BY DEF ClaudeRecords
<1>2. CASE used = {}
  BY <1>2 DEF ClaudeRecordPath
<1>3. CASE used # {}
  <2>1. rec.touched[Max(used)] \in Touched
    <3> HIDE DEF used
    <3> QED BY <1>1, <1>3, LastPlace
  <2>2. ClaudeRecordPath(rec) = [by |-> rec.touched[Max(used)].by, dir |-> rec.touched[Max(used)].dir]
    BY <1>3 DEF ClaudeRecordPath
  <2> HIDE DEF used
  <2> QED BY <2>1, <2>2 DEF Touched
<1> QED BY <1>2, <1>3

LEMMA TouchType ==
  ASSUME NEW log \in Seq(ClaudeRecords), NEW by \in {"bash", "file"}
  PROVE  LatestTouch(log, by) \in MaybeDir
<1> DEFINE heard == {i \in DOMAIN log : ClaudeRecordPath(log[i]).by = by}
<1>1. CASE heard = {}
  BY <1>1 DEF LatestTouch, MaybeDir
<1>2. CASE heard # {}
  <2>1. heard \in SUBSET (DOMAIN log)
    OBVIOUS
  <2>2. Max(heard) \in heard /\ log[Max(heard)] \in ClaudeRecords
    <3> HIDE DEF heard
    <3> QED BY <1>2, <2>1, LastPlace
  <2>3. ClaudeRecordPath(log[Max(heard)]).by = by
    BY <2>2
  <2>4. LatestTouch(log, by) = ClaudeRecordPath(log[Max(heard)]).dir
    BY <1>2 DEF LatestTouch
  <2> HIDE DEF heard
  <2> QED BY <2>2, <2>3, <2>4, RecordPathType DEF MaybeDir
<1> QED BY <1>1, <1>2

LEMMA ClaudeType ==
  ASSUME NEW log \in Seq(ClaudeRecords)
  PROVE  ParseClaudeProjectCWD(log) \in MaybeDir
<1> DEFINE heard == {i \in DOMAIN log : log[i].cwd # NoDir}
<1>1. LatestCWD(log) \in MaybeDir
  <2>1. CASE heard = {}
    BY <2>1 DEF LatestCWD, MaybeDir
  <2>2. CASE heard # {}
    <3>1. heard \in SUBSET (DOMAIN log)
      OBVIOUS
    <3>2. log[Max(heard)] \in ClaudeRecords
      <4> HIDE DEF heard
      <4> QED BY <2>2, <3>1, LastPlace
    <3>3. LatestCWD(log) = log[Max(heard)].cwd
      BY <2>2 DEF LatestCWD
    <3> HIDE DEF heard
    <3> QED BY <3>2, <3>3 DEF ClaudeRecords
  <2> QED BY <2>1, <2>2
<1>2. LatestTouch(log, "bash") \in MaybeDir /\ LatestTouch(log, "file") \in MaybeDir
  BY TouchType
<1> QED BY <1>1, <1>2 DEF ParseClaudeProjectCWD, FirstKnown

LEMMA CodexType ==
  ASSUME NEW log \in Seq(CodexRecords)
  PROVE  ParseCodexSessionCWD(log) \in MaybeDir
<1>1. ASSUME NEW by, OfKind(log, by) # {}
      PROVE  log[Max(OfKind(log, by))].dir \in MaybeDir /\ log[Min(OfKind(log, by))].dir \in MaybeDir
  <2>1. OfKind(log, by) \in SUBSET (DOMAIN log)
    BY DEF OfKind
  <2>2. log[Max(OfKind(log, by))] \in CodexRecords /\ log[Min(OfKind(log, by))] \in CodexRecords
    BY <1>1, <2>1, LastPlace
  <2> QED BY <2>2 DEF CodexRecords, MaybeDir
<1>2. NoDir \in MaybeDir
  BY DEF MaybeDir
<1> QED BY <1>1, <1>2 DEF ParseCodexSessionCWD, FirstKnown

-----------------------------------------------------------------------------
HostTypes ==
  /\ onSsh \in BOOLEAN /\ table \in Tables /\ place \in Places \cup {NoPlace}
  /\ logs \in [Logs -> Seq(LogLines)] /\ \A f \in Logs : logs[f] \in Seq(RecordsOf(f))

Counters ==
  /\ paneSession \in Nat /\ 1 <= paneSession /\ paneSession <= happened + 1 /\ happened \in 0..MaxHappens
  /\ crossed \in BOOLEAN

CacheTypes ==
  /\ logCache \in [Paths -> [size : Nat, dir : MaybeDir]]
  /\ probed \in [place : Places \cup {NoPlace}, fresh : BOOLEAN]

AnswersTyped == sticky \in Seq(Dirs) /\ cached.dirs \in Seq(Dirs) /\ headerShows.dirs \in Seq(Dirs)

\* What a request has found.
AskTypes(q) ==
  /\ q.at # "idle" => q.base \in Dirs
  /\ q.at \in {"stat", "load", "store", "probe"} =>
       q.dir \in Places /\ q.todo \in Seq(Logs) /\ q.found \in Seq(Dirs) /\ q.probe \in BOOLEAN
  /\ q.at \in {"stat", "load", "store"} => q.todo # <<>>
  /\ q.at \in {"load", "store"} => q.size \in Nat
  /\ q.at = "store" => q.read \in MaybeDir
  /\ q.at = "inspect" => q.dirs \in Seq(Dirs)

AskingTypes == req = [r \in Asking |-> req[r]] /\ \A r \in Asking : AskTypes(req[r])

HeaderTypes == HostTypes /\ Counters /\ CacheTypes /\ AnswersTyped /\ AskingTypes

LEMMA HostStill ==
  ASSUME HostTypes, UNCHANGED paneHostVars
  PROVE  HostTypes'
<1>1. UNCHANGED <<onSsh, table, place, logs>>
  BY DEF paneHostVars
<1> QED BY <1>1 DEF HostTypes

LEMMA LaterCount ==
  ASSUME NEW m \in Nat, NEW n \in Nat, NEW k \in Nat, m <= n + 1, n <= k
  PROVE  m <= k + 1
OBVIOUS

LEMMA Counted1 ==
  ASSUME Counters, NoFault \/ Happens, paneSession' = paneSession, crossed' = crossed
  PROVE  Counters'
<1>1. happened' = happened \/ (happened < MaxHappens /\ happened' = happened + 1)
  BY DEF NoFault, Happens
<1>2. MaxHappens \in Nat /\ happened \in 0..MaxHappens
  BY HeaderAssumption DEF Counters
<1>3. happened' \in 0..MaxHappens /\ happened <= happened'
  BY <1>1, <1>2
<1>5. crossed' \in BOOLEAN
  BY DEF Counters
<1>6. paneSession \in Nat /\ 1 <= paneSession /\ paneSession <= happened + 1
  BY DEF Counters
<1>7. paneSession <= happened' + 1
  <2>1. happened \in Nat /\ happened' \in Nat /\ happened <= happened'
    BY <1>2, <1>3
  <2> QED BY <1>6, <2>1, LaterCount
<1>8. paneSession' \in Nat /\ 1 <= paneSession' /\ paneSession' <= happened' + 1
  BY <1>6, <1>7
<1> QED BY <1>3, <1>5, <1>8 DEF Counters

\* A step of a request, by what it leaves.
LEMMA RequestKeepsTypes ==
  ASSUME HeaderTypes, NEW r \in Asking, NEW q, Becomes(r, q), AskTypes(q),
         UNCHANGED <<paneHostVars, paneSession, crossed>>, NoFault \/ Happens, CacheTypes', AnswersTyped'
  PROVE  HeaderTypes'
<1>1. AskingTypes
  BY DEF HeaderTypes
<1>2. req' = [s \in Asking |-> IF s = r THEN q ELSE req[s]]
  BY <1>1 DEF Becomes, AskingTypes
<1>3. req' = [s \in Asking |-> req'[s]] /\ \A s \in Asking : req'[s] = IF s = r THEN q ELSE req[s]
  BY <1>2
<1>4. AskingTypes'
  BY <1>1, <1>3 DEF AskingTypes
<1>5. HostTypes' /\ Counters'
  BY HostStill, Counted1 DEF HeaderTypes
<1> QED BY <1>4, <1>5 DEF HeaderTypes

LEMMA CachesStill == ASSUME CacheTypes, UNCHANGED cacheVars PROVE CacheTypes'
<1>1. UNCHANGED <<logCache, probed>>
  BY DEF cacheVars
<1> QED BY <1>1 DEF CacheTypes

LEMMA AnswersStill == ASSUME AnswersTyped, UNCHANGED <<sticky, cached, headerShows>> PROVE AnswersTyped'
BY DEF AnswersTyped

\* A step of a search.
LEMMA SearchingKeepsTypes ==
  ASSUME HeaderTypes, NEW r \in Asking, NEW q, Becomes(r, q), AskTypes(q), Searching(r), NoFault \/ Happens, CacheTypes'
  PROVE  HeaderTypes'
<1>1. AnswersTyped'
  BY AnswersStill DEF HeaderTypes, Searching
<1>2. UNCHANGED <<paneHostVars, paneSession, crossed>>
  BY DEF Searching
<1> QED BY <1>1, <1>2, RequestKeepsTypes

LEMMA RunsOrFails == ASSUME NEW r, Runs(r) \/ Fails(r) PROVE NoFault \/ Happens
BY DEF Runs, Fails

LEMMA AskOf ==
  ASSUME HeaderTypes, NEW r \in Asking
  PROVE  AskTypes(req[r])
BY DEF HeaderTypes, AskingTypes

LEMMA BeginsTypes == ASSUME HeaderTypes, NEW r \in Asking, Begins(r) PROVE HeaderTypes'
<1> DEFINE q == [at |-> "snap", of |-> paneSession, base |-> PaneCWD]
<1>1. PaneCWD \in Dirs
  BY HeaderAssumption DEF HeaderTypes, HostTypes, PaneCWD, Tables
<1>2. AskTypes(q)
  <2>1. q.at = "snap" /\ q.base \in Dirs
    BY <1>1
  <2> HIDE DEF q
  <2> QED BY <2>1 DEF AskTypes
<1>3. Becomes(r, q) /\ UNCHANGED <<paneHostVars, paneSession, cacheVars, sticky, cached, headerShows, crossed>> /\ NoFault
  BY DEF Begins, NoFault
<1> HIDE DEF q
<1> QED BY <1>2, <1>3, RequestKeepsTypes, CachesStill, AnswersStill DEF HeaderTypes

LEMMA ReplyTypes ==
  ASSUME HeaderTypes, NEW r \in Asking, NEW dirs \in Seq(Dirs), Reply(r, dirs), sticky' \in Seq(Dirs),
         UNCHANGED <<paneHostVars, paneSession, cacheVars, crossed>>, NoFault \/ Happens
  PROVE  HeaderTypes'
<1>1. Becomes(r, NotAsking) /\ AskTypes(NotAsking)
  BY DEF Reply, NotAsking, AskTypes
<1>2. cached'.dirs \in Seq(Dirs) /\ headerShows'.dirs \in Seq(Dirs)
  <2>1. CASE r \in Opening
    BY <2>1 DEF Reply, HeaderTypes, AnswersTyped
  <2>2. CASE r \notin Opening
    <3>1. cached' = [of |-> req[r].of, dirs |-> dirs] /\ headerShows' = cached'
      BY <2>2 DEF Reply
    <3> QED BY <3>1
  <2> QED BY <2>1, <2>2
<1>3. AnswersTyped'
  BY <1>2 DEF AnswersTyped
<1>4. CacheTypes'
  BY CachesStill DEF HeaderTypes
<1> QED BY <1>1, <1>3, <1>4, RequestKeepsTypes

LEMMA CandidatesTypes ==
  ASSUME HeaderTypes, NEW r \in Asking, req[r].at # "idle", NEW dirs \in Seq(Dirs)
  PROVE  AskTypes(Candidates(req[r], dirs))
<1>1. req[r].base \in Dirs
  BY AskOf DEF AskTypes
<1> DEFINE q == Candidates(req[r], dirs)
<1>2. q.at = "inspect" /\ q.base = req[r].base /\ q.dirs = dirs
  BY DEF Candidates
<1> HIDE DEF q
<1>3. AskTypes(q)
  BY <1>1, <1>2 DEF AskTypes
<1> QED BY <1>3 DEF q

LEMMA WithCandidatesTypes ==
  ASSUME HeaderTypes, NEW r \in Asking, req[r].at # "idle", NEW dirs \in Seq(Dirs), WithCandidates(r, dirs),
         UNCHANGED <<paneHostVars, paneSession, cacheVars, cached, headerShows, crossed>>, NoFault \/ Happens
  PROVE  HeaderTypes'
<1> DEFINE remembered == Recall(req[r].base)
           ds    == IF dirs = <<>> THEN remembered ELSE dirs
<1>1. sticky \in Seq(Dirs)
  BY DEF HeaderTypes, AnswersTyped
<1>2. remembered \in Seq(Dirs)
  BY <1>1, ThoseType DEF Recall
<1>3. ds \in Seq(Dirs)
  BY <1>2
<1>4. Becomes(r, Candidates(req[r], ds)) /\ (sticky' = sticky \/ sticky' = <<>>)
  BY DEF WithCandidates
<1> HIDE DEF ds
<1>5. AskTypes(Candidates(req[r], ds))
  BY <1>3, CandidatesTypes
<1>6. sticky' \in Seq(Dirs)
  <2>1. <<>> \in Seq(Dirs)
    OBVIOUS
  <2> QED BY <1>1, <1>4, <2>1
<1>7. AnswersTyped' /\ CacheTypes'
  BY <1>6, CachesStill DEF AnswersTyped, HeaderTypes
<1> QED BY <1>4, <1>5, <1>7, RequestKeepsTypes

LEMMA SnapTypes == ASSUME HeaderTypes, NEW r \in Asking, SnapProcesses(r) PROVE HeaderTypes'
<1>1. /\ req[r].at = "snap" /\ UNCHANGED <<paneHostVars, paneSession, cacheVars, crossed>>
      /\ <<>> \in Seq(Dirs) /\ sticky \in Seq(Dirs)
  BY DEF SnapProcesses, HeaderTypes, AnswersTyped
<1> DEFINE agent == PaneAgent
           q == [at |-> "locate", of |-> req[r].of, base |-> req[r].base, shell |-> PaneCWD, agent |-> agent,
                 runs |-> table[agent].runs, tree |-> DescendantPIDs(table, agent)]
<1>2. \/ (NoFault \/ Happens) /\ Reply(r, <<>>) /\ sticky' = sticky
      \/ (NoFault \/ Happens) /\ WithCandidates(r, <<>>) /\ UNCHANGED <<cached, headerShows>>
      \/ NoFault /\ Becomes(r, q) /\ UNCHANGED <<cached, headerShows, sticky>>
  BY DEF SnapProcesses, Fails
<1>3. AskTypes(q)
  <2>1. req[r].base \in Dirs
    BY <1>1, AskOf DEF AskTypes
  <2>2. q.at = "locate" /\ q.base = req[r].base
    OBVIOUS
  <2> HIDE DEF q
  <2> QED BY <2>1, <2>2 DEF AskTypes
<1> HIDE DEF q
<1>4. CASE NoFault /\ Becomes(r, q) /\ UNCHANGED <<cached, headerShows, sticky>>
  BY <1>1, <1>3, <1>4, RequestKeepsTypes, CachesStill, AnswersStill DEF HeaderTypes
<1>5. CASE (NoFault \/ Happens) /\ Reply(r, <<>>) /\ sticky' = sticky
  BY <1>1, <1>5, ReplyTypes
<1>6. CASE (NoFault \/ Happens) /\ WithCandidates(r, <<>>) /\ UNCHANGED <<cached, headerShows>>
  BY <1>1, <1>6, WithCandidatesTypes
<1> QED BY <1>2, <1>4, <1>5, <1>6

LEMMA FallsBackTypes ==
  ASSUME HeaderTypes, NEW r \in Asking, req[r].at # "idle", FallsBack(r)
  PROVE  \E q : Becomes(r, q) /\ AskTypes(q)
<1> DEFINE p == req[r]
           q == [at |-> "fallback", of |-> p.of, base |-> p.base, shell |-> p.shell, agent |-> p.agent, tree |-> p.tree]
<1>1. Becomes(r, q) /\ q.at = "fallback" /\ q.base = p.base
  BY DEF FallsBack
<1>2. p.base \in Dirs
  BY AskOf DEF AskTypes
<1> HIDE DEF q
<1> QED BY <1>1, <1>2 DEF AskTypes

LEMMA SearchTypes ==
  ASSUME HeaderTypes, NEW r \in Asking, req[r].at # "idle", NEW at \in {"stat", "probe"}, NEW dir \in Places,
         NEW todo \in Seq(Logs), NEW found \in Seq(Dirs), NEW probing \in BOOLEAN, at = "stat" => todo # <<>>
  PROVE  AskTypes(Search(req[r], at, dir, todo, found, probing))
<1>1. req[r].base \in Dirs
  BY AskOf DEF AskTypes
<1> DEFINE q == Search(req[r], at, dir, todo, found, probing)
<1>2. q.at = at /\ q.base = req[r].base /\ q.dir = dir /\ q.todo = todo /\ q.found = found /\ q.probe = probing
  BY DEF Search
<1> HIDE DEF q
<1>3. AskTypes(q)
  BY <1>1, <1>2 DEF AskTypes
<1> QED BY <1>3 DEF q

LEMMA LoadingTypes ==
  ASSUME HeaderTypes, NEW r \in Asking, req[r].at \in {"stat", "load"}, NEW at \in {"load", "store"}, NEW size \in Nat,
         NEW read \in MaybeDir
  PROVE  AskTypes(Loading(req[r], at, size, read))
<1> DEFINE p == req[r]
           q == Loading(p, at, size, read)
<1>1. /\ p.base \in Dirs /\ p.dir \in Places /\ p.todo \in Seq(Logs) /\ p.todo # <<>> /\ p.found \in Seq(Dirs)
      /\ p.probe \in BOOLEAN
  BY AskOf DEF AskTypes
<1>2. /\ q.at = at /\ q.base = p.base /\ q.dir = p.dir /\ q.todo = p.todo /\ q.found = p.found /\ q.probe = p.probe
      /\ q.size = size /\ q.read = read
  BY DEF Loading
<1> HIDE DEF p, q
<1>3. AskTypes(q)
  BY <1>1, <1>2 DEF AskTypes
<1> QED BY <1>3 DEF p, q

LEMMA LocateTypes == ASSUME HeaderTypes, NEW r \in Asking, LocateSession(r) PROVE HeaderTypes'
<1>1. req[r].at = "locate" /\ Searching(r) /\ UNCHANGED cacheVars /\ (NoFault \/ Happens)
  BY RunsOrFails DEF LocateSession
<1>2. CacheTypes'
  BY <1>1, CachesStill DEF HeaderTypes
<1> DEFINE probing == onSsh /\ req[r].runs = "claude"
<1>3. probing \in BOOLEAN /\ FirstPlace \in Places /\ "derived" \in Places /\ <<>> \in Seq(Dirs)
  <2>1. onSsh \in BOOLEAN /\ probed.place \in Places \cup {NoPlace}
    BY DEF HeaderTypes, HostTypes, CacheTypes
  <2> QED BY <2>1 DEF FirstPlace, Places
<1>4. <<"main", "sub">> \in Seq(Logs) /\ <<"rollout">> \in Seq(Logs) /\ <<"main", "sub">> # <<>> /\ <<"rollout">> # <<>>
  BY DEF Logs
<1>5. \/ FallsBack(r)
      \/ Becomes(r, Search(req[r], "stat", FirstPlace, <<"main", "sub">>, <<>>, probing))
      \/ Becomes(r, Search(req[r], "stat", "derived", <<"rollout">>, <<>>, probing))
  BY DEF LocateSession
<1> HIDE DEF probing
<1>6. AskTypes(Search(req[r], "stat", FirstPlace, <<"main", "sub">>, <<>>, probing))
  BY <1>1, <1>3, <1>4, SearchTypes
<1>7. AskTypes(Search(req[r], "stat", "derived", <<"rollout">>, <<>>, probing))
  BY <1>1, <1>3, <1>4, SearchTypes
<1>8. \E q : Becomes(r, q) /\ AskTypes(q)
  BY <1>1, <1>5, <1>6, <1>7, FallsBackTypes
<1> QED BY <1>1, <1>2, <1>8, SearchingKeepsTypes

LEMMA OnwardTypes ==
  ASSUME HeaderTypes, NEW r \in Asking, req[r].at \in {"stat", "load", "store"}, NEW d \in MaybeDir, Onward(r, d)
  PROVE  \E q : Becomes(r, q) /\ AskTypes(q)
<1> DEFINE p     == req[r]
           todo  == Tail(p.todo)
           found == WithCWD(p.found, d)
<1>1. p.dir \in Places /\ p.todo \in Seq(Logs) /\ p.todo # <<>> /\ p.found \in Seq(Dirs) /\ p.probe \in BOOLEAN
  BY AskOf DEF AskTypes
<1>2. todo \in Seq(Logs)
  BY <1>1, HeadTailProperties
<1>3. found \in Seq(Dirs)
  BY <1>1, WithCWDType
<1>4. \/ todo # <<>> /\ Becomes(r, Search(p, "stat", p.dir, todo, found, p.probe))
      \/ Becomes(r, Candidates(p, found))
      \/ Becomes(r, Search(p, "probe", p.dir, todo, found, p.probe))
      \/ FallsBack(r)
  BY DEF Onward
<1> HIDE DEF todo, found
<1>5. AskTypes(Candidates(p, found))
  BY <1>3, CandidatesTypes
<1>6. todo # <<>> => AskTypes(Search(p, "stat", p.dir, todo, found, p.probe))
  BY <1>1, <1>2, <1>3, SearchTypes
<1>7. AskTypes(Search(p, "probe", p.dir, todo, found, p.probe))
  BY <1>1, <1>2, <1>3, SearchTypes
<1> QED BY <1>4, <1>5, <1>6, <1>7, FallsBackTypes

LEMMA ReadingIn ==
  ASSUME HeaderTypes, NEW r \in Asking, req[r].at \in {"stat", "load", "store"}
  PROVE  Reading(req[r]) \in Paths /\ Reading(req[r])[2] \in Logs
<1>1. req[r].dir \in Places /\ req[r].todo \in Seq(Logs) /\ req[r].todo # <<>>
  BY AskOf DEF AskTypes
<1> QED BY <1>1, ReadingIsPath

LEMMA StatTypes == ASSUME HeaderTypes, NEW r \in Asking, StatLog(r) PROVE HeaderTypes'
<1> DEFINE path == Reading(req[r])
           size == Len(logs[path[2]])
<1>1. req[r].at = "stat" /\ Searching(r) /\ UNCHANGED cacheVars /\ (NoFault \/ Happens)
  BY RunsOrFails DEF StatLog
<1>2. CacheTypes' /\ CacheTypes
  BY <1>1, CachesStill DEF HeaderTypes
<1>3. path \in Paths /\ path[2] \in Logs
  BY <1>1, ReadingIn
<1>4. size \in Nat /\ logCache[path].dir \in MaybeDir /\ NoDir \in MaybeDir
  BY <1>2, <1>3 DEF HeaderTypes, HostTypes, CacheTypes, MaybeDir
<1>5. Onward(r, logCache[path].dir) \/ Onward(r, NoDir) \/ Loads(r, size) \/ Loads(r, 0)
  BY DEF StatLog
<1> HIDE DEF path, size
<1>6. ASSUME NEW n \in Nat, Loads(r, n) PROVE \E q : Becomes(r, q) /\ AskTypes(q)
  BY <1>1, <1>4, <1>6, LoadingTypes DEF Loads
<1>7. \E q : Becomes(r, q) /\ AskTypes(q)
  BY <1>1, <1>4, <1>5, <1>6, OnwardTypes
<1> QED BY <1>1, <1>2, <1>7, SearchingKeepsTypes

LEMMA ParsedType ==
  ASSUME HostTypes, NEW f \in Logs
  PROVE  Parsed(f) \in MaybeDir
<1>1. logs[f] \in Seq(RecordsOf(f))
  BY DEF HostTypes
<1>2. CASE f = "rollout"
  BY <1>1, <1>2, CodexType DEF Parsed, RecordsOf
<1>3. CASE f # "rollout"
  BY <1>1, <1>3, ClaudeType DEF Parsed, RecordsOf
<1> QED BY <1>2, <1>3

LEMMA LoadTypes == ASSUME HeaderTypes, NEW r \in Asking, LoadLog(r) PROVE HeaderTypes'
<1> DEFINE p    == req[r]
           path == Reading(p)
           said == IF LogExists(path) THEN Parsed(path[2]) ELSE NoDir
<1>1. p.at = "load" /\ Searching(r) /\ UNCHANGED cacheVars /\ (NoFault \/ Happens)
  BY RunsOrFails DEF LoadLog
<1>2. CacheTypes'
  BY <1>1, CachesStill DEF HeaderTypes
<1>3. path[2] \in Logs
  BY <1>1, ReadingIn
<1>4. said \in MaybeDir /\ NoDir \in MaybeDir /\ p.size \in Nat
  BY <1>1, <1>3, ParsedType, AskOf DEF HeaderTypes, MaybeDir, AskTypes
<1>5. Becomes(r, Loading(p, "store", p.size, said)) \/ Onward(r, NoDir)
  BY DEF LoadLog
<1> HIDE DEF said
<1>6. \E q : Becomes(r, q) /\ AskTypes(q)
  BY <1>1, <1>4, <1>5, LoadingTypes, OnwardTypes
<1> QED BY <1>1, <1>2, <1>6, SearchingKeepsTypes

LEMMA StoreTypes == ASSUME HeaderTypes, NEW r \in Asking, StoreLog(r) PROVE HeaderTypes'
<1> DEFINE p     == req[r]
           path  == Reading(p)
           fresh == [size |-> p.size, dir |-> p.read]
<1>1. p.at = "store" /\ Searching(r) /\ probed' = probed /\ NoFault /\ Onward(r, p.read)
  BY DEF StoreLog
<1>2. path \in Paths
  BY <1>1, ReadingIn
<1>3. p.size \in Nat /\ p.read \in MaybeDir
  BY <1>1, AskOf DEF AskTypes
<1>4. fresh \in [size : Nat, dir : MaybeDir]
  BY <1>3
<1>5. logCache' = logCache \/ logCache' = [logCache EXCEPT ![path] = fresh]
  BY DEF StoreLog, SizeBefore
<1> HIDE DEF fresh, path
<1>6. CacheTypes'
  BY <1>1, <1>2, <1>4, <1>5 DEF HeaderTypes, CacheTypes
<1>7. \E q : Becomes(r, q) /\ AskTypes(q)
  BY <1>1, <1>3, OnwardTypes
<1> QED BY <1>1, <1>6, <1>7, SearchingKeepsTypes

LEMMA ProbeTyped == ASSUME HeaderTypes, NEW r \in Asking, Probe(r) PROVE HeaderTypes'
<1>1. /\ req[r].at = "probe" /\ Searching(r) /\ logCache' = logCache /\ (NoFault \/ Happens)
      /\ (probed' = probed \/ probed' = [place |-> place, fresh |-> TRUE])
  BY RunsOrFails DEF Probe
<1>2. place \in Places \cup {NoPlace}
  BY DEF HeaderTypes, HostTypes
<1>3. CacheTypes'
  <2>1. [place |-> place, fresh |-> TRUE] \in [place : Places \cup {NoPlace}, fresh : BOOLEAN]
    BY <1>2
  <2>2. CacheTypes
    BY DEF HeaderTypes
  <2> QED BY <1>1, <2>1, <2>2 DEF CacheTypes
<1>4. \/ FallsBack(r)
      \/ place # NoPlace /\ Becomes(r, Search(req[r], "stat", place, <<"main", "sub">>, <<>>, FALSE))
  BY DEF Probe
<1>5. <<"main", "sub">> \in Seq(Logs) /\ <<"main", "sub">> # <<>> /\ <<>> \in Seq(Dirs)
  BY DEF Logs
<1>6. place # NoPlace => AskTypes(Search(req[r], "stat", place, <<"main", "sub">>, <<>>, FALSE))
  BY <1>1, <1>2, <1>5, SearchTypes
<1>7. \E q : Becomes(r, q) /\ AskTypes(q)
  BY <1>1, <1>4, <1>6, FallsBackTypes
<1> QED BY <1>1, <1>3, <1>7, SearchingKeepsTypes

LEMMA AnswerTypesKept ==
  ASSUME HeaderTypes, NEW r \in Asking, Fallback(r) \/ Inspect(r) \/ AskCached(r) PROVE HeaderTypes'
<1>1. CASE Fallback(r)
  <2>1. /\ req[r].at = "fallback" /\ UNCHANGED <<paneHostVars, paneSession, cacheVars, cached, headerShows, crossed>>
        /\ (NoFault \/ Happens)
        /\ \E tree, agent, base : WithCandidates(r, WithCWD(<<>>, DescendantCWDFallback(table, tree, agent, base)))
    BY <1>1 DEF Fallback
  <2>2. PICK tree, agent, base : WithCandidates(r, WithCWD(<<>>, DescendantCWDFallback(table, tree, agent, base)))
    BY <2>1
  <2>3. DescendantCWDFallback(table, tree, agent, base) \in MaybeDir /\ <<>> \in Seq(Dirs)
    BY FallbackType DEF HeaderTypes, HostTypes
  <2>4. WithCWD(<<>>, DescendantCWDFallback(table, tree, agent, base)) \in Seq(Dirs)
    BY <2>3, WithCWDType
  <2> QED BY <2>1, <2>2, <2>4, WithCandidatesTypes
<1>2. CASE Inspect(r)
  <2>1. req[r].at = "inspect" /\ UNCHANGED <<paneHostVars, paneSession, cacheVars, crossed>> /\ (NoFault \/ Happens)
    BY <1>2 DEF Inspect
  <2>2. req[r].base \in Dirs /\ req[r].dirs \in Seq(Dirs)
    BY <2>1, AskOf DEF AskTypes
  <2>3. PICK failed : LET trees == Diverged(Those(req[r].dirs, {i \in DOMAIN req[r].dirs : req[r].dirs[i] \notin failed}), req[r].base)
                      IN sticky' = trees /\ Reply(r, IF trees = <<>> THEN <<req[r].base>> ELSE trees)
    BY <1>2 DEF Inspect
  <2> DEFINE some  == Those(req[r].dirs, {i \in DOMAIN req[r].dirs : req[r].dirs[i] \notin failed})
             trees == Diverged(some, req[r].base)
  <2>4. some \in Seq(Dirs)
    BY <2>2, ThoseType
  <2>5. sticky' = trees /\ Reply(r, IF trees = <<>> THEN <<req[r].base>> ELSE trees)
    BY <2>3
  <2> HIDE DEF some
  <2>6. trees \in Seq(Dirs)
    BY <2>4, ThoseType DEF Diverged
  <2> HIDE DEF trees
  <2>7. (IF trees = <<>> THEN <<req[r].base>> ELSE trees) \in Seq(Dirs)
    BY <2>2, <2>6
  <2> QED BY <2>1, <2>5, <2>6, <2>7, ReplyTypes
<1>3. CASE AskCached(r)
  <2>1. /\ UNCHANGED <<paneHostVars, paneSession, cacheVars, sticky, cached, req, crossed, happened>>
        /\ headerShows' = cached
    BY <1>3 DEF AskCached
  <2>2. HostTypes' /\ CacheTypes'
    BY <2>1, HostStill, CachesStill DEF HeaderTypes
  <2>3. Counters' /\ AnswersTyped' /\ AskingTypes'
    BY <2>1 DEF HeaderTypes, Counters, AnswersTyped, AskingTypes
  <2> QED BY <2>2, <2>3 DEF HeaderTypes
<1> QED BY <1>1, <1>2, <1>3

LEMMA OnHostTypes == ASSUME HeaderTypes, OnHost PROVE HeaderTypes'
<1>0. HostTypes /\ Counters /\ CacheTypes /\ AnswersTyped /\ AskingTypes
  BY DEF HeaderTypes
<1>1. HostChanges /\ onSsh' = onSsh
  BY DEF OnHost, Relocates, ProcessEnds, ProcessMoves, ProcessStarts, Writes, HostChanges
<1>2. Happens /\ UNCHANGED <<paneSession, cacheVars, sticky, cached, req, headerShows, crossed>>
  BY <1>1 DEF HostChanges
<1>3. Counters' /\ CacheTypes' /\ AnswersTyped'
  BY <1>0, <1>2, Counted1, CachesStill, AnswersStill
<1>4. AskingTypes'
  BY <1>0, <1>2 DEF AskingTypes
<1>5. table' \in Tables /\ UNCHANGED <<logs, place>> => HostTypes'
  BY <1>0, <1>1 DEF HostTypes
<1>6. HostTypes'
  <2>1. CASE Relocates
    BY <1>0, <1>1, <2>1 DEF Relocates, HostTypes, Places
  <2>2. ASSUME NEW p \in Pids, ProcessEnds(p) PROVE HostTypes'
    <3>1. table' = [q \in Pids |-> [table[q] EXCEPT !.parent = IF @ = p THEN 0 ELSE @, !.runs = IF q = p THEN "gone" ELSE @]]
          /\ UNCHANGED <<logs, place>>
      BY <2>2 DEF ProcessEnds
    <3>2. \A q \in Pids : table[q] \in [parent : Pids \cup {0}, runs : Programs, cwd : Dirs]
      BY <1>0 DEF HostTypes, Tables
    <3>3. ASSUME NEW q \in Pids
          PROVE  [table[q] EXCEPT !.parent = IF @ = p THEN 0 ELSE @, !.runs = IF q = p THEN "gone" ELSE @]
                   \in [parent : Pids \cup {0}, runs : Programs, cwd : Dirs]
      BY <3>2 DEF Programs
    <3>4. table' \in Tables
      BY <3>1, <3>3 DEF Tables
    <3> QED BY <1>5, <3>1, <3>4
  <2>3. ASSUME NEW p \in Pids, NEW d \in Dirs, ProcessMoves(p, d) PROVE HostTypes'
    <3>1. table' = [table EXCEPT ![p].cwd = d] /\ UNCHANGED <<logs, place>>
      BY <2>3 DEF ProcessMoves
    <3>2. table' \in Tables
      BY <1>0, <3>1 DEF HostTypes, Tables
    <3> QED BY <1>5, <3>1, <3>2
  <2>4. ASSUME NEW p \in Pids, NEW parent \in Pids, NEW program \in Programs, ProcessStarts(p, parent, program)
        PROVE  HostTypes'
    <3>1. /\ table' = [table EXCEPT ![p] = [parent |-> parent, runs |-> program, cwd |-> table[parent].cwd]]
          /\ UNCHANGED <<logs, place>>
      BY <2>4 DEF ProcessStarts
    <3>2. [parent |-> parent, runs |-> program, cwd |-> table[parent].cwd]
            \in [parent : Pids \cup {0}, runs : Programs, cwd : Dirs]
      BY <1>0 DEF HostTypes, Tables
    <3>3. table' \in Tables
      BY <1>0, <3>1, <3>2 DEF HostTypes, Tables
    <3> QED BY <1>5, <3>1, <3>3
  <2>5. ASSUME NEW f \in Logs, NEW rec \in LogRecords[f], Writes(f, rec) PROVE HostTypes'
    <3>1. rec \in LogLines /\ rec \in RecordsOf(f)
      BY HeaderAssumption DEF LogLines
    <3>2. Append(logs[f], rec) \in Seq(LogLines) /\ Append(logs[f], rec) \in Seq(RecordsOf(f))
      BY <1>0, <3>1 DEF HostTypes
    <3>3. logs' = [logs EXCEPT ![f] = Append(logs[f], rec)] /\ place' \in Places \cup {NoPlace} /\ table' = table
      BY <1>0, <2>5 DEF Writes, HostTypes
    <3>4. logs' \in [Logs -> Seq(LogLines)]
      BY <1>0, <3>2, <3>3 DEF HostTypes
    <3>5. \A g \in Logs : logs'[g] = IF g = f THEN Append(logs[f], rec) ELSE logs[g]
      BY <1>0, <3>3 DEF HostTypes
    <3>6. \A g \in Logs : logs'[g] \in Seq(RecordsOf(g))
      BY <1>0, <3>2, <3>5 DEF HostTypes
    <3> QED BY <1>0, <1>1, <3>3, <3>4, <3>6 DEF HostTypes
  <2> QED BY <2>1, <2>2, <2>3, <2>4, <2>5 DEF OnHost
<1> QED BY <1>3, <1>4, <1>6 DEF HeaderTypes

LEMMA RestartTypes == ASSUME HeaderTypes, RestartPane \/ ProbeExpires PROVE HeaderTypes'
<1>0. HostTypes /\ Counters /\ CacheTypes /\ AnswersTyped /\ AskingTypes
  BY DEF HeaderTypes
<1>1. CASE RestartPane
  <2>1. /\ Happens /\ paneSession' = paneSession + 1 /\ sticky' = <<>> /\ cached' = NotCached
        /\ crossed' = (crossed \/ \E r \in Asking : req[r].at # "idle")
        /\ UNCHANGED <<onSsh, files, logs, place, cacheVars, req, headerShows>>
    BY <1>1 DEF RestartPane
  <2>2. table' = [p \in Pids |-> IF p = Root THEN [table[p] EXCEPT !.cwd = Home] ELSE [table[p] EXCEPT !.runs = "gone"]]
    BY <1>1 DEF RestartPane
  <2>3. \A p \in Pids : table[p] \in [parent : Pids \cup {0}, runs : Programs, cwd : Dirs]
    BY <1>0 DEF HostTypes, Tables
  <2>4. ASSUME NEW p \in Pids
        PROVE  (IF p = Root THEN [table[p] EXCEPT !.cwd = Home] ELSE [table[p] EXCEPT !.runs = "gone"])
                 \in [parent : Pids \cup {0}, runs : Programs, cwd : Dirs]
    BY <2>3, HeaderAssumption DEF Programs
  <2>5. table' \in Tables
    BY <2>2, <2>4 DEF Tables
  <2>6. HostTypes'
    BY <1>0, <2>1, <2>5 DEF HostTypes
  <2>7. Counters'
    <3>1. happened < MaxHappens /\ happened' = happened + 1 /\ MaxHappens \in Nat /\ happened \in 0..MaxHappens
      BY <1>0, <2>1, HeaderAssumption DEF Happens, Counters
    <3>2. happened' \in 0..MaxHappens /\ paneSession' \in Nat /\ 1 <= paneSession' /\ paneSession' <= happened' + 1
      BY <1>0, <2>1, <3>1 DEF Counters
    <3>3. crossed' \in BOOLEAN
      BY <2>1
    <3> QED BY <3>2, <3>3 DEF Counters
  <2>8. CacheTypes' /\ AskingTypes'
    BY <1>0, <2>1, CachesStill DEF AskingTypes
  <2>9. AnswersTyped'
    BY <1>0, <2>1 DEF AnswersTyped, NotCached
  <2> QED BY <2>6, <2>7, <2>8, <2>9 DEF HeaderTypes
<1>2. CASE ProbeExpires
  <2>1. /\ probed' = [probed EXCEPT !.fresh = FALSE]
        /\ UNCHANGED <<paneHostVars, paneSession, logCache, sticky, cached, req, headerShows, crossed, happened>>
    BY <1>2 DEF ProbeExpires
  <2>2. HostTypes' /\ Counters' /\ AnswersTyped' /\ AskingTypes'
    BY <1>0, <2>1, HostStill, AnswersStill DEF Counters, AskingTypes
  <2>3. CacheTypes'
    BY <1>0, <2>1 DEF CacheTypes
  <2> QED BY <2>2, <2>3 DEF HeaderTypes
<1> QED BY <1>1, <1>2

LEMMA HeaderTypesStep == HeaderTypes /\ [HeaderNext]_headerVars => HeaderTypes'
<1> SUFFICES ASSUME HeaderTypes, [HeaderNext]_headerVars PROVE HeaderTypes'
  OBVIOUS
<1>1. ASSUME NEW r \in Asking, Resolve(r) \/ Ask(r) \/ OpenPane(r) PROVE HeaderTypes'
  BY <1>1, BeginsTypes, SnapTypes, LocateTypes, StatTypes, LoadTypes, StoreTypes, ProbeTyped, AnswerTypesKept
     DEF Resolve, Ask, OpenPane
<1>2. CASE UNCHANGED headerVars
  <2>1. UNCHANGED <<paneHostVars, paneSession, cacheVars, sticky, cached, req, headerShows, crossed, happened>>
    BY <1>2 DEF headerVars
  <2> QED BY <2>1, HostStill, CachesStill, AnswersStill DEF HeaderTypes, Counters, AskingTypes
<1> QED BY <1>1, <1>2, OnHostTypes, RestartTypes DEF HeaderNext

LEMMA HeaderTypesInit == HeaderInit => HeaderTypes
<1> SUFFICES ASSUME HeaderInit PROVE HeaderTypes
  OBVIOUS
<1>1. HostTypes
  <2>1. onSsh \in BOOLEAN /\ table \in Tables /\ place \in Places \cup {NoPlace} /\ logs \in FirstLogs
    BY HeaderAssumption DEF HeaderInit
  <2>2. logs \in [Logs -> Seq(LogLines)] /\ \A f \in Logs : logs[f] \in Seq(RecordsOf(f))
    BY <2>1, HeaderAssumption DEF LogLines
  <2> QED BY <2>1, <2>2 DEF HostTypes
<1>2. Counters
  <2>1. MaxHappens \in Nat /\ paneSession = 1 /\ happened = 0 /\ crossed = FALSE
    BY HeaderAssumption DEF HeaderInit
  <2>2. happened \in 0..MaxHappens /\ paneSession \in Nat /\ 1 <= paneSession /\ paneSession <= happened + 1
    BY <2>1
  <2> QED BY <2>1, <2>2 DEF Counters
<1>3. CacheTypes
  BY DEF HeaderInit, CacheTypes, MaybeDir
<1>4. AnswersTyped
  BY DEF HeaderInit, AnswersTyped, NotCached
<1>5. AskingTypes
  BY DEF HeaderInit, AskingTypes, AskTypes, NotAsking
<1> QED BY <1>1, <1>2, <1>3, <1>4, <1>5 DEF HeaderTypes

LEMMA HeaderTyped == HeaderTypes => HeaderTypeOK
<1> SUFFICES ASSUME HeaderTypes PROVE HeaderTypeOK
  OBVIOUS
<1>1. paneSession \in 1..(MaxHappens + 1)
  BY HeaderAssumption DEF HeaderTypes, Counters
<1> QED BY <1>1 DEF HeaderTypes, HostTypes, Counters, CacheTypes, AnswersTyped, HeaderTypeOK

-----------------------------------------------------------------------------
(* The types of a probe: every connection that is named was made.          *)

Made == worn \cup {NoLink}

CallerTypes ==
  caller \in [Callers -> [at : {"rest", "collect", "ask", "begin", "launch"}, over : Made, force : BOOLEAN]]

ProbeTypes ==
  /\ now \in Made /\ worn \subseteq ProbeLinks
  /\ entry \in [had : BOOLEAN, over : Made, says : {"failed", "found", "missing"}, young : BOOLEAN]
  /\ probe \in [at : {"off", "running", "answered"}, over : Made, says : {"failed", "found", "missing"}]
  /\ CallerTypes
  /\ service \in {"open", "cancelled", "closed", "joined"} /\ changed \in 0..MaxChanges

\* A connection that was made stays one of those there were.
LEMMA MoreConnections ==
  ASSUME ProbeTypes, worn \subseteq worn', UNCHANGED <<entry, probe, caller>>
  PROVE  /\ entry' \in [had : BOOLEAN, over : Made', says : {"failed", "found", "missing"}, young : BOOLEAN]
         /\ probe' \in [at : {"off", "running", "answered"}, over : Made', says : {"failed", "found", "missing"}]
         /\ CallerTypes'
<1>1. Made \subseteq Made'
  BY DEF Made
<1>2. entry' \in [had : BOOLEAN, over : Made', says : {"failed", "found", "missing"}, young : BOOLEAN]
  BY <1>1 DEF ProbeTypes
<1>3. probe' \in [at : {"off", "running", "answered"}, over : Made', says : {"failed", "found", "missing"}]
  BY <1>1 DEF ProbeTypes
<1>4. CallerTypes'
  BY <1>1 DEF ProbeTypes, CallerTypes
<1> QED BY <1>2, <1>3, <1>4

LEMMA ProbeTypesStep == ProbeTypes /\ [ProbeNext]_probeVars => ProbeTypes'
<1> SUFFICES ASSUME ProbeTypes, [ProbeNext]_probeVars PROVE ProbeTypes'
  OBVIOUS
<1>0. NoLink \in Made /\ now \in Made /\ MaxChanges \in Nat /\ changed \in 0..MaxChanges
  BY ProbeAssumption DEF Made, ProbeTypes
<1>1. CASE Connected
  <2>1. PICK x \in ProbeLinks \ worn : now' = x /\ worn' = worn \cup {x}
    BY <1>1 DEF Connected
  <2>2. UNCHANGED <<entry, probe, caller, service, changed>>
    BY <1>1 DEF Connected
  <2>3. now' \in Made' /\ worn' \subseteq ProbeLinks
    BY <2>1 DEF Made, ProbeTypes
  <2>4. worn \subseteq worn'
    BY <2>1
  <2> QED BY <2>2, <2>3, <2>4, MoreConnections DEF ProbeTypes
<1>2. CASE Dropped \/ Installs \/ Lists
  <2>1. Changes /\ (now' = now \/ now' = NoLink) /\ UNCHANGED <<worn, entry, probe, caller, service>>
    BY <1>2 DEF Dropped, Installs, Lists
  <2>2. changed' \in 0..MaxChanges
    BY <1>0, <2>1 DEF Changes
  <2> QED BY <1>0, <2>1, <2>2 DEF ProbeTypes, CallerTypes, Made
<1>3. CASE Ages
  <2>1. entry' = [entry EXCEPT !.young = FALSE] /\ UNCHANGED <<now, worn, probe, caller, service, changed>>
    BY <1>3 DEF Ages
  <2> QED BY <2>1 DEF ProbeTypes, CallerTypes, Made
<1>4. CASE Closes
  BY <1>4 DEF Closes, ProbeTypes, CallerTypes, Made
<1>5. CASE ProbeAnswers
  <2>1. PICK says \in {"failed", "found", "missing"} : probe' = [probe EXCEPT !.at = "answered", !.says = says]
    BY <1>5 DEF ProbeAnswers
  <2>2. UNCHANGED <<now, worn, entry, caller, service, changed>>
    BY <1>5 DEF ProbeAnswers
  <2> QED BY <2>1, <2>2 DEF ProbeTypes, CallerTypes, Made
<1>6. CASE ProbeEnds
  <2>1. probe' = NoProbe /\ UNCHANGED <<now, worn, caller, service, changed>>
    BY <1>6 DEF ProbeEnds, MarkGone
  <2>2. entry' = entry \/ entry' = [had |-> TRUE, over |-> probe.over, says |-> probe.says, young |-> TRUE]
    BY <1>6 DEF ProbeEnds
  <2>3. NoProbe \in [at : {"off", "running", "answered"}, over : Made, says : {"failed", "found", "missing"}]
    BY <1>0 DEF NoProbe
  <2>4. probe.over \in Made /\ probe.says \in {"failed", "found", "missing"}
    BY DEF ProbeTypes
  <2>5. [had |-> TRUE, over |-> probe.over, says |-> probe.says, young |-> TRUE]
          \in [had : BOOLEAN, over : Made, says : {"failed", "found", "missing"}, young : BOOLEAN]
    BY <2>4
  <2>6. entry' \in [had : BOOLEAN, over : Made, says : {"failed", "found", "missing"}, young : BOOLEAN]
    BY <2>2, <2>5 DEF ProbeTypes
  <2> QED BY <2>1, <2>3, <2>6 DEF ProbeTypes, CallerTypes, Made
<1>7. ASSUME NEW c \in Callers, CallerSteps(c) PROVE ProbeTypes'
  <2> DEFINE Rec == [at : {"rest", "collect", "ask", "begin", "launch"}, over : Made, force : BOOLEAN]
  <2>1. /\ UNCHANGED <<worn, service, changed>> /\ (now' = now \/ now' = NoLink) /\ (entry' = entry \/ entry' = NoEntry)
        /\ (probe' = probe \/ probe' = [at |-> "running", over |-> caller[c].over, says |-> "failed"])
    BY <1>7 DEF CallerSteps, Collect, Collected, AskProbe, BeginProbe, Launches, Refuses
  <2>2. \E x \in Rec : caller' = [caller EXCEPT ![c] = x]
    <3>1. caller[c] \in Rec
      BY DEF ProbeTypes, CallerTypes
    <3>2. \/ Rests(c) \/ To(c, "collect")
          \/ caller' = [caller EXCEPT ![c].at = "ask", ![c].force = FALSE]
          \/ caller' = [caller EXCEPT ![c].at = "begin", ![c].over = now]
          \/ caller' = [caller EXCEPT ![c].at = "launch", ![c].over = now]
          \/ caller' = [caller EXCEPT ![c].at = "ask", ![c].force = TRUE]
      BY <1>7 DEF CallerSteps, Collect, Collected, AskProbe, BeginProbe, Launches, Refuses
    <3>3. CASE Rests(c)
      BY <1>0, <3>3 DEF Rests, AtRest
    <3>4. CASE To(c, "collect")
      <4>1. [caller[c] EXCEPT !.at = "collect"] \in Rec
        BY <3>1
      <4> QED BY <3>4, <4>1 DEF To
    <3>5. CASE caller' = [caller EXCEPT ![c].at = "ask", ![c].force = FALSE]
      <4>1. [caller[c] EXCEPT !.at = "ask", !.force = FALSE] \in Rec
        BY <1>0, <3>1
      <4>2. caller' = [caller EXCEPT ![c] = [caller[c] EXCEPT !.at = "ask", !.force = FALSE]]
        BY <3>5
      <4> QED BY <4>1, <4>2
    <3>6. CASE caller' = [caller EXCEPT ![c].at = "begin", ![c].over = now]
      <4>1. [caller[c] EXCEPT !.at = "begin", !.over = now] \in Rec
        BY <1>0, <3>1
      <4>2. caller' = [caller EXCEPT ![c] = [caller[c] EXCEPT !.at = "begin", !.over = now]]
        BY <3>6
      <4> QED BY <4>1, <4>2
    <3>7. CASE caller' = [caller EXCEPT ![c].at = "launch", ![c].over = now]
      <4>1. [caller[c] EXCEPT !.at = "launch", !.over = now] \in Rec
        BY <1>0, <3>1
      <4>2. caller' = [caller EXCEPT ![c] = [caller[c] EXCEPT !.at = "launch", !.over = now]]
        BY <3>7
      <4> QED BY <4>1, <4>2
    <3>8. CASE caller' = [caller EXCEPT ![c].at = "ask", ![c].force = TRUE]
      <4>1. [caller[c] EXCEPT !.at = "ask", !.force = TRUE] \in Rec
        BY <1>0, <3>1
      <4>2. caller' = [caller EXCEPT ![c] = [caller[c] EXCEPT !.at = "ask", !.force = TRUE]]
        BY <3>8
      <4> QED BY <4>1, <4>2
    <3> QED BY <3>2, <3>3, <3>4, <3>5, <3>6, <3>7, <3>8
  <2>3. PICK x \in Rec : caller' = [caller EXCEPT ![c] = x]
    BY <2>2
  <2>4. caller' \in [Callers -> Rec]
    BY <2>3 DEF ProbeTypes, CallerTypes
  <2>5. caller[c].over \in Made /\ Made' = Made
    BY <2>1 DEF ProbeTypes, CallerTypes, Made
  <2>6. probe' \in [at : {"off", "running", "answered"}, over : Made, says : {"failed", "found", "missing"}]
    BY <2>1, <2>5 DEF ProbeTypes
  <2>7. entry' \in [had : BOOLEAN, over : Made, says : {"failed", "found", "missing"}, young : BOOLEAN]
    <3>1. NoEntry \in [had : BOOLEAN, over : Made, says : {"failed", "found", "missing"}, young : BOOLEAN]
      BY <1>0 DEF NoEntry
    <3>2. entry \in [had : BOOLEAN, over : Made, says : {"failed", "found", "missing"}, young : BOOLEAN]
      BY DEF ProbeTypes
    <3> QED BY <2>1, <3>1, <3>2
  <2> QED BY <1>0, <2>1, <2>4, <2>5, <2>6, <2>7 DEF ProbeTypes, CallerTypes
<1>8. CASE UNCHANGED probeVars
  BY <1>8 DEF probeVars, ProbeTypes, CallerTypes, Made
<1> QED BY <1>1, <1>2, <1>3, <1>4, <1>5, <1>6, <1>7, <1>8 DEF ProbeNext

LEMMA ProbeTypesAlways == ProbeSpec => []ProbeTypeOK
<1>1. ProbeInit => ProbeTypes
  BY ProbeAssumption DEF ProbeInit, ProbeTypes, CallerTypes, Made, NoEntry, NoProbe, AtRest
<1>2. ProbeTypes => ProbeTypeOK
  BY DEF ProbeTypes, CallerTypes, Made, ProbeTypeOK
<1> QED BY <1>1, <1>2, ProbeTypesStep, PTL DEF ProbeSpec

-----------------------------------------------------------------------------
\* Every variable of the parts has its type, for all values of their constants.
THEOREM StreamsTypeCorrect ==
  TerminalSpec /\ CommandSpec /\ ToolSpec /\ PreviewSpec /\ SshSpec /\ ProbeSpec /\ HeaderSpec => []StreamsTypeOK
<1>1. TerminalSpec => []TerminalTypeOK
  <2>1. TerminalInv => TerminalTypeOK
    BY DEF TerminalInv
  <2> QED BY <2>1, TerminalInitInv, TerminalStep, PTL DEF TerminalSpec
<1>2. CommandSpec => []CommandTypeOK
  <2>1. CommandInv => CommandTypeOK
    BY DEF CommandInv
  <2> QED BY <2>1, CommandInitInv, CommandStep, PTL DEF CommandSpec
<1>3. ToolSpec => []ToolTypeOK
  <2>1. ToolInv => ToolTypeOK
    BY DEF ToolInv
  <2> QED BY <2>1, ToolInvInit, ToolStep, PTL DEF ToolSpec
<1>4. PreviewSpec => []PreviewTypeOK
  <2>1. PreviewInv => PreviewTypeOK
    BY DEF PreviewInv
  <2> QED BY <2>1, PreviewInitInv, PreviewStep, PTL DEF PreviewSpec
<1>5. SshSpec => []SshTypeOK
  <2>1. DialInv => SshTypeOK
    BY DEF DialInv
  <2> QED BY <2>1, SshInitInv, SshStep, PTL DEF SshSpec
<1>6. HeaderSpec => []HeaderTypeOK
  BY HeaderTypesInit, HeaderTypesStep, HeaderTyped, PTL DEF HeaderSpec
<1>7. TerminalTypeOK /\ CommandTypeOK /\ ToolTypeOK /\ PreviewTypeOK /\ SshTypeOK /\ ProbeTypeOK /\ HeaderTypeOK
        => StreamsTypeOK
  BY DEF StreamsTypeOK
<1>8. ASSUME TerminalSpec, CommandSpec, ToolSpec, PreviewSpec, SshSpec, ProbeSpec, HeaderSpec
      PROVE  []StreamsTypeOK
  <2>1. []TerminalTypeOK /\ []CommandTypeOK /\ []ToolTypeOK /\ []PreviewTypeOK /\ []SshTypeOK /\ []ProbeTypeOK /\ []HeaderTypeOK
    BY <1>1, <1>2, <1>3, <1>4, <1>5, <1>6, <1>8, ProbeTypesAlways
  <2> QED BY <1>7, <2>1, PTL
<1> QED BY <1>8
=============================================================================
