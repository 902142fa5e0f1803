-------------------------- MODULE JobRuntimeProofs --------------------------
(***************************************************************************)
(* Proofs about JobRuntime, for every set of crons and any number of       *)
(* callbacks, failures, hanging runs and restarts.                         *)
(***************************************************************************)
EXTENDS JobRuntime, TLAPS

\* A callback under way is at a step of its program, and knows of a failure only when
\* the promise it awaited has settled.
CallbackOK ==
  \A s \in Callbacks :
    /\ callback[s].pc # "none" => /\ callback[s].cron \in AllCrons
                                  /\ callback[s].step \in 1..Len(Program(callback[s].cron))
    /\ callback[s].failed => callback[s].pc = "resumed"

\* A run has its promise in the map, and the callback that started it waits for it.
RunOK ==
  \A s \in Callbacks : run[s].phase # "none" =>
    /\ callback[s].pc = "waiting" /\ callback[s].on = s
    /\ run[s].key \in Keys
    /\ inFlight[run[s].key] = s

IInv == TypeOK /\ CallbackOK /\ RunOK /\ KeysAreFreed

-----------------------------------------------------------------------------
\* Every step of a program is a call of a single-flight method.
LEMMA ProgramSteps ==
  ASSUME NEW cron \in AllCrons
  PROVE  /\ Len(Program(cron)) \in 1..3
         /\ \A i \in 1..Len(Program(cron)) : Program(cron)[i] \in Keys
<1>1. CASE cron = "reports"
  BY <1>1 DEF Program, Keys
<1>2. CASE cron = "cold"
  BY <1>2 DEF Program, Keys
<1>3. CASE cron \in {"vaults", "members", "reconcile", "scan", "backfill"}
  BY <1>3 DEF Program, Keys
<1>4. QED
  BY <1>1, <1>2, <1>3 DEF AllCrons

\* No callback and no run, as records.
LEMMA EmptyRecords == NoCallback \in Callback /\ NoRun \in Run
<1>1. 1 \in 1..3 /\ 0 \in 0..MaxCallbacks
  BY JobRuntimeAssumption, SMT
<1>2. QED
  BY <1>1, Zenon DEF NoCallback, NoRun, Callback, Run

\* A worker boots with an empty map and no callback under way.
LEMMA InitIInv == Init => IInv
<1>1. SUFFICES ASSUME Init PROVE IInv
  OBVIOUS
<1>2. TypeOK
  <2>1. alive \in BOOLEAN /\ coldDone \in BOOLEAN
    BY <1>1, Zenon DEF Init, Boot
  <2>2. callback \in [Callbacks -> Callback] /\ run \in [Callbacks -> Run]
    BY <1>1, EmptyRecords, Zenon DEF Init, Boot
  <2>3. /\ inFlight \in [Keys -> 0..MaxCallbacks] /\ delay \in 0..MaxDelay
        /\ failures \in 0..MaxFailures /\ hangs \in 0..MaxHangs /\ deaths \in 0..MaxDeaths
        /\ backfill \in {"registered", "deleted", "completed"}
    BY <1>1, JobRuntimeAssumption, SMT DEF Init, Boot
  <2>4. QED
    BY <2>1, <2>2, <2>3, Zenon DEF TypeOK
<1>3. CallbackOK /\ RunOK /\ KeysAreFreed
  BY <1>1 DEF Init, Boot, CallbackOK, RunOK, KeysAreFreed, NoCallback, NoRun
<1>4. QED
  BY <1>2, <1>3 DEF IInv

-----------------------------------------------------------------------------
\* Callbacks, runs and the map, without the counters.
Shape ==
  /\ callback \in [Callbacks -> Callback]
  /\ run \in [Callbacks -> Run]
  /\ inFlight \in [Keys -> 0..MaxCallbacks]

Promises == Shape /\ CallbackOK /\ RunOK /\ KeysAreFreed

\* A callback without a run of its own may move to any state that fits its program.
LEMMA SetKeeps ==
  ASSUME Promises, NEW s \in Callbacks, NEW c \in Callback,
         callback[s].pc # "waiting", Set(s, c), UNCHANGED <<run, inFlight>>,
         c.pc # "none" => c.cron \in AllCrons /\ c.step \in 1..Len(Program(c.cron)),
         c.failed => c.pc = "resumed"
  PROVE  Promises'
<1>1. Shape'
  BY DEF Promises, Shape, Set
<1>2. callback'[s] = c /\ \A t \in Callbacks : t # s => callback'[t] = callback[t]
  BY DEF Promises, Shape, Set
<1>3. run[s].phase = "none"
  BY DEF Promises, RunOK
<1>4. CallbackOK'
  BY <1>2, Zenon DEF Promises, CallbackOK
<1>5. RunOK'
  BY <1>2, <1>3, Zenon DEF Promises, RunOK
<1>6. KeysAreFreed'
  BY DEF Promises, KeysAreFreed
<1>7. QED
  BY <1>1, <1>4, <1>5, <1>6 DEF Promises

\* A run keeps its key as long as it has one.
LEMMA RunKeeps ==
  ASSUME Promises, NEW s \in Callbacks, NEW r \in Run,
         run[s].phase # "none", r.phase # "none", r.key = run[s].key,
         run' = [run EXCEPT ![s] = r], UNCHANGED <<callback, inFlight>>
  PROVE  Promises'
<1>1. Shape'
  BY DEF Promises, Shape
<1>2. run'[s] = r /\ \A t \in Callbacks : t # s => run'[t] = run[t]
  BY DEF Promises, Shape
<1>3. CallbackOK' /\ RunOK'
  <2>1. CallbackOK'
    BY DEF Promises, CallbackOK
  <2>2. RunOK'
    BY <1>2 DEF Promises, RunOK
  <2>3. QED
    BY <2>1, <2>2
<1>4. KeysAreFreed'
  <2>1. SUFFICES ASSUME NEW k \in Keys, inFlight[k] # 0
                 PROVE  run'[inFlight[k]].phase # "none" /\ run'[inFlight[k]].key = k
    BY DEF KeysAreFreed
  <2>2. run[inFlight[k]].phase # "none" /\ run[inFlight[k]].key = k
    BY <2>1 DEF Promises, KeysAreFreed
  <2>3. inFlight[k] \in Callbacks
    BY <2>1, JobRuntimeAssumption DEF Promises, Shape, Callbacks
  <2>4. QED
    BY <1>2, <2>2, <2>3, Zenon
<1>5. QED
  BY <1>1, <1>3, <1>4 DEF Promises

\* A started run is the only one of its key.
LEMMA StartKeeps ==
  ASSUME Promises, NEW s \in Callbacks, callback[s].pc = "call", Start(s)
  PROVE  Promises'
<1>1. KeyOf(s) \in Keys
  BY ProgramSteps DEF Promises, CallbackOK, KeyOf
<1>2. run[s].phase = "none" /\ ~callback[s].failed
  BY DEF Promises, RunOK, CallbackOK
<1> DEFINE c == [callback[s] EXCEPT !.pc = "waiting", !.on = s]
           r == [NoRun EXCEPT !.phase = "scheduled", !.key = KeyOf(s)]
<1>3. c \in Callback /\ r \in Run /\ s \in 0..MaxCallbacks /\ s # 0
  <2>1. s \in 0..MaxCallbacks /\ s # 0
    BY JobRuntimeAssumption, SMT DEF Callbacks
  <2>2. callback[s] \in Callback
    BY DEF Promises, Shape
  <2>3. c \in Callback
    BY <2>1, <2>2 DEF Callback
  <2>4. r \in Run
    BY <1>1, EmptyRecords DEF Run
  <2>5. QED
    BY <2>1, <2>3, <2>4
<1>4. /\ c.pc = "waiting" /\ c.on = s /\ c.cron = callback[s].cron /\ c.step = callback[s].step
      /\ (c.failed <=> callback[s].failed)
      /\ r.phase = "scheduled" /\ r.key = KeyOf(s)
  BY DEF Promises, Shape, Callback, NoRun
<1> HIDE DEF c, r
<1>5. /\ callback' = [callback EXCEPT ![s] = c]
      /\ run' = [run EXCEPT ![s] = r]
      /\ inFlight' = [inFlight EXCEPT ![KeyOf(s)] = s]
      /\ inFlight[KeyOf(s)] = 0
  BY DEF Start, Set, c, r
<1>6. Shape'
  BY <1>1, <1>3, <1>5 DEF Promises, Shape
<1>7. /\ callback'[s] = c /\ \A t \in Callbacks : t # s => callback'[t] = callback[t]
      /\ run'[s] = r /\ \A t \in Callbacks : t # s => run'[t] = run[t]
      /\ inFlight'[KeyOf(s)] = s /\ \A k \in Keys : k # KeyOf(s) => inFlight'[k] = inFlight[k]
  BY <1>1, <1>5 DEF Promises, Shape
<1>8. CallbackOK'
  BY <1>2, <1>4, <1>7, Zenon DEF Promises, CallbackOK
<1>9. RunOK'
  <2>1. SUFFICES ASSUME NEW t \in Callbacks, run'[t].phase # "none"
                 PROVE  /\ callback'[t].pc = "waiting" /\ callback'[t].on = t
                        /\ run'[t].key \in Keys /\ inFlight'[run'[t].key] = t
    BY Zenon DEF RunOK
  <2>2. CASE t = s
    BY <2>2, <1>1, <1>4, <1>7, Zenon
  <2>3. CASE t # s
    <3>1. /\ callback[t].pc = "waiting" /\ callback[t].on = t
          /\ run[t].key \in Keys /\ inFlight[run[t].key] = t
      BY <2>1, <2>3, <1>7, Zenon DEF Promises, RunOK
    <3>2. t # 0
      BY JobRuntimeAssumption, SMT DEF Callbacks
    <3>3. run[t].key # KeyOf(s)
      BY <3>1, <3>2, <1>5, Zenon
    <3>4. QED
      BY <3>1, <3>3, <2>3, <1>7, Zenon
  <2>4. QED
    BY <2>2, <2>3
<1>10. KeysAreFreed'
  <2>1. SUFFICES ASSUME NEW k \in Keys, inFlight'[k] # 0
                 PROVE  run'[inFlight'[k]].phase # "none" /\ run'[inFlight'[k]].key = k
    BY Zenon DEF KeysAreFreed
  <2>2. CASE k = KeyOf(s)
    BY <2>2, <1>4, <1>7
  <2>3. CASE k # KeyOf(s)
    <3>1. inFlight'[k] = inFlight[k]
      BY <2>3, <1>7, Zenon
    <3>2. run[inFlight[k]].phase # "none" /\ run[inFlight[k]].key = k
      BY <2>1, <3>1, Zenon DEF Promises, KeysAreFreed
    <3>3. inFlight[k] \in Callbacks
      BY <2>1, <3>1, JobRuntimeAssumption, SMT DEF Promises, Shape, Callbacks
    <3>4. inFlight[k] # s
      BY <3>2, <1>2, Zenon
    <3>5. QED
      BY <3>1, <3>2, <3>3, <3>4, <1>7, Zenon
  <2>4. QED
    BY <2>2, <2>3
<1>11. QED
  BY <1>6, <1>8, <1>9, <1>10 DEF Promises

\* The end of a run frees its key and nobody else's, and wakes whoever waits for it.
LEMMA CleanupKeeps ==
  ASSUME Promises, NEW s \in Callbacks, Cleanup(s)
  PROVE  Promises'
<1>1. /\ run[s].phase # "none" /\ run[s].key \in Keys /\ inFlight[run[s].key] = s
      /\ callback[s].pc = "waiting" /\ callback[s].on = s
  BY DEF Promises, RunOK, Cleanup
<1>2. /\ inFlight' = [inFlight EXCEPT ![run[s].key] = 0]
      /\ run' = [run EXCEPT ![s] = NoRun]
      /\ callback' = [t \in Callbacks |->
           IF callback[t].pc = "waiting" /\ callback[t].on = s
           THEN [callback[t] EXCEPT !.pc = "resumed", !.on = 0, !.failed = Rejects(s, t)]
           ELSE callback[t]]
  BY Zenon DEF Cleanup
<1>3. /\ run'[s] = NoRun /\ \A t \in Callbacks : t # s => run'[t] = run[t]
      /\ inFlight'[run[s].key] = 0
      /\ \A k \in Keys : k # run[s].key => inFlight'[k] = inFlight[k]
  BY <1>1, <1>2 DEF Promises, Shape
<1>4. ASSUME NEW t \in Callbacks
      PROVE  /\ callback'[t] \in Callback
             /\ callback'[t].cron = callback[t].cron /\ callback'[t].step = callback[t].step
             /\ \/ callback'[t] = callback[t] /\ ~(callback[t].pc = "waiting" /\ callback[t].on = s)
                \/ callback[t].pc = "waiting" /\ callback[t].on = s /\ callback'[t].pc = "resumed"
  <2>1. callback[t] \in Callback
    BY DEF Promises, Shape
  <2>2. CASE callback[t].pc = "waiting" /\ callback[t].on = s
    <3>1. callback'[t] = [callback[t] EXCEPT !.pc = "resumed", !.on = 0, !.failed = Rejects(s, t)]
      BY <1>2, <2>2, Zenon
    <3>2. 0 \in 0..MaxCallbacks
      BY JobRuntimeAssumption, SMT
    <3>3. Rejects(s, t) \in BOOLEAN
      <4>1. run[s] \in Run
        BY DEF Promises, Shape
      <4>2. run[s].failed \in BOOLEAN
        BY <4>1, Zenon DEF Run
      <4>3. QED
        BY <4>2, Zenon DEF Rejects
    <3> DEFINE b == Rejects(s, t)
    <3>4. b \in BOOLEAN /\ callback'[t] = [callback[t] EXCEPT !.pc = "resumed", !.on = 0, !.failed = b]
      BY <3>1, <3>3, Zenon
    <3> HIDE DEF b
    <3>5. QED
      BY <2>1, <2>2, <3>2, <3>4 DEF Callback
  <2>3. CASE ~(callback[t].pc = "waiting" /\ callback[t].on = s)
    BY <1>2, <2>1, <2>3, Zenon
  <2>4. QED
    BY <2>2, <2>3
<1>5. Shape'
  <2>1. callback' \in [Callbacks -> Callback]
    BY <1>2, <1>4, Zenon
  <2>2. run' \in [Callbacks -> Run]
    BY <1>2, EmptyRecords DEF Promises, Shape
  <2>3. inFlight' \in [Keys -> 0..MaxCallbacks]
    <3>1. 0 \in 0..MaxCallbacks
      BY JobRuntimeAssumption, SMT
    <3>2. QED
      BY <1>1, <1>2, <3>1, Zenon DEF Promises, Shape
  <2>4. QED
    BY <2>1, <2>2, <2>3 DEF Shape
<1>6. CallbackOK'
  <2>1. SUFFICES ASSUME NEW t \in Callbacks
                 PROVE  /\ callback'[t].pc # "none" =>
                             /\ callback'[t].cron \in AllCrons
                             /\ callback'[t].step \in 1..Len(Program(callback'[t].cron))
                        /\ callback'[t].failed => callback'[t].pc = "resumed"
    BY Zenon DEF CallbackOK
  <2>2. /\ callback[t].pc # "none" => /\ callback[t].cron \in AllCrons
                                      /\ callback[t].step \in 1..Len(Program(callback[t].cron))
        /\ callback[t].failed => callback[t].pc = "resumed"
    BY Zenon DEF Promises, CallbackOK
  <2>3. QED
    BY <1>4, <2>2, Zenon
<1>7. RunOK'
  <2>1. SUFFICES ASSUME NEW t \in Callbacks, run'[t].phase # "none"
                 PROVE  /\ callback'[t].pc = "waiting" /\ callback'[t].on = t
                        /\ run'[t].key \in Keys /\ inFlight'[run'[t].key] = t
    BY Zenon DEF RunOK
  <2>2. t # s
    BY <2>1, <1>3 DEF NoRun
  <2>3. /\ callback[t].pc = "waiting" /\ callback[t].on = t
        /\ run[t].key \in Keys /\ inFlight[run[t].key] = t
    BY <2>1, <2>2, <1>3, Zenon DEF Promises, RunOK
  <2>4. QED
    BY <2>2, <2>3, <1>1, <1>3, <1>4, Zenon
<1>8. KeysAreFreed'
  <2>1. SUFFICES ASSUME NEW k \in Keys, inFlight'[k] # 0
                 PROVE  run'[inFlight'[k]].phase # "none" /\ run'[inFlight'[k]].key = k
    BY Zenon DEF KeysAreFreed
  <2>2. k # run[s].key /\ inFlight'[k] = inFlight[k]
    BY <2>1, <1>3, Zenon
  <2>3. run[inFlight[k]].phase # "none" /\ run[inFlight[k]].key = k
    BY <2>1, <2>2, Zenon DEF Promises, KeysAreFreed
  <2>4. inFlight[k] \in Callbacks
    BY <2>1, <2>2, JobRuntimeAssumption, SMT DEF Promises, Shape, Callbacks
  <2>5. QED
    BY <2>2, <2>3, <2>4, <1>3, Zenon
<1>9. QED
  BY <1>5, <1>6, <1>7, <1>8 DEF Promises

\* A dead process has neither callbacks nor runs.
LEMMA DieKeeps == ASSUME Die PROVE Promises'
<1>1. Shape'
  BY EmptyRecords, JobRuntimeAssumption DEF Die, Shape
<1>2. CallbackOK' /\ RunOK' /\ KeysAreFreed'
  BY DEF Die, CallbackOK, RunOK, KeysAreFreed, NoCallback, NoRun
<1>3. QED
  BY <1>1, <1>2 DEF Promises

-----------------------------------------------------------------------------
\* A callback that returns leaves its place.
LEMMA FinishKeeps ==
  ASSUME Promises, NEW s \in Callbacks, callback[s].pc # "waiting", Set(s, NoCallback),
         UNCHANGED <<run, inFlight>>
  PROVE  Promises'
<1>1. NoCallback.pc = "none" /\ ~NoCallback.failed
  BY DEF NoCallback
<1>2. QED
  BY <1>1, EmptyRecords, SetKeeps

\* Every step keeps the promises, the map and the callbacks consistent.
LEMMA NextPromises == ASSUME Promises, Next PROVE Promises'
<1>1. ASSUME NEW s \in Callbacks, NEW cron \in Crons, Fire(s, cron) PROVE Promises'
  <2> DEFINE c == [NoCallback EXCEPT !.pc = IF cron = "cold" THEN "call" ELSE "block", !.cron = cron]
  <2>1. cron \in AllCrons
    BY JobRuntimeAssumption
  <2>2. c \in Callback /\ c.cron = cron /\ c.step = 1 /\ ~c.failed
    <3>1. NoCallback \in Callback /\ NoCallback.step = 1 /\ ~NoCallback.failed
      BY EmptyRecords DEF NoCallback
    <3>2. QED
      BY <3>1, <2>1 DEF Callback
  <2>3. 1 \in 1..Len(Program(cron))
    BY <2>1, ProgramSteps
  <2>4. Set(s, c) /\ UNCHANGED <<run, inFlight>> /\ callback[s].pc # "waiting"
    BY <1>1 DEF Fire
  <2> HIDE DEF c
  <2>5. QED
    BY <2>1, <2>2, <2>3, <2>4, SetKeeps
<1>2. ASSUME NEW s \in Callbacks, ReadSafeBlock(s) PROVE Promises'
  <2> DEFINE c == [callback[s] EXCEPT !.pc = "call"]
  <2>1. callback[s] \in Callback /\ callback[s].pc = "block"
    BY <1>2 DEF Promises, Shape, ReadSafeBlock
  <2>2. c \in Callback /\ c.cron = callback[s].cron /\ c.step = callback[s].step /\ c.pc = "call"
        /\ (c.failed <=> callback[s].failed)
    BY <2>1 DEF Callback
  <2>3. Set(s, c) /\ UNCHANGED <<run, inFlight>>
    BY <1>2 DEF ReadSafeBlock
  <2> HIDE DEF c
  <2>4. /\ callback[s].cron \in AllCrons /\ callback[s].step \in 1..Len(Program(callback[s].cron))
        /\ ~callback[s].failed
    BY <2>1 DEF Promises, CallbackOK
  <2>5. QED
    BY <2>1, <2>2, <2>3, <2>4, SetKeeps
<1>3. ASSUME NEW s \in Callbacks, ReadSafeBlockFails(s) PROVE Promises'
  BY <1>3, FinishKeeps DEF ReadSafeBlockFails, Finish
<1>4. ASSUME NEW s \in Callbacks, Call(s) PROVE Promises'
  <2>1. CASE Start(s)
    BY <1>4, <2>1, StartKeeps DEF Call
  <2>2. CASE Join(s)
    <3> DEFINE c == [callback[s] EXCEPT !.pc = "waiting", !.on = inFlight[KeyOf(s)]]
    <3>1. callback[s] \in Callback /\ callback[s].pc = "call"
      BY <1>4 DEF Promises, Shape, Call
    <3>2. KeyOf(s) \in Keys
      BY <3>1, ProgramSteps DEF Promises, CallbackOK, KeyOf
    <3>3. inFlight[KeyOf(s)] \in 0..MaxCallbacks
      BY <3>2 DEF Promises, Shape
    <3>4. c \in Callback /\ c.cron = callback[s].cron /\ c.step = callback[s].step
          /\ (c.failed <=> callback[s].failed)
      BY <3>1, <3>3 DEF Callback
    <3>5. Set(s, c) /\ UNCHANGED <<run, inFlight>>
      BY <2>2 DEF Join
    <3> HIDE DEF c
    <3>6. /\ callback[s].cron \in AllCrons /\ callback[s].step \in 1..Len(Program(callback[s].cron))
          /\ ~callback[s].failed
      BY <3>1 DEF Promises, CallbackOK
    <3>7. QED
      BY <3>1, <3>4, <3>5, <3>6, SetKeeps
  <2>3. QED
    BY <1>4, <2>1, <2>2 DEF Call
<1>5. ASSUME NEW s \in Callbacks, Resume(s) PROVE Promises'
  <2>1. callback[s] \in Callback /\ callback[s].pc = "resumed" /\ UNCHANGED <<run, inFlight>>
    BY <1>5 DEF Promises, Shape, Resume
  <2>2. CASE callback[s].step < Len(Program(callback[s].cron))
    <3> DEFINE c == [callback[s] EXCEPT !.pc = "call", !.step = @ + 1]
    <3>1. /\ callback[s].cron \in AllCrons /\ callback[s].step \in 1..Len(Program(callback[s].cron))
          /\ ~callback[s].failed
      BY <1>5, <2>1 DEF Promises, CallbackOK, Resume
    <3>2. Len(Program(callback[s].cron)) \in 1..3
      BY <3>1, ProgramSteps
    <3>3. callback[s].step + 1 \in 1..3 /\ callback[s].step + 1 \in 1..Len(Program(callback[s].cron))
      <4> DEFINE n == Len(Program(callback[s].cron))
                 k == callback[s].step
      <4>1. n \in 1..3 /\ k \in 1..n /\ k < n
        BY <2>2, <3>1, <3>2
      <4> HIDE DEF n, k
      <4>2. k + 1 \in 1..3 /\ k + 1 \in 1..n
        BY <4>1, SMT
      <4>3. QED
        BY <4>2 DEF n, k
    <3>4. c \in Callback /\ c.cron = callback[s].cron /\ c.step = callback[s].step + 1
          /\ (c.failed <=> callback[s].failed)
      BY <2>1, <3>3 DEF Callback
    <3>5. Set(s, c)
      BY <1>5, <2>2 DEF Resume
    <3> HIDE DEF c
    <3>6. QED
      BY <2>1, <3>1, <3>3, <3>4, <3>5, SetKeeps
  <2>3. CASE ~(callback[s].step < Len(Program(callback[s].cron)))
    BY <1>5, <2>1, <2>3, FinishKeeps DEF Resume, Finish
  <2>4. QED
    BY <2>2, <2>3
<1>6. ASSUME NEW s \in Callbacks, Catch(s) PROVE Promises'
  BY <1>6, FinishKeeps DEF Catch, Finish
<1>7. ASSUME NEW s \in Callbacks, UnhandledRejection(s) PROVE Promises'
  BY <1>7, DieKeeps DEF UnhandledRejection
<1>8. ASSUME NEW s \in Callbacks, RunBegins(s) \/ RunSucceeds(s) \/ RunFails(s) \/ RunHangs(s)
      PROVE  Promises'
  <2>1. run[s] \in Run
    BY DEF Promises, Shape
  <2>2. PICK phase \in {"running", "ended", "hung"}, failed \in BOOLEAN :
          run' = [run EXCEPT ![s] = [run[s] EXCEPT !.phase = phase, !.failed = failed]]
    <3>1. run[s].failed \in BOOLEAN /\ TRUE \in BOOLEAN
      BY <2>1, Zenon DEF Run
    <3>2. \A p \in STRING :
            [run[s] EXCEPT !.phase = p] = [run[s] EXCEPT !.phase = p, !.failed = run[s].failed]
      BY <2>1 DEF Run
    <3>3. CASE RunBegins(s)
      <4>1. run' = [run EXCEPT ![s] = [run[s] EXCEPT !.phase = "running", !.failed = run[s].failed]]
        BY <3>2, <3>3 DEF RunBegins, RunTo
      <4>2. QED
        BY <4>1, <3>1
    <3>4. CASE RunSucceeds(s)
      <4>1. run' = [run EXCEPT ![s] = [run[s] EXCEPT !.phase = "ended", !.failed = run[s].failed]]
        BY <3>2, <3>4 DEF RunSucceeds, RunTo
      <4>2. QED
        BY <4>1, <3>1
    <3>5. CASE RunFails(s)
      <4>1. run' = [run EXCEPT ![s] = [run[s] EXCEPT !.phase = "ended", !.failed = TRUE]]
        BY <3>5, Zenon DEF RunFails, RunTo
      <4>2. QED
        BY <4>1, <3>1
    <3>6. CASE RunHangs(s)
      <4>1. run' = [run EXCEPT ![s] = [run[s] EXCEPT !.phase = "hung", !.failed = run[s].failed]]
        BY <3>2, <3>6 DEF RunHangs, RunTo
      <4>2. QED
        BY <4>1, <3>1
    <3>7. QED
      BY <1>8, <3>3, <3>4, <3>5, <3>6
  <2> DEFINE r == [run[s] EXCEPT !.phase = phase, !.failed = failed]
  <2>3. r \in Run /\ r.phase # "none" /\ r.key = run[s].key
    BY <2>1 DEF Run
  <2>4. run[s].phase # "none" /\ UNCHANGED <<callback, inFlight>>
    BY <1>8 DEF RunBegins, RunSucceeds, RunFails, RunHangs, RunTo
  <2>5. run' = [run EXCEPT ![s] = r]
    BY <2>2
  <2> HIDE DEF r
  <2>6. QED
    BY <2>3, <2>4, <2>5, RunKeeps
<1>9. ASSUME NEW s \in Callbacks, Cleanup(s) PROVE Promises'
  BY <1>9, CleanupKeeps
<1>10. CASE Killed
  BY <1>10, DieKeeps DEF Killed
<1>11. CASE Restart
  BY <1>11 DEF Restart, Promises, Shape, CallbackOK, RunOK, KeysAreFreed
<1>12. QED
  BY <1>1, <1>2, <1>3, <1>4, <1>5, <1>6, <1>7, <1>8, <1>9, <1>10, <1>11
     DEF Next, CallbackStep, RunStep

\* The scheduler's registry, the delay of the backfill and the counters.
Control ==
  /\ backfill \in {"registered", "deleted", "completed"}
  /\ delay \in 0..MaxDelay
  /\ failures \in 0..MaxFailures /\ hangs \in 0..MaxHangs /\ deaths \in 0..MaxDeaths

\* The delay doubles up to its cap.
LEMMA FinishControl ==
  ASSUME Control, NEW s \in Callbacks, NEW failed \in BOOLEAN, Finish(s, failed)
  PROVE  backfill' \in {"registered", "deleted", "completed"} /\ delay' \in 0..MaxDelay
<1>1. CASE callback[s].cron = "backfill"
  BY <1>1, JobRuntimeAssumption DEF Control, Finish, Reschedule
<1>2. CASE callback[s].cron # "backfill"
  BY <1>2 DEF Control, Finish
<1>3. QED
  BY <1>1, <1>2

\* Every step keeps the counters, the delay and the state of the backfill in their ranges.
LEMMA NextControl == ASSUME Control, Next PROVE Control'
<1> USE JobRuntimeAssumption DEF Control
<1>1. ASSUME NEW s \in Callbacks, NEW cron \in Crons, Fire(s, cron) PROVE Control'
  BY <1>1 DEF Fire
<1>2. ASSUME NEW s \in Callbacks, ReadSafeBlock(s) \/ Call(s) PROVE Control'
  BY <1>2 DEF ReadSafeBlock, Call
<1>3. ASSUME NEW s \in Callbacks, ReadSafeBlockFails(s) PROVE Control'
  <2>1. TRUE \in BOOLEAN /\ Finish(s, TRUE)
    BY <1>3, Zenon DEF ReadSafeBlockFails
  <2>2. backfill' \in {"registered", "deleted", "completed"} /\ delay' \in 0..MaxDelay
    BY <2>1, FinishControl
  <2>3. QED
    BY <1>3, <2>2 DEF ReadSafeBlockFails, Fault
<1>4. ASSUME NEW s \in Callbacks, Resume(s) \/ Catch(s) PROVE Control'
  <2>1. backfill' \in {"registered", "deleted", "completed"} /\ delay' \in 0..MaxDelay
    <3>1. CASE Finish(s, TRUE)
      BY <3>1, FinishControl
    <3>2. CASE Finish(s, FALSE)
      BY <3>2, FinishControl
    <3>3. CASE UNCHANGED <<backfill, delay>>
      BY <3>3
    <3>4. QED
      BY <1>4, <3>1, <3>2, <3>3, Zenon DEF Resume, Catch
  <2>2. QED
    BY <1>4, <2>1 DEF Resume, Catch
<1>5. ASSUME NEW s \in Callbacks, UnhandledRejection(s) PROVE Control'
  BY <1>5 DEF UnhandledRejection, Die
<1>6. ASSUME NEW s \in Callbacks, RunBegins(s) \/ RunSucceeds(s) \/ RunFails(s) \/ RunHangs(s)
      PROVE  Control'
  BY <1>6 DEF RunBegins, RunSucceeds, RunFails, RunHangs, RunTo, Fault
<1>7. ASSUME NEW s \in Callbacks, Cleanup(s) PROVE Control'
  BY <1>7 DEF Cleanup
<1>8. CASE Killed \/ Restart
  BY <1>8 DEF Killed, Restart, Die
<1>9. QED
  BY <1>1, <1>2, <1>3, <1>4, <1>5, <1>6, <1>7, <1>8 DEF Next, CallbackStep, RunStep

\* alive and coldDone stay Boolean.
LEMMA NextFlags ==
  ASSUME alive \in BOOLEAN, coldDone \in BOOLEAN, Next
  PROVE  alive' \in BOOLEAN /\ coldDone' \in BOOLEAN
<1>1. ASSUME NEW s \in Callbacks, NEW cron \in Crons, Fire(s, cron)
      PROVE  alive' \in BOOLEAN /\ coldDone' \in BOOLEAN
  BY <1>1, Zenon DEF Fire
<1>2. ASSUME NEW s \in Callbacks, CallbackStep(s)
      PROVE  alive' \in BOOLEAN /\ coldDone' \in BOOLEAN
  BY <1>2, Zenon DEF CallbackStep, ReadSafeBlock, ReadSafeBlockFails, Call, Resume, Catch,
                     UnhandledRejection, Die
<1>3. ASSUME NEW s \in Callbacks, RunStep(s)
      PROVE  alive' \in BOOLEAN /\ coldDone' \in BOOLEAN
  BY <1>3, Zenon DEF RunStep, RunBegins, RunSucceeds, RunFails, RunHangs, RunTo, Cleanup
<1>4. CASE Killed \/ Restart
  BY <1>4, Zenon DEF Killed, Restart, Die
<1>5. QED
  BY <1>1, <1>2, <1>3, <1>4 DEF Next

\* The invariant is inductive.
LEMMA NextIInv == IInv /\ [Next]_vars => IInv'
<1>1. SUFFICES ASSUME IInv, [Next]_vars PROVE IInv'
  OBVIOUS
<1>2. IInv <=> Promises /\ Control /\ alive \in BOOLEAN /\ coldDone \in BOOLEAN
  BY Zenon DEF IInv, TypeOK, Promises, Shape, Control
<1>3. IInv' <=> Promises' /\ Control' /\ alive' \in BOOLEAN /\ coldDone' \in BOOLEAN
  BY Zenon DEF IInv, TypeOK, Promises, Shape, Control, CallbackOK, RunOK, KeysAreFreed
<1>4. CASE Next
  BY <1>1, <1>2, <1>3, <1>4, NextPromises, NextControl, NextFlags
<1>5. CASE UNCHANGED vars
  BY <1>1, <1>5, Zenon DEF vars, IInv, TypeOK, CallbackOK, RunOK, KeysAreFreed
<1>6. QED
  BY <1>1, <1>4, <1>5

\* The specification keeps the invariant; fairness is not needed.
THEOREM JobInvariance == Spec => []IInv
BY InitIInv, NextIInv, PTL DEF Spec

\* Types of the worker's callbacks, runs and single-flight map, for every choice of crons.
THEOREM JobTypeCorrect == Spec => []TypeOK
<1>1. IInv => TypeOK
  BY DEF IInv
<1>2. QED
  BY <1>1, JobInvariance, PTL

\* No key of SingleFlight stays taken after its run has settled.
THEOREM KeysAreFreedAgain == Spec => []KeysAreFreed
<1>1. IInv => KeysAreFreed
  BY DEF IInv
<1>2. QED
  BY <1>1, JobInvariance, PTL

-----------------------------------------------------------------------------
\* A failed run is reported to the callback that started it and to nobody else.
LEMMA CleanupReports ==
  ASSUME IInv, NEW s \in Callbacks, Cleanup(s), run[s].failed, NEW t \in Callbacks
  PROVE  (callback'[t].failed /\ ~callback[t].failed) <=> t = s
<1>1. /\ callback[s].pc = "waiting" /\ callback[s].on = s
      /\ callback[t] \in Callback
      /\ callback[t].failed => callback[t].pc = "resumed"
  <2>1. run[s].phase # "none"
    BY DEF Cleanup
  <2>2. QED
    BY <2>1, Zenon DEF IInv, TypeOK, RunOK, CallbackOK
<1>2. callback'[t] = IF callback[t].pc = "waiting" /\ callback[t].on = s
                     THEN [callback[t] EXCEPT !.pc = "resumed", !.on = 0, !.failed = Rejects(s, t)]
                     ELSE callback[t]
  BY Zenon DEF Cleanup
<1>3. CASE callback[t].pc = "waiting" /\ callback[t].on = s
  <2>1. callback'[t].failed <=> Rejects(s, t)
    <3>1. ASSUME NEW b PROVE [callback[t] EXCEPT !.pc = "resumed", !.on = 0, !.failed = b].failed = b
      BY <1>1, SMT DEF Callback
    <3>2. callback'[t].failed = Rejects(s, t)
      BY <1>2, <1>3, <3>1, Zenon
    <3>3. QED
      BY <3>2, Zenon
  <2>2. Rejects(s, t) <=> t = s
    BY Zenon DEF Rejects
  <2>3. ~callback[t].failed
    <3>1. callback[t].pc # "resumed"
      BY <1>3
    <3>2. QED
      BY <1>1, <3>1, Zenon
  <2>4. QED
    BY <2>1, <2>2, <2>3, Zenon
<1>4. CASE ~(callback[t].pc = "waiting" /\ callback[t].on = s)
  BY <1>1, <1>2, <1>4, Zenon
<1>5. QED
  BY <1>3, <1>4

\* Of all who wait for a failed run, only the callback that started it gets the rejection.
THEOREM FailuresAreReportedOnce == Spec => FailureReportedOnce
<1>1. IInv /\ [Next]_vars =>
        [\A s \in Callbacks : Cleanup(s) /\ run[s].failed =>
           \A t \in Callbacks : callback'[t].failed /\ ~callback[t].failed <=> t = s]_vars
  BY CleanupReports, Zenon
<1>2. QED
  BY <1>1, JobInvariance, PTL DEF Spec, FailureReportedOnce

-----------------------------------------------------------------------------
\* The runs under way, as ExclusiveRuns sees them.
Live == {t \in Callbacks : run[t].phase \in {"running", "hung"}}
Running == {<<s, run[s].key>> : s \in Live}

\* Two runs under way have different keys.
LEMMA LiveKeysDiffer ==
  ASSUME IInv, NEW s \in Callbacks, NEW t \in Callbacks,
         run[s].phase # "none", run[t].phase # "none", run[s].key = run[t].key
  PROVE  s = t
<1>1. inFlight[run[s].key] = s /\ inFlight[run[t].key] = t
  BY DEF IInv, RunOK
<1>2. QED
  BY <1>1

\* A step that leaves the runs under way alone is a stutter of ExclusiveRuns.
LEMMA SameRunning ==
  ASSUME Live' = Live, \A t \in Live : run'[t].key = run[t].key
  PROVE  Running' = Running
BY DEF Running

\* A run that begins is added to the runs under way, one that ends is taken out, and one
\* that hangs stays.
LEMMA RunStepRefines ==
  ASSUME IInv, NEW s \in Callbacks, NEW r \in Run, run[s].phase # "none",
         run' = [run EXCEPT ![s] = r], r.key = run[s].key
  PROVE  /\ run[s].phase = "scheduled" /\ r.phase = "running" =>
              /\ \A d \in Callbacks : <<d, run[s].key>> \notin Running
              /\ Running' = Running \cup {<<s, run[s].key>>}
         /\ run[s].phase = "running" /\ r.phase = "ended" =>
              /\ <<s, run[s].key>> \in Running
              /\ Running' = Running \ {<<s, run[s].key>>}
         /\ run[s].phase = "running" /\ r.phase = "hung" => Running' = Running
<1>1. /\ run \in [Callbacks -> Run]
      /\ run'[s] = r /\ \A t \in Callbacks : t # s => run'[t] = run[t]
  BY DEF IInv, TypeOK
<1>2. \A d \in Callbacks : <<d, run[s].key>> \in Running => d = s
  <2>1. SUFFICES ASSUME NEW d \in Callbacks, <<d, run[s].key>> \in Running PROVE d = s
    OBVIOUS
  <2>2. d \in Live /\ run[d].key = run[s].key
    BY <2>1 DEF Running
  <2>3. run[d].phase # "none"
    BY <2>2 DEF Live
  <2>4. QED
    BY <2>2, <2>3, LiveKeysDiffer
<1>3. CASE run[s].phase = "scheduled" /\ r.phase = "running"
  <2>1. s \notin Live /\ Live' = Live \cup {s}
    BY <1>1, <1>3 DEF Live
  <2>2. \A d \in Callbacks : <<d, run[s].key>> \notin Running
    <3>1. <<s, run[s].key>> \notin Running
      BY <2>1 DEF Running
    <3>2. QED
      BY <1>2, <3>1, Zenon
  <2>3. Running' = Running \cup {<<s, run[s].key>>}
    BY <1>1, <2>1 DEF Running, Live
  <2>4. QED
    BY <1>3, <2>2, <2>3
<1>4. CASE run[s].phase = "running" /\ r.phase = "ended"
  <2>1. s \in Live /\ Live' = Live \ {s}
    BY <1>1, <1>4 DEF Live
  <2>2. <<s, run[s].key>> \in Running
    BY <2>1 DEF Running
  <2>3. Running' = Running \ {<<s, run[s].key>>}
    BY <1>1, <2>1 DEF Running, Live
  <2>4. QED
    BY <1>4, <2>2, <2>3
<1>5. CASE run[s].phase = "running" /\ r.phase = "hung"
  <2>1. Live' = Live
    BY <1>1, <1>5 DEF Live
  <2>2. \A t \in Live : run'[t].key = run[t].key
    BY <1>1 DEF Live
  <2>3. QED
    BY <1>5, <2>1, <2>2, SameRunning
<1>6. QED
  BY <1>3, <1>4, <1>5

\* Every step of the worker begins a run, ends one, ends all or none.
LEMMA NextRefines ==
  ASSUME IInv, Next
  PROVE  \/ Running' = Running
         \/ Running' = {}
         \/ \E c \in Callbacks, k \in Keys :
              \/ /\ \A d \in Callbacks : <<d, k>> \notin Running
                 /\ Running' = Running \cup {<<c, k>>}
              \/ <<c, k>> \in Running /\ Running' = Running \ {<<c, k>>}
<1> DEFINE Goal ==
      \/ Running' = Running
      \/ Running' = {}
      \/ \E c \in Callbacks, k \in Keys :
           \/ /\ \A d \in Callbacks : <<d, k>> \notin Running
              /\ Running' = Running \cup {<<c, k>>}
           \/ <<c, k>> \in Running /\ Running' = Running \ {<<c, k>>}
<1>1. CASE UNCHANGED run
  BY <1>1 DEF Running, Live
<1>2. CASE Die
  <2>1. Live' = {}
    BY <1>2 DEF Die, Live, NoRun
  <2>2. QED
    BY <2>1 DEF Running
<1>3. ASSUME NEW s \in Callbacks, callback[s].pc = "call", Start(s) PROVE Goal
  <2>1. run[s].phase = "none" /\ run \in [Callbacks -> Run]
    BY <1>3 DEF IInv, RunOK, TypeOK
  <2>2. run' = [run EXCEPT ![s] = [NoRun EXCEPT !.phase = "scheduled", !.key = KeyOf(s)]]
    BY <1>3 DEF Start
  <2>3. [NoRun EXCEPT !.phase = "scheduled", !.key = KeyOf(s)].phase = "scheduled"
    BY DEF NoRun
  <2>4. Live' = Live /\ s \notin Live /\ \A t \in Callbacks : t # s => run'[t] = run[t]
    BY <2>1, <2>2, <2>3 DEF Live
  <2>5. \A t \in Live : run'[t].key = run[t].key
    BY <2>4 DEF Live
  <2>6. QED
    BY <2>4, <2>5, SameRunning
<1>4. ASSUME NEW s \in Callbacks, Cleanup(s) PROVE Goal
  <2>1. run[s].phase = "ended" /\ run' = [run EXCEPT ![s] = NoRun] /\ run \in [Callbacks -> Run]
    BY <1>4 DEF Cleanup, IInv, TypeOK
  <2>2. Live' = Live /\ s \notin Live /\ \A t \in Callbacks : t # s => run'[t] = run[t]
    BY <2>1 DEF Live, NoRun
  <2>3. \A t \in Live : run'[t].key = run[t].key
    BY <2>2 DEF Live
  <2>4. QED
    BY <2>2, <2>3, SameRunning
<1>5. ASSUME NEW s \in Callbacks, RunBegins(s) \/ RunSucceeds(s) \/ RunFails(s) \/ RunHangs(s)
      PROVE  Goal
  <2>1. run[s] \in Run /\ run[s].phase # "none"
    BY <1>5 DEF IInv, TypeOK, RunBegins, RunSucceeds, RunFails, RunHangs, RunTo
  <2>2. run[s].key \in Keys
    BY <2>1 DEF IInv, RunOK
  <2>3. CASE RunBegins(s)
    <3> DEFINE r == [run[s] EXCEPT !.phase = "running"]
    <3>1. r \in Run /\ r.phase = "running" /\ r.key = run[s].key
      BY <2>1 DEF Run
    <3>2. run[s].phase = "scheduled" /\ run' = [run EXCEPT ![s] = r]
      BY <2>3 DEF RunBegins, RunTo
    <3> HIDE DEF r
    <3>3. QED
      BY <2>1, <2>2, <3>1, <3>2, RunStepRefines
  <2>4. CASE RunSucceeds(s)
    <3> DEFINE r == [run[s] EXCEPT !.phase = "ended"]
    <3>1. r \in Run /\ r.phase = "ended" /\ r.key = run[s].key
      BY <2>1 DEF Run
    <3>2. run[s].phase = "running" /\ run' = [run EXCEPT ![s] = r]
      BY <2>4 DEF RunSucceeds, RunTo
    <3> HIDE DEF r
    <3>3. QED
      BY <2>1, <2>2, <3>1, <3>2, RunStepRefines
  <2>5. CASE RunFails(s)
    <3> DEFINE r == [run[s] EXCEPT !.phase = "ended", !.failed = TRUE]
    <3>1. r \in Run /\ r.phase = "ended" /\ r.key = run[s].key
      BY <2>1 DEF Run
    <3>2. run[s].phase = "running" /\ run' = [run EXCEPT ![s] = r]
      BY <2>5 DEF RunFails, RunTo
    <3> HIDE DEF r
    <3>3. QED
      BY <2>1, <2>2, <3>1, <3>2, RunStepRefines
  <2>6. CASE RunHangs(s)
    <3> DEFINE r == [run[s] EXCEPT !.phase = "hung"]
    <3>1. r \in Run /\ r.phase = "hung" /\ r.key = run[s].key
      BY <2>1 DEF Run
    <3>2. run[s].phase = "running" /\ run' = [run EXCEPT ![s] = r]
      BY <2>6 DEF RunHangs, RunTo
    <3> HIDE DEF r
    <3>3. QED
      BY <2>1, <2>2, <3>1, <3>2, RunStepRefines
  <2>7. QED
    BY <1>5, <2>3, <2>4, <2>5, <2>6
<1> HIDE DEF Goal
<1>6. ASSUME NEW s \in Callbacks, CallbackStep(s) PROVE Goal
  <2>1. CASE Call(s)
    <3>1. CASE Start(s)
      BY <2>1, <3>1, <1>3 DEF Call
    <3>2. CASE Join(s)
      BY <3>2, <1>1 DEF Join, Goal
    <3>3. QED
      BY <2>1, <3>1, <3>2 DEF Call
  <2>2. CASE UnhandledRejection(s)
    BY <2>2, <1>2 DEF UnhandledRejection, Goal
  <2>3. CASE ReadSafeBlock(s) \/ ReadSafeBlockFails(s) \/ Resume(s) \/ Catch(s)
    BY <2>3, <1>1 DEF ReadSafeBlock, ReadSafeBlockFails, Resume, Catch, Goal
  <2>4. QED
    BY <1>6, <2>1, <2>2, <2>3 DEF CallbackStep
<1>7. ASSUME NEW s \in Callbacks, RunStep(s) PROVE Goal
  BY <1>7, <1>4, <1>5 DEF RunStep
<1>8. ASSUME NEW s \in Callbacks, NEW cron \in Crons, Fire(s, cron) PROVE Goal
  BY <1>8, <1>1 DEF Fire, Goal
<1>9. ASSUME Killed \/ Restart PROVE Goal
  <2>1. CASE Killed
    BY <2>1, <1>2 DEF Killed, Goal
  <2>2. CASE Restart
    BY <2>2, <1>1 DEF Restart, Goal
  <2>3. QED
    BY <1>9, <2>1, <2>2
<1>10. Goal
  <2>1. CASE \E s \in Callbacks, cron \in Crons : Fire(s, cron)
    BY <2>1, <1>8
  <2>2. CASE \E s \in Callbacks : CallbackStep(s) \/ RunStep(s)
    BY <2>2, <1>6, <1>7
  <2>3. QED
    BY <1>9, <2>1, <2>2 DEF Next
<1>11. QED
  BY <1>10 DEF Goal

\* SingleFlight keeps its promise: of the runs of one key at most one is under way, however
\* callbacks overlap, runs fail or hang and the worker dies.
THEOREM JobRuntimeImplementsExclusiveRuns == Spec => ImplementsExclusiveRuns
<1>1. Init => Runs!Init
  <2>1. SUFFICES ASSUME Init PROVE Running = {}
    BY DEF Runs!Init, Running, Live
  <2>2. Live = {}
    BY <2>1 DEF Init, Boot, Live, NoRun
  <2>3. QED
    BY <2>2 DEF Running
<1>2. IInv /\ [Next]_vars => [Runs!Next]_Running
  <2>1. SUFFICES ASSUME IInv, [Next]_vars PROVE [Runs!Next]_Running
    OBVIOUS
  <2>2. CASE Next
    BY <2>1, <2>2, NextRefines DEF Runs!Next, Runs!Crash, Runs!Begin, Runs!End, Running, Live
  <2>3. CASE UNCHANGED vars
    BY <2>3 DEF vars, Running, Live
  <2>4. QED
    BY <2>1, <2>2, <2>3
<1>3. QED
  BY <1>1, <1>2, JobInvariance, PTL DEF Spec, ImplementsExclusiveRuns, Runs!Spec, Running, Live
=============================================================================
