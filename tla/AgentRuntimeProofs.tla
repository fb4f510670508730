------------------------- MODULE AgentRuntimeProofs -------------------------
(* Theorems about one process of the agent: who holds the lock of the     *)
(* sessions, which sessions there are, where the permits of the model     *)
(* calls are, for every list of servers, any number of callers, requests, *)
(* permits and attempts.                                                  *)
EXTENDS AgentRuntime, FiniteSetTheorems, SequenceTheorems, TLAPS

LEMMA Assumed ==
  /\ Main \in Callers /\ Requests \subseteq Callers /\ Main \notin Requests
  /\ Servers \in Seq(Names) /\ \A i, j \in DOMAIN Servers : Servers[i] = Servers[j] => i = j
BY McpAssumption, RuntimeAssumption

\* The steps by what they do to the sessions.
LEMMA StepKinds ==
  ASSUME [Next]_runtimeVars
  PROVE  \/ UNCHANGED mcpVars
         \/ Start \/ Death \/ Shutdown
         \/ \E c \in Callers : McpStep(c)
         \/ \E c \in Callers \ {Main} : CallFactory(c) \/ CancelCaller(c)
BY Assumed DEF Next, StopServing, CallModel, CallTool, Cancel, runtimeVars

-----------------------------------------------------------------------------
(* The callers and the lock *)

\* A caller moves on without the manager's state.
Aside(c, from, to) ==
  /\ step[c] = from /\ step' = [step EXCEPT ![c] = to]
  /\ UNCHANGED <<studio, lock, initialized, sessions, tools, stack, todo, loaded>>

\* Only an answer that is not the last one moves nobody.
LEMMA AsideSteps ==
  ASSUME CallersInv, NEW c \in Callers
  PROVE  /\ Start => ~studio /\ Aside(Main, "idle", "entering")
         /\ CallFactory(c) =>
              /\ studio /\ c # Main
              /\ \E to \in {"checking", "entering"} : Aside(c, "idle", to)
         /\ Hear(c) => Aside(c, "checking", "entering") \/ Aside(c, "checking", "checking")
         /\ Miss(c) => Aside(c, "checking", "resetting")
         /\ CancelCaller(c) /\ c \notin lock =>
              \E from \in {"checking", "resetting", "entering"} : Aside(c, from, "cancelled")
         /\ Initialize(c) =>
              \/ Aside(c, "entering", "returned")
              \/ /\ step[c] = "entering" /\ step' = [step EXCEPT ![c] = "connecting"]
                 /\ lock = {} /\ lock' = {c} /\ todo' = Servers /\ loaded' = {} /\ ~initialized
                 /\ UNCHANGED <<studio, initialized, sessions, tools, stack>>
<1>1. Start => ~studio /\ Aside(Main, "idle", "entering")
  BY DEF Start, Queue, Goto, Aside
<1>2. CallFactory(c) =>
              /\ studio /\ c # Main
              /\ \E to \in {"checking", "entering"} : Aside(c, "idle", to)
  BY DEF CallFactory, Queue, Goto, Aside
<1>3. Hear(c) => Aside(c, "checking", "entering") \/ Aside(c, "checking", "checking")
  <2>1. step[c] = "checking" => step = [step EXCEPT ![c] = "checking"]
    BY DEF CallersInv
  <2>2. QED
    BY <2>1 DEF Hear, Queue, Goto, Aside
<1>4. Miss(c) => Aside(c, "checking", "resetting")
  BY DEF Miss, Queue, Goto, Aside
<1>5. CancelCaller(c) /\ c \notin lock =>
              \E from \in {"checking", "resetting", "entering"} : Aside(c, from, "cancelled")
  <2> SUFFICES ASSUME CancelCaller(c), c \notin lock
               PROVE  \E from \in {"checking", "resetting", "entering"} : Aside(c, from, "cancelled")
    OBVIOUS
  <2>1. step[c] \in {"checking", "resetting", "entering"} /\ lock' = lock
    BY DEF CancelCaller, Released, CallersInv, Holding
  <2>2. step' = [step EXCEPT ![c] = "cancelled"]
        /\ UNCHANGED <<studio, initialized, sessions, tools, stack, todo, loaded>>
    BY <2>1 DEF CancelCaller, Goto
  <2>3. QED
    BY <2>1, <2>2 DEF Aside
<1>6. Initialize(c) =>
              \/ Aside(c, "entering", "returned")
              \/ /\ step[c] = "entering" /\ step' = [step EXCEPT ![c] = "connecting"]
                 /\ lock = {} /\ lock' = {c} /\ todo' = Servers /\ loaded' = {} /\ ~initialized
                 /\ UNCHANGED <<studio, initialized, sessions, tools, stack>>
  BY DEF Initialize, Acquire, AlreadyDone, Goto, Aside
<1>7. QED
  BY <1>1, <1>2, <1>3, <1>4, <1>5, <1>6

\* A step of one caller keeps the bookkeeping of the callers and the lock.
LEMMA CallersMove ==
  ASSUME CallersInv, NEW c \in Callers, NEW to \in Steps,
         step' = [step EXCEPT ![c] = to], studio' = studio,
         studio <=> c # Main, to = "stopped" => c = Main,
         \/ to \notin Holding /\ lock' = lock \ {c}
         \/ to \in Holding /\ lock = {} /\ lock' = {c}
         \/ to \in Holding /\ step[c] \in Holding /\ lock' = lock
  PROVE  CallersInv'
<1>1. step' \in [Callers -> Steps] /\ \A d \in Callers : step'[d] = IF d = c THEN to ELSE step[d]
  BY DEF CallersInv
<1>2. lock' = {d \in Callers : step'[d] \in Holding} /\ \A d, e \in lock' : d = e
  BY <1>1 DEF CallersInv
<1>3. QED
  BY <1>1, <1>2 DEF CallersInv

\* Who acts has started and has not stopped; what the actions of the lock's holder do.
LEMMA HolderSteps ==
  ASSUME CallersInv, NEW c \in Callers
  PROVE  /\ BeginReset(c) =>
              /\ step[c] = "resetting" /\ step' = [step EXCEPT ![c] = "closing"]
              /\ lock = {} /\ lock' = {c}
              /\ UNCHANGED <<studio, initialized, sessions, tools, stack, todo, loaded>>
         /\ CloseSession(c) =>
              /\ step[c] = "closing" /\ step' = step /\ stack' \subseteq stack
              /\ UNCHANGED <<lock, studio, initialized, sessions, tools, todo, loaded>>
         /\ EndReset(c) =>
              /\ step[c] = "closing" /\ step' = [step EXCEPT ![c] = "entering"]
              /\ lock' = lock \ {c} /\ UNCHANGED <<studio, todo, loaded>>
              /\ stack' = {} /\ initialized' = FALSE /\ sessions' = {} /\ tools' = {}
         /\ Connect(c) =>
              /\ step[c] = "connecting" /\ step' = step /\ UNCHANGED <<lock, studio>>
         /\ Finish(c) =>
              /\ step[c] = "connecting" /\ step' = [step EXCEPT ![c] = "returned"]
              /\ lock' = lock \ {c} /\ UNCHANGED <<studio, sessions, stack>>
              /\ tools' = loaded /\ initialized' = TRUE
         /\ CancelCaller(c) /\ c \in lock =>
              /\ step[c] \in Holding /\ step' = [step EXCEPT ![c] = "abandoned"]
              /\ lock' = lock \ {c} /\ UNCHANGED studio
         /\ Shutdown =>
              /\ step[Main] = "returned" /\ step' = [step EXCEPT ![Main] = "stopped"]
              /\ UNCHANGED <<lock, studio, initialized, sessions, tools, todo, loaded>>
              /\ stack' = {}
         /\ Death => UNCHANGED <<step, lock, studio, initialized, sessions, tools, stack, todo, loaded>>
<1>1. BeginReset(c) =>
              /\ step[c] = "resetting" /\ step' = [step EXCEPT ![c] = "closing"]
              /\ lock = {} /\ lock' = {c}
              /\ UNCHANGED <<studio, initialized, sessions, tools, stack, todo, loaded>>
  BY DEF BeginReset, Acquire, Goto
<1>2. EndReset(c) =>
              /\ step[c] = "closing" /\ step' = [step EXCEPT ![c] = "entering"]
              /\ lock' = lock \ {c} /\ UNCHANGED <<studio, todo, loaded>>
              /\ stack' = {} /\ initialized' = FALSE /\ sessions' = {} /\ tools' = {}
  BY DEF EndReset, Cleared, Released, Queue, Goto
<1>9. CloseSession(c) =>
              /\ step[c] = "closing" /\ step' = step /\ stack' \subseteq stack
              /\ UNCHANGED <<lock, studio, initialized, sessions, tools, todo, loaded>>
  BY DEF CloseSession
<1>3. Connect(c) =>
              /\ step[c] = "connecting" /\ step' = step /\ UNCHANGED <<lock, studio>>
  BY DEF Connect
<1>4. Finish(c) =>
              /\ step[c] = "connecting" /\ step' = [step EXCEPT ![c] = "returned"]
              /\ lock' = lock \ {c} /\ UNCHANGED <<studio, sessions, stack>>
              /\ tools' = loaded /\ initialized' = TRUE
  BY DEF Finish, Released, Goto
<1>5. CancelCaller(c) /\ c \in lock =>
              /\ step[c] \in Holding /\ step' = [step EXCEPT ![c] = "abandoned"]
              /\ lock' = lock \ {c} /\ UNCHANGED studio
  BY DEF CancelCaller, Released, Goto, CallersInv
<1>6. Shutdown =>
              /\ step[Main] = "returned" /\ step' = [step EXCEPT ![Main] = "stopped"]
              /\ UNCHANGED <<lock, studio, initialized, sessions, tools, todo, loaded>>
              /\ stack' = {}
  BY DEF Shutdown, Close, Goto
<1>7. Death => UNCHANGED <<step, lock, studio, initialized, sessions, tools, stack, todo, loaded>>
  BY DEF Death
<1>8. QED
  BY <1>1, <1>2, <1>3, <1>4, <1>5, <1>6, <1>7, <1>9

LEMMA AsideKeepsCallers ==
  ASSUME CallersInv, NEW c \in Callers, NEW from \in Steps \ Holding,
         NEW to \in Steps \ (Holding \cup {"stopped"}),
         Aside(c, from, to), studio <=> c # Main
  PROVE  CallersInv'
BY CallersMove DEF Aside, CallersInv

\* One caller at a time opens or closes sessions, also when callers are cancelled.
THEOREM OneHolder == Spec => []CallersInv
<1>1. Init => CallersInv
  BY DEF Init, McpInit, CallersInv, Steps, Holding
<1>2. CallersInv /\ [Next]_runtimeVars => CallersInv'
  <2> SUFFICES ASSUME CallersInv, [Next]_runtimeVars PROVE CallersInv'
    OBVIOUS
  <2> USE Assumed DEF Steps, Holding
  <2>1. CASE UNCHANGED mcpVars
    BY <2>1 DEF mcpVars, CallersInv
  <2>2. CASE Start
    BY <2>2, AsideSteps, AsideKeepsCallers
  <2>3. CASE Death
    BY <2>3 DEF Death, CallersInv
  <2>4. CASE Shutdown
    <3>0. /\ step[Main] = "returned" /\ step' = [step EXCEPT ![Main] = "stopped"]
          /\ studio' = studio /\ lock' = lock
      BY <2>4 DEF Shutdown, Goto
    <3>1. Main \in Callers /\ Main \notin lock /\ (studio <=> Main # Main)
      BY <3>0 DEF CallersInv
    <3>2. step' = [step EXCEPT ![Main] = "stopped"] /\ studio' = studio /\ lock' = lock \ {Main}
      BY ONLY <3>0, <3>1
    <3>3. QED
      BY <3>1, <3>2, CallersMove
  <2>5. ASSUME NEW c \in Callers, McpStep(c) PROVE CallersInv'
    <3>1. step[c] # "idle"
      BY <2>5 DEF McpStep, Hear, Miss, BeginReset, CloseSession, EndReset, Initialize, Connect,
                  Finish
    <3>2. studio <=> c # Main
      BY <3>1 DEF CallersInv
    <3>3. CASE Hear(c)
      BY <3>2, <3>3, AsideSteps, AsideKeepsCallers
    <3>4. CASE Miss(c)
      BY <3>2, <3>4, AsideSteps, AsideKeepsCallers
    <3>5. CASE Initialize(c)
      <4>1. CASE Aside(c, "entering", "returned")
        BY <3>2, <4>1, AsideKeepsCallers
      <4>2. CASE /\ step' = [step EXCEPT ![c] = "connecting"]
                 /\ lock = {} /\ lock' = {c} /\ studio' = studio
        BY <3>2, <4>2, CallersMove
      <4>3. QED
        BY <3>5, <4>1, <4>2, AsideSteps
    <3>6. CASE BeginReset(c)
      BY <3>2, <3>6, HolderSteps, CallersMove
    <3>7. CASE EndReset(c)
      BY <3>2, <3>7, HolderSteps, CallersMove
    <3>8. CASE CloseSession(c) \/ Connect(c)
      <4>1. UNCHANGED <<step, lock, studio>>
        BY <3>8, HolderSteps
      <4>2. QED
        BY <4>1 DEF CallersInv
    <3>9. CASE Finish(c)
      BY <3>2, <3>9, HolderSteps, CallersMove
    <3>10. QED
      BY <2>5, <3>3, <3>4, <3>5, <3>6, <3>7, <3>8, <3>9 DEF McpStep
  <2>6. ASSUME NEW c \in Callers \ {Main}, CallFactory(c) PROVE CallersInv'
    BY <2>6, AsideSteps, AsideKeepsCallers
  <2>7. ASSUME NEW c \in Callers \ {Main}, CancelCaller(c) PROVE CallersInv'
    <3>1. studio <=> c # Main
      BY <2>7 DEF CancelCaller, CallersInv
    <3>2. CASE c \in lock
      BY <2>7, <3>1, <3>2, HolderSteps, CallersMove
    <3>3. CASE c \notin lock
      BY <2>7, <3>1, <3>3, AsideSteps, AsideKeepsCallers
    <3>4. QED
      BY <3>2, <3>3
  <2>8. QED
    BY <2>1, <2>2, <2>3, <2>4, <2>5, <2>6, <2>7, StepKinds
<1>3. QED
  BY <1>1, <1>2, PTL DEF Spec

-----------------------------------------------------------------------------
(* The sessions *)

\* Abandoning the lock is for good, and a stopped process has no other callers.
LEMMA Lasting ==
  ASSUME CallersInv, NEW c \in Callers, step[c] \notin {"idle", "stopped", "abandoned"}
  PROVE  /\ step[Main] # "stopped"
         /\ \A to : step' = [step EXCEPT ![c] = to] /\ ~Abandoned' => ~Abandoned
<1>1. step[Main] # "stopped"
  BY Assumed DEF CallersInv
<1>2. ASSUME NEW to, step' = [step EXCEPT ![c] = to], Abandoned PROVE Abandoned'
  <2>1. PICK d \in Callers : step[d] = "abandoned"
    BY <1>2 DEF Abandoned
  <2>2. step'[d] = "abandoned"
    BY <1>2, <2>1 DEF CallersInv
  <2>3. QED
    BY <2>2 DEF Abandoned
<1>3. QED
  BY <1>1, <1>2

LEMMA AsideKeepsSessions ==
  ASSUME CallersInv, ManagerInv, NEW c \in Callers,
         NEW from \in {"idle", "checking", "resetting", "entering"},
         NEW to \in {"checking", "resetting", "entering", "returned", "cancelled"},
         Aside(c, from, to)
  PROVE  ManagerInv'
<1>1. /\ step' = [step EXCEPT ![c] = to] /\ step[c] = from
      /\ UNCHANGED <<lock, initialized, sessions, tools, stack, todo, loaded>>
  BY DEF Aside
<1>2. \A d \in Callers : /\ step'[d] = "connecting" => step[d] = "connecting"
                         /\ step'[d] = "stopped" <=> step[d] = "stopped"
                         /\ step[d] = "abandoned" => step'[d] = "abandoned"
                         /\ step[d] = "closing" => step'[d] = "closing"
  BY <1>1 DEF CallersInv
<1>3. (Abandoned => Abandoned') /\ (Closing => Closing')
  BY <1>2 DEF Abandoned, Closing
<1>4. QED
  BY <1>1, <1>2, <1>3, Assumed DEF ManagerInv, OneSessionPerServer, Opening

\* Nobody else opens sessions while the lock is held or free.
LEMMA OneOpens ==
  ASSUME CallersInv, NEW c \in Callers, c \in lock \/ lock = {}, NEW to \in Steps \ {"connecting"},
         step' = [step EXCEPT ![c] = to]
  PROVE  \A d \in Callers : step'[d] # "connecting"
BY DEF CallersInv, Holding

LEMMA NobodyCloses ==
  ASSUME CallersInv, NEW c \in Callers, step[c] = "connecting" \/ lock = {}
  PROVE  ~Closing
BY DEF CallersInv, Holding, Closing

LEMMA ConnectStep ==
  ASSUME CallersInv, ManagerInv, NEW c \in Callers, Connect(c)
  PROVE  ManagerInv'
<1> SUFFICES ASSUME ~Abandoned' PROVE ManagerInv'
  BY DEF ManagerInv
<1>1. /\ step[c] = "connecting" /\ todo # <<>> /\ todo' = Tail(todo)
      /\ UNCHANGED <<step, lock, initialized, tools>>
  BY DEF Connect
<1>2. ~Abandoned /\ step[Main] # "stopped"
  BY <1>1, Lasting DEF Abandoned
<1>3. /\ Opening /\ OneSessionPerServer /\ sessions \subseteq stack
  BY <1>1, <1>2, NobodyCloses DEF ManagerInv
<1>4. PICK s : /\ s.server = todo[1]
               /\ \/ UNCHANGED <<stack, sessions, loaded>>
                  \/ /\ stack' = stack \cup {s}
                     /\ \/ UNCHANGED <<sessions, loaded>>
                        \/ /\ sessions' = {x \in sessions : x.server # s.server} \cup {s}
                           /\ loaded' = loaded \cup {s} \/ loaded' = loaded
  <2>1. Head(todo) = todo[1]
    BY <1>1, <1>3 DEF Opening
  <2>2. [server |-> Head(todo), nr |-> opened + 1].server = todo[1]
    BY <2>1
  <2>3. QED
    BY <2>2 DEF Connect
<1>5. /\ DOMAIN todo = 1..Len(todo) /\ 1 \in DOMAIN todo /\ todo' \in Seq(Names)
      /\ \A i \in DOMAIN todo' : i + 1 \in DOMAIN todo /\ todo'[i] = todo[i + 1] /\ i + 1 # 1
      /\ \A i, j \in DOMAIN todo' : i + 1 = j + 1 => i = j
  BY <1>1, <1>3 DEF Opening
<1>6. /\ \A x \in stack : x.server # s.server
      /\ \A i \in DOMAIN todo' : todo'[i] # s.server
      /\ \A x \in stack, i \in DOMAIN todo' : x.server # todo'[i]
      /\ \A i, j \in DOMAIN todo' : todo'[i] = todo'[j] => i = j
  BY <1>3, <1>4, <1>5 DEF Opening
<1>7. stack' \in {stack, stack \cup {s}} /\ sessions' \subseteq stack' /\ loaded' \subseteq sessions'
  <2>1. sessions = {x \in sessions : x.server # s.server}
    BY <1>3, <1>6
  <2>2. loaded \subseteq sessions
    BY <1>3 DEF Opening
  <2>3. QED
    BY <1>3, <1>4, <2>1, <2>2
<1>8. \A x, y \in stack' : x.server = y.server => x = y
  BY <1>2, <1>3, <1>6, <1>7 DEF OneSessionPerServer
<1>9. Opening'
  BY <1>1, <1>3, <1>5, <1>6, <1>7 DEF Opening
<1>10. tools' = {} /\ lock' # {} /\ step'[Main] # "stopped"
  BY <1>1, <1>2, <1>3 DEF Opening, CallersInv, Holding
<1>11. QED
  BY <1>7, <1>8, <1>9, <1>10 DEF ManagerInv, OneSessionPerServer

\* Sessions are opened by one caller, on an empty stack, each server's once, and
\* taken back together; only who is cancelled under the lock leaves a mixture.
THEOREM SessionsManaged == Spec => []ManagerInv
<1>1. Init => ManagerInv
  BY Assumed DEF Init, McpInit, ManagerInv, OneSessionPerServer
<1>2. CallersInv /\ ManagerInv /\ [Next]_runtimeVars => ManagerInv'
  <2> SUFFICES ASSUME CallersInv, ManagerInv, [Next]_runtimeVars PROVE ManagerInv'
    OBVIOUS
  <2> USE Assumed
  <2>1. CASE UNCHANGED mcpVars \/ Death
    <3>1. UNCHANGED <<step, lock, initialized, sessions, tools, stack, todo, loaded>>
      BY <2>1 DEF mcpVars, Death
    <3>2. QED
      BY <3>1 DEF ManagerInv, OneSessionPerServer, Abandoned, Opening, Closing
  <2>2. CASE Start
    BY <2>2, AsideSteps, AsideKeepsSessions
  <2>3. CASE Shutdown
    <3>1. /\ step[Main] = "returned" /\ step' = [step EXCEPT ![Main] = "stopped"]
          /\ UNCHANGED <<lock, initialized, sessions, tools, todo, loaded>> /\ stack' = {}
      BY <2>3, HolderSteps
    <3>2. step'[Main] = "stopped" /\ (~Abandoned' => ~Abandoned)
      BY <3>1, Lasting DEF CallersInv
    <3>3. \A d \in Callers : step'[d] = "connecting" => step[d] = "connecting"
      BY <3>1 DEF CallersInv
    <3>4. QED
      BY <3>1, <3>2, <3>3 DEF ManagerInv, OneSessionPerServer, Opening
  <2>4. ASSUME NEW c \in Callers, McpStep(c) PROVE ManagerInv'
    <3>1. CASE Hear(c) \/ Miss(c)
      BY <3>1, AsideSteps, AsideKeepsSessions
    <3>2. CASE Initialize(c)
      <4>1. CASE Aside(c, "entering", "returned")
        BY <4>1, AsideKeepsSessions
      <4>2. CASE /\ step[c] = "entering" /\ step' = [step EXCEPT ![c] = "connecting"]
                 /\ lock = {} /\ lock' = {c} /\ todo' = Servers /\ loaded' = {} /\ ~initialized
                 /\ UNCHANGED <<initialized, sessions, tools, stack>>
        <5> SUFFICES ASSUME ~Abandoned' PROVE ManagerInv'
          BY DEF ManagerInv
        <5>1. ~Abandoned /\ step[Main] # "stopped"
          BY <4>2, Lasting
        <5>2. stack = {} /\ sessions = {} /\ tools = {}
          BY <4>2, <5>1, NobodyCloses DEF ManagerInv
        <5>3. Opening'
          BY <4>2, <5>2 DEF Opening
        <5>4. step'[Main] # "stopped"
          BY <4>2, <5>1 DEF CallersInv
        <5>5. QED
          BY <4>2, <5>2, <5>3, <5>4 DEF ManagerInv, OneSessionPerServer
      <4>3. QED
        BY <3>2, <4>1, <4>2, AsideSteps
    <3>3. CASE BeginReset(c)
      <4>1. /\ step[c] = "resetting" /\ step' = [step EXCEPT ![c] = "closing"]
            /\ lock = {} /\ lock' = {c}
            /\ UNCHANGED <<initialized, sessions, tools, stack, todo, loaded>>
        BY <3>3, HolderSteps
      <4>2. /\ step[Main] # "stopped" /\ step'[Main] # "stopped" /\ (~Abandoned' => ~Abandoned)
            /\ \A d \in Callers : step'[d] # "connecting"
        BY <4>1, Lasting, OneOpens DEF CallersInv, Steps
      <4>3. Closing'
        BY <4>1 DEF CallersInv, Closing
      <4>4. QED
        BY <4>1, <4>2, <4>3 DEF ManagerInv, OneSessionPerServer
    <3>4. CASE EndReset(c)
      <4>1. /\ step[c] = "closing" /\ step' = [step EXCEPT ![c] = "entering"]
            /\ stack' = {} /\ initialized' = FALSE /\ sessions' = {} /\ tools' = {}
        BY <3>4, HolderSteps
      <4>2. \A d \in Callers : step'[d] # "connecting"
        BY <4>1, OneOpens DEF CallersInv, Steps, Holding
      <4>3. QED
        BY <4>1, <4>2 DEF ManagerInv, OneSessionPerServer
    <3>8. CASE CloseSession(c)
      <4>1. /\ step[c] = "closing" /\ step' = step /\ stack' \subseteq stack
            /\ UNCHANGED <<lock, initialized, sessions, tools, todo, loaded>>
        BY <3>8, HolderSteps
      <4>2. /\ lock # {} /\ Closing' /\ (~Abandoned' => ~Abandoned)
            /\ \A d \in Callers : step'[d] # "connecting"
        BY <4>1, OneOpens DEF CallersInv, Holding, Closing, Abandoned
      <4>3. QED
        BY <4>1, <4>2 DEF ManagerInv, OneSessionPerServer
    <3>5. CASE Connect(c)
      BY <3>5, ConnectStep
    <3>6. CASE Finish(c)
      <4>1. /\ step[c] = "connecting" /\ step' = [step EXCEPT ![c] = "returned"]
            /\ UNCHANGED <<sessions, stack>> /\ tools' = loaded /\ initialized' = TRUE
        BY <3>6, HolderSteps
      <4>2. /\ step[Main] # "stopped" /\ step'[Main] # "stopped" /\ (~Abandoned' => ~Abandoned)
            /\ \A d \in Callers : step'[d] # "connecting"
        BY <4>1, Lasting, OneOpens DEF CallersInv, Steps, Holding
      <4>3. ~Closing
        BY <4>1, NobodyCloses
      <4>4. QED
        BY <4>1, <4>2, <4>3 DEF ManagerInv, OneSessionPerServer, Opening
    <3>7. QED
      BY <2>4, <3>1, <3>2, <3>3, <3>4, <3>5, <3>6, <3>8 DEF McpStep
  <2>5. ASSUME NEW c \in Callers \ {Main}, CallFactory(c) PROVE ManagerInv'
    BY <2>5, AsideSteps, AsideKeepsSessions
  <2>6. ASSUME NEW c \in Callers \ {Main}, CancelCaller(c) PROVE ManagerInv'
    <3>1. CASE c \in lock
      <4>1. step'[c] = "abandoned"
        BY <2>6, <3>1, HolderSteps DEF CallersInv
      <4>2. QED
        BY <4>1 DEF ManagerInv, Abandoned
    <3>2. CASE c \notin lock
      BY <2>6, <3>2, AsideSteps, AsideKeepsSessions
    <3>3. QED
      BY <3>1, <3>2
  <2>7. QED
    BY <2>1, <2>2, <2>3, <2>4, <2>5, <2>6, StepKinds
<1>3. QED
  BY <1>1, <1>2, OneHolder, PTL DEF Spec

\* However many factory calls race, no tool server is started twice.
THEOREM OneSessionEach == Spec => []OneSessionPerServer
<1>1. ManagerInv => OneSessionPerServer
  BY DEF ManagerInv, OneSessionPerServer
<1>2. QED
  BY <1>1, SessionsManaged, PTL

\* The tools handed out belong to sessions that were not closed.
THEOREM ToolsAreBacked == Spec => []ToolsHaveSessions
<1>1. ManagerInv => ToolsHaveSessions
  BY DEF ManagerInv, ToolsHaveSessions
<1>2. QED
  BY <1>1, SessionsManaged, PTL
-----------------------------------------------------------------------------
(* Lines *)

\* A nonempty set of naturals has a least element, which Min picks.
LEMMA LeastOf ==
  ASSUME NEW T, T \subseteq Nat, T # {}
  PROVE  Min(T) \in T /\ \A y \in T : Min(T) <= y
<1> DEFINE U == {0 .. n-1 : n \in T}
<1>1. \A n \in T : IsFiniteSet(0..n-1) /\ 0..n-1 \in SUBSET Nat
  BY FS_Interval
<1>2. U \subseteq FiniteSubsetsOf(Nat) /\ U # {}
  BY <1>1 DEF FiniteSubsetsOf
<1> HIDE DEF U
<1>3. \E x \in U : \A y \in U : ~ (<<y, x>> \in StrictSubsetOrdering(Nat))
  <2>1. IsWellFoundedOn(StrictSubsetOrdering(Nat), FiniteSubsetsOf(Nat))
    BY FS_StrictSubsetOrderingWellFounded
  <2>2. QED
    BY <1>2, <2>1, WFMin
<1>4. PICK m \in T : \A y \in T : ~ (<<0..y-1, 0..m-1>> \in StrictSubsetOrdering(Nat))
  BY <1>3 DEF U
<1>5. ASSUME NEW y \in T, y < m PROVE <<0..y-1, 0..m-1>> \in StrictSubsetOrdering(Nat)
  <2>1. y \in 0..m-1 /\ y \notin 0..y-1 /\ 0..y-1 \subseteq 0..m-1 /\ 0..m-1 \subseteq Nat
    BY <1>5
  <2>2. QED
    BY <2>1 DEF StrictSubsetOrdering
<1>6. \A y \in T : m <= y
  <2>1. \A y \in T : ~(y < m)
    BY <1>4, <1>5
  <2>2. QED
    BY <2>1
<1>7. QED
  BY <1>6 DEF Min

LEMMA MembersOf ==
  ASSUME NEW q, NEW x
  PROVE  x \in ToSet(q) <=> \E i \in DOMAIN q : q[i] = x
BY DEF ToSet

\* Who leaves a line leaves the others in order.
LEMMA LeaveLine ==
  ASSUME NEW S, NEW q \in Seq(S), NEW x
  PROVE  /\ RemoveFirst(q, x) \in Seq(S)
         /\ ToSet(RemoveFirst(q, x)) \subseteq ToSet(q)
         /\ ToSet(q) \subseteq ToSet(RemoveFirst(q, x)) \cup {x}
         /\ (\A i, j \in DOMAIN q : q[i] = q[j] => i = j) =>
              /\ \A i, j \in DOMAIN RemoveFirst(q, x) :
                   RemoveFirst(q, x)[i] = RemoveFirst(q, x)[j] => i = j
              /\ x \notin ToSet(RemoveFirst(q, x))
         /\ x \notin ToSet(q) => RemoveFirst(q, x) = q
<1> DEFINE rest == RemoveFirst(q, x)
<1>1. DOMAIN q = 1..Len(q) /\ Len(q) \in Nat
  OBVIOUS
<1>2. CASE ~ \E i \in 1..Len(q) : q[i] = x
  <2>1. rest = q /\ x \notin ToSet(q)
    BY <1>1, <1>2, MembersOf DEF RemoveFirst
  <2>2. QED
    BY <2>1
<1>3. CASE \E i \in 1..Len(q) : q[i] = x
  <2>1. PICK k \in 1..Len(q) : q[k] = x /\ rest = RemoveAt(q, k)
    <3> DEFINE I == {i \in 1..Len(q) : q[i] = x}
    <3>1. I \subseteq Nat /\ I # {}
      BY <1>3
    <3>2. SelectInSeq(q, LAMBDA v : v = x) = Min(I)
      BY <3>1 DEF SelectInSeq
    <3>3. Min(I) \in I
      BY <3>1, LeastOf
    <3>4. rest = RemoveAt(q, Min(I))
      BY <1>3, <3>2 DEF RemoveFirst
    <3>5. QED
      BY <3>3, <3>4
  <2>2. /\ rest \in Seq(S) /\ Len(rest) = Len(q) - 1
        /\ \A j \in 1..Len(q)-1 : rest[j] = IF j < k THEN q[j] ELSE q[j + 1]
    <3> DEFINE a == SubSeq(q, 1, k - 1)
               b == SubSeq(q, k + 1, Len(q))
    <3>1. /\ a \in Seq(S) /\ Len(a) = k - 1 /\ \A j \in 1..k-1 : a[j] = q[j]
          /\ b \in Seq(S) /\ Len(b) = Len(q) - k /\ \A j \in 1..Len(q)-k : b[j] = q[k + j]
      <4>1. \A i \in 1..Len(q) : q[i] \in S
        OBVIOUS
      <4>2. /\ a \in Seq(S) /\ Len(a) = (IF 1 <= k - 1 THEN (k - 1) - 1 + 1 ELSE 0)
            /\ \A j \in 1..(k - 1)-1+1 : a[j] = q[1 + j - 1]
        BY <1>1, <4>1, SubSeqProperties
      <4>3. \A i \in k+1..Len(q) : q[i] \in S
        BY <1>1, <4>1
      <4>4. /\ b \in Seq(S) /\ Len(b) = (IF k + 1 <= Len(q) THEN Len(q) - (k + 1) + 1 ELSE 0)
            /\ \A j \in 1..Len(q)-(k + 1)+1 : b[j] = q[(k + 1) + j - 1]
        BY <1>1, <4>3, SubSeqProperties
      <4> HIDE DEF a, b
      <4>5. Len(a) = k - 1 /\ \A j \in 1..k-1 : a[j] = q[j]
        <5>1. \A j \in 1..k-1 : 1 + j - 1 = j /\ j \in 1..(k - 1)-1+1
          BY <1>1
        <5>2. QED
          BY <1>1, <4>2, <5>1
      <4>6. Len(b) = Len(q) - k /\ \A j \in 1..Len(q)-k : b[j] = q[k + j]
        <5>1. \A j \in 1..Len(q)-k : (k + 1) + j - 1 = k + j /\ j \in 1..Len(q)-(k + 1)+1
          BY <1>1
        <5>2. \A j \in 1..Len(q)-k : b[j] = q[(k + 1) + j - 1]
          BY <4>4, <5>1
        <5>3. \A j \in 1..Len(q)-k : b[j] = q[k + j]
          BY <5>1, <5>2
        <5>4. Len(b) = Len(q) - k
          BY <1>1, <4>4
        <5>5. QED
          BY <5>3, <5>4
      <4>7. QED
        BY <4>2, <4>4, <4>5, <4>6
    <3>2. rest = a \o b
      BY <2>1 DEF RemoveAt
    <3> HIDE DEF a, b, rest
    <3>3. /\ a \o b \in Seq(S) /\ Len(a \o b) = Len(a) + Len(b)
          /\ \A j \in 1..Len(a)+Len(b) : (a \o b)[j] = IF j <= Len(a) THEN a[j] ELSE b[j - Len(a)]
      BY <3>1, ConcatProperties
    <3>4. Len(a) + Len(b) = Len(q) - 1
      BY <1>1, <3>1
    <3>5. ASSUME NEW j \in 1..Len(q)-1 PROVE rest[j] = IF j < k THEN q[j] ELSE q[j + 1]
      <4>1. CASE j < k
        BY <1>1, <3>1, <3>2, <3>3, <4>1
      <4>2. CASE ~(j < k)
        <5>1. rest[j] = b[j - (k - 1)] /\ j - (k - 1) \in 1..Len(q)-k /\ k + (j - (k - 1)) = j + 1
          BY <1>1, <3>1, <3>2, <3>3, <3>4, <4>2
        <5>2. QED
          BY <3>1, <4>2, <5>1
      <4>3. QED
        BY <4>1, <4>2
    <3>6. QED
      BY <3>2, <3>3, <3>4, <3>5
  <2> HIDE DEF rest
  <2>3. DOMAIN rest = 1..Len(q)-1
    BY <1>1, <2>2
  <2>4. ToSet(rest) \subseteq ToSet(q)
    <3> SUFFICES ASSUME NEW j \in DOMAIN rest PROVE \E i \in DOMAIN q : q[i] = rest[j]
      BY MembersOf
    <3>1. CASE j < k
      BY <1>1, <2>2, <2>3, <3>1
    <3>2. CASE ~(j < k)
      <4>1. j + 1 \in DOMAIN q /\ rest[j] = q[j + 1]
        BY <1>1, <2>2, <2>3, <3>2
      <4>2. QED
        BY <4>1
    <3>3. QED
      BY <3>1, <3>2
  <2>5. ToSet(q) \subseteq ToSet(rest) \cup {x}
    <3> SUFFICES ASSUME NEW i \in DOMAIN q, q[i] # x PROVE \E j \in DOMAIN rest : rest[j] = q[i]
      BY MembersOf
    <3>1. CASE i < k
      <4>1. i \in DOMAIN rest /\ rest[i] = q[i]
        BY <1>1, <2>2, <2>3, <3>1
      <4>2. QED
        BY <4>1
    <3>2. CASE i > k
      <4>1. i - 1 \in DOMAIN rest /\ rest[i - 1] = q[(i - 1) + 1] /\ (i - 1) + 1 = i
        BY <1>1, <2>2, <2>3, <3>2
      <4>2. QED
        BY <4>1
    <3>3. QED
      BY <1>1, <2>1, <3>1, <3>2
  <2>6. ASSUME \A i, j \in DOMAIN q : q[i] = q[j] => i = j
        PROVE  /\ \A i, j \in DOMAIN rest : rest[i] = rest[j] => i = j
               /\ x \notin ToSet(rest)
    <3> DEFINE at(j) == IF j < k THEN j ELSE j + 1
    <3>1. \A j \in DOMAIN rest : at(j) \in DOMAIN q /\ at(j) # k /\ rest[j] = q[at(j)]
      BY <1>1, <2>1, <2>2, <2>3
    <3>2. \A i, j \in DOMAIN rest : at(i) = at(j) => i = j
      BY <2>1, <2>3
    <3> HIDE DEF at
    <3>3. \A i, j \in DOMAIN rest : rest[i] = rest[j] => i = j
      BY <2>6, <3>1, <3>2
    <3>4. \A j \in DOMAIN rest : rest[j] # x
      BY <1>1, <2>1, <2>6, <3>1
    <3>5. QED
      BY <3>3, <3>4, MembersOf
  <2>7. x \in ToSet(q)
    BY <1>1, <2>1, MembersOf
  <2>8. QED
    BY <2>2, <2>4, <2>5, <2>6, <2>7 DEF rest
<1>4. QED
  BY <1>2, <1>3

-----------------------------------------------------------------------------
(* The permits *)

\* A permit goes to the first waiter that has none, or to nobody when all have one.
LEMMA WakesOne ==
  ASSUME CallsInv, NEW g \in Guards, NEW v \in Nat, NEW q \in Seq(Requests), NEW r,
         WakeUp(g, v, q, r)
  PROVE  \E n \in Nat, new \in SUBSET ToSet(q) :
           /\ value' = [value EXCEPT ![g] = n] /\ queue' = [queue EXCEPT ![g] = q]
           /\ granted' = (granted \ {r}) \cup new /\ new \cap granted = {}
           /\ IsFiniteSet(new) /\ n + Cardinality(new) = v
           /\ v = 0 \/ new # {} \/ \A i \in DOMAIN q : q[i] \in granted
<1> DEFINE asleep == {i \in DOMAIN q : q[i] \notin granted}
<1>0. queue' = [queue EXCEPT ![g] = q]
  BY DEF WakeUp
<1>1. CASE v > 0 /\ asleep # {}
  <2>1. asleep \subseteq Nat
    OBVIOUS
  <2>2. Min(asleep) \in asleep
    BY <1>1, <2>1, LeastOf
  <2>3. PICK w \in ToSet(q) \ granted : granted' = (granted \ {r}) \cup {w}
    <3>1. q[Min(asleep)] \in ToSet(q) \ granted
      BY <2>2, MembersOf
    <3>2. granted' = (granted \ {r}) \cup {q[Min(asleep)]}
      BY <1>1 DEF WakeUp
    <3>3. QED
      BY <3>1, <3>2
  <2>4. v - 1 \in Nat /\ value' = [value EXCEPT ![g] = v - 1]
    BY <1>1 DEF WakeUp
  <2>5. IsFiniteSet({w}) /\ Cardinality({w}) = 1
    BY FS_Singleton
  <2>6. {w} \in SUBSET ToSet(q) /\ {w} \cap granted = {} /\ (v - 1) + 1 = v
    BY <2>4
  <2> v - 1 \in Nat
    BY <2>4
  <2> WITNESS v - 1 \in Nat, {w} \in SUBSET ToSet(q)
  <2>7. QED
    BY <1>0, <2>3, <2>4, <2>5, <2>6
<1>2. CASE v = 0 \/ asleep = {}
  <2>1. value' = [value EXCEPT ![g] = v] /\ granted' = (granted \ {r}) \cup {}
    BY <1>2 DEF WakeUp
  <2>2. v = 0 \/ \A i \in DOMAIN q : q[i] \in granted
    BY <1>2
  <2>3. IsFiniteSet({}) /\ Cardinality({}) = 0 /\ v + 0 = v
    BY FS_EmptySet
  <2>4. {} \in SUBSET ToSet(q) /\ {} \cap granted = {}
    OBVIOUS
  <2> WITNESS v \in Nat, {} \in SUBSET ToSet(q)
  <2>5. QED
    BY <1>0, <2>1, <2>2, <2>3, <2>4
<1>3. QED
  BY <1>1, <1>2 DEF WakeUp

\* One request's call leaves a semaphore or its line, and permits go to some of
\* the waiters: the books balance again.
LEMMA Balance ==
  ASSUME PermitsInv, NEW r \in Requests, NEW g \in Guards, g = Guard(r),
         NEW q \in Seq(Requests), q = RemoveFirst(queue[g], r),
         NEW to \in {"running", "backoff", "answered", "failed", "cancelled"},
         call' = [call EXCEPT ![r] = to], to = "backoff" => attempt[r] < MaxAttempts,
         UNCHANGED <<tier, attempt>>,
         NEW n \in Nat, NEW new \in SUBSET ToSet(q), IsFiniteSet(new), new \cap granted = {},
         value' = [value EXCEPT ![g] = n], queue' = [queue EXCEPT ![g] = q],
         granted' = (granted \ {r}) \cup new,
         IsFiniteSet(Running(g)'),
         n + Cardinality(new) + Cardinality(Running(g)') + Cardinality(Handed(g) \ {r}) = Permits[g],
         n > 0 /\ q # <<>> => \E i \in DOMAIN q : q[i] \in granted'
  PROVE  PermitsInv'
<1>0. CallsInv /\ LinesInv /\ PermitsConserved /\ \A h \in Guards : IsFiniteSet(Running(h)) /\ IsFiniteSet(Handed(h))
  BY DEF PermitsInv
<1>1. /\ ToSet(q) \subseteq ToSet(queue[g]) /\ ToSet(queue[g]) \subseteq ToSet(q) \cup {r} /\ r \notin ToSet(q)
      /\ \A i, j \in DOMAIN q : q[i] = q[j] => i = j
  <2>1. queue[g] \in Seq(Requests) /\ \A i, j \in DOMAIN queue[g] : queue[g][i] = queue[g][j] => i = j
    BY <1>0 DEF CallsInv, LinesInv
  <2>2. QED
    BY <2>1, LeaveLine
<1>4. \A w \in ToSet(q) : w \in Requests /\ w # r /\ call[w] = "waiting" /\ Guard(w) = g
  <2> SUFFICES ASSUME NEW w \in ToSet(q)
               PROVE  w \in Requests /\ w # r /\ call[w] = "waiting" /\ Guard(w) = g
    OBVIOUS
  <2>1. PICK i \in DOMAIN queue[g] : queue[g][i] = w
    BY <1>1, MembersOf
  <2>2. queue[g] \in Seq(Requests)
    BY <1>0 DEF CallsInv
  <2>3. QED
    BY <1>0, <1>1, <2>1, <2>2 DEF LinesInv
<1>5. /\ call'[r] = to /\ \A x \in Requests \ {r} : call'[x] = call[x]
      /\ \A x \in Requests : Guard(x)' = Guard(x)
      /\ value'[g] = n /\ queue'[g] = q
      /\ \A h \in Guards \ {g} : value'[h] = value[h] /\ queue'[h] = queue[h]
  BY <1>0 DEF CallsInv, Guard
<1>6. CallsInv'
  <2>1. granted' \subseteq Requests /\ \A w \in granted' : call'[w] = "waiting"
    BY <1>0, <1>4, <1>5 DEF CallsInv
  <2>2. QED
    BY <1>0, <1>5, <2>1 DEF CallsInv
<1>7. LinesInv'
  <2> SUFFICES ASSUME NEW h \in Guards
               PROVE  /\ \A i, j \in DOMAIN queue'[h] : queue'[h][i] = queue'[h][j] => i = j
                      /\ \A i \in DOMAIN queue'[h] : call'[queue'[h][i]] = "waiting" /\ Guard(queue'[h][i]) = h
                      /\ \A x \in Requests : call'[x] = "waiting" /\ Guard(x) = h => x \in ToSet(queue'[h])
    BY DEF LinesInv, Guard
  <2>1. CASE h = g
    <3>1. \A i \in DOMAIN q : q[i] \in ToSet(q)
      BY MembersOf
    <3>2. \A x \in Requests : call'[x] = "waiting" /\ Guard(x) = g => x \in ToSet(q)
      BY <1>0, <1>1, <1>5 DEF LinesInv
    <3>3. \A i \in DOMAIN q : call'[q[i]] = "waiting" /\ Guard(q[i]) = g
      BY <1>4, <1>5, <3>1
    <3>4. QED
      BY <1>1, <1>5, <2>1, <3>2, <3>3
  <2>2. CASE h # g
    <3>1. queue[h] \in Seq(Requests) /\ queue'[h] = queue[h]
      BY <1>0, <1>5, <2>2 DEF CallsInv
    <3>2. \A i \in DOMAIN queue[h] : queue[h][i] \in Requests /\ queue[h][i] # r
                                     /\ call[queue[h][i]] = "waiting" /\ Guard(queue[h][i]) = h
      BY <1>0, <2>2, <3>1 DEF LinesInv
    <3>3. QED
      BY <1>0, <1>5, <2>2, <3>1, <3>2 DEF LinesInv
  <2>3. QED
    BY <2>1, <2>2
<1>8. /\ Handed(g)' = (Handed(g) \ {r}) \cup new /\ (Handed(g) \ {r}) \cap new = {}
      /\ \A h \in Guards \ {g} : Running(h)' = Running(h) /\ Handed(h)' = Handed(h)
  <2>1. Handed(g)' = (Handed(g) \ {r}) \cup new
    BY <1>0, <1>4, <1>5 DEF Handed, CallsInv
  <2>2. \A h \in Guards \ {g} : Running(h)' = Running(h)
    BY <1>5 DEF Running
  <2>3. \A h \in Guards \ {g} : Handed(h)' = Handed(h)
    BY <1>0, <1>4, <1>5 DEF Handed, CallsInv
  <2>4. QED
    BY <2>1, <2>2, <2>3 DEF Handed
<1>9. /\ IsFiniteSet(Handed(g)')
      /\ Cardinality(Handed(g)') = Cardinality(Handed(g) \ {r}) + Cardinality(new)
  <2>1. IsFiniteSet(Handed(g) \ {r})
    BY <1>0, FS_Difference
  <2>2. IsFiniteSet((Handed(g) \ {r}) \cup new)
        /\ Cardinality((Handed(g) \ {r}) \cup new)
             = Cardinality(Handed(g) \ {r}) + Cardinality(new) - Cardinality((Handed(g) \ {r}) \cap new)
    BY <2>1, FS_Union
  <2>3. Cardinality((Handed(g) \ {r}) \cap new) = 0
    BY <1>8, FS_EmptySet
  <2>4. Cardinality(Handed(g) \ {r}) \in Nat /\ Cardinality(new) \in Nat
    BY <2>1, FS_CardinalityType
  <2>5. QED
    BY <1>8, <2>2, <2>3, <2>4
<1>10. n + Cardinality(Running(g)') + Cardinality(Handed(g)') = Permits[g]
  <2>1. /\ Cardinality(Running(g)') \in Nat /\ Cardinality(new) \in Nat
        /\ Cardinality(Handed(g) \ {r}) \in Nat
    BY <1>0, FS_CardinalityType, FS_Difference
  <2>2. QED
    BY <1>9, <2>1
<1>11. PermitsConserved'
  <2> SUFFICES ASSUME NEW h \in Guards
               PROVE  /\ value'[h] + Cardinality(Running(h)') + Cardinality(Handed(h)') = Permits[h]
                      /\ value'[h] > 0 /\ queue'[h] # <<>> => \E i \in DOMAIN queue'[h] : queue'[h][i] \in granted'
    BY DEF PermitsConserved, Running, Handed, Guard
  <2>1. CASE h = g
    BY <1>5, <1>10, <2>1
  <2>2. CASE h # g
    <3>1. queue[h] \in Seq(Requests) /\ \A i \in DOMAIN queue[h] : Guard(queue[h][i]) = h
      BY <1>0 DEF CallsInv, LinesInv
    <3>2. \A i \in DOMAIN queue[h] : queue[h][i] # r
      BY <2>2, <3>1
    <3>3. value[h] + Cardinality(Running(h)) + Cardinality(Handed(h)) = Permits[h]
          /\ (value[h] > 0 /\ queue[h] # <<>> => \E i \in DOMAIN queue[h] : queue[h][i] \in granted)
      BY <1>0 DEF PermitsConserved, Running, Handed
    <3>4. QED
      BY <1>5, <1>8, <2>2, <3>2, <3>3
  <2>3. QED
    BY <2>1, <2>2
<1>12. \A h \in Guards : IsFiniteSet(Running(h)') /\ IsFiniteSet(Handed(h)')
  BY <1>0, <1>8, <1>9
<1>13. QED
  BY <1>6, <1>7, <1>11, <1>12 DEF PermitsInv

\* A permit more or the same, and the first waiter is woken if it can be.
LEMMA HandOver ==
  ASSUME PermitsInv, NEW r \in Requests, NEW g \in Guards, g = Guard(r),
         NEW v \in Nat, WakeUp(g, v, RemoveFirst(queue[g], r), r),
         NEW to \in {"running", "backoff", "answered", "failed", "cancelled"},
         call' = [call EXCEPT ![r] = to], to = "backoff" => attempt[r] < MaxAttempts,
         UNCHANGED <<tier, attempt>>,
         IsFiniteSet(Running(g)'),
         v + Cardinality(Running(g)') + Cardinality(Handed(g) \ {r}) = Permits[g]
  PROVE  PermitsInv'
<1> DEFINE q == RemoveFirst(queue[g], r)
<1>0. CallsInv /\ LinesInv /\ IsFiniteSet(Handed(g))
  BY DEF PermitsInv
<1>1. q \in Seq(Requests) /\ r \notin ToSet(q)
  <2>1. queue[g] \in Seq(Requests) /\ \A i, j \in DOMAIN queue[g] : queue[g][i] = queue[g][j] => i = j
    BY <1>0 DEF CallsInv, LinesInv
  <2>2. QED
    BY <2>1, LeaveLine
<1> HIDE DEF q
<1>2. PICK n \in Nat, new \in SUBSET ToSet(q) :
           /\ value' = [value EXCEPT ![g] = n] /\ queue' = [queue EXCEPT ![g] = q]
           /\ granted' = (granted \ {r}) \cup new /\ new \cap granted = {}
           /\ IsFiniteSet(new) /\ n + Cardinality(new) = v
           /\ v = 0 \/ new # {} \/ \A i \in DOMAIN q : q[i] \in granted
  <2>1. WakeUp(g, v, q, r)
    BY DEF q
  <2>2. QED
    BY <1>0, <1>1, <2>1, WakesOne
<1>3. n > 0 /\ q # <<>> => \E i \in DOMAIN q : q[i] \in granted'
  <2> SUFFICES ASSUME n > 0, q # <<>> PROVE \E i \in DOMAIN q : q[i] \in granted'
    OBVIOUS
  <2>1. v > 0
    BY <1>2, FS_CardinalityType
  <2>2. CASE new # {}
    <3>1. PICK w \in new : TRUE
      BY <2>2
    <3>2. PICK i \in DOMAIN q : q[i] = w
      BY <3>1, MembersOf
    <3>3. QED
      BY <1>2, <3>1, <3>2
  <2>3. CASE \A i \in DOMAIN q : q[i] \in granted
    <3>1. 1 \in DOMAIN q
      BY <1>1
    <3>2. q[1] # r
      BY <1>1, <3>1, MembersOf
    <3>3. q[1] \in granted'
      BY <1>2, <2>3, <3>1, <3>2
    <3>4. QED
      BY <3>1, <3>3
  <2>4. QED
    BY <1>2, <2>1, <2>2, <2>3
<1>4. n + Cardinality(new) + Cardinality(Running(g)') + Cardinality(Handed(g) \ {r}) = Permits[g]
  BY <1>2
<1>5. q = RemoveFirst(queue[g], r)
  BY DEF q
<1>6. QED
  BY <1>1, <1>2, <1>3, <1>4, <1>5, Balance

\* A call takes a permit or joins the line of its semaphore.
LEMMA EnterStep ==
  ASSUME PermitsInv, NEW r \in Requests, NEW g \in Guards,
         call[r] \in {"none", "backoff"}, Enter(r, g),
         NEW t \in Tiers \cup {None}, get_semaphore(t) = g, tier' = [tier EXCEPT ![r] = t],
         NEW n \in 0..MaxAttempts, attempt' = [attempt EXCEPT ![r] = n],
         UNCHANGED granted
  PROVE  PermitsInv'
<1>0. CallsInv /\ LinesInv /\ PermitsConserved /\ \A h \in Guards : IsFiniteSet(Running(h)) /\ IsFiniteSet(Handed(h))
  BY DEF PermitsInv
<1>1. r \notin granted /\ \A h \in Guards : \A i \in DOMAIN queue[h] : queue[h][i] \in Requests \ {r}
  <2>1. \A h \in Guards : queue[h] \in Seq(Requests)
    BY <1>0 DEF CallsInv
  <2>2. QED
    BY <1>0, <2>1 DEF CallsInv, LinesInv
<1>2. /\ Guard(r)' = g /\ \A x \in Requests \ {r} : Guard(x)' = Guard(x)
      /\ tier' \in [Requests -> Tiers \cup {None}] /\ attempt' \in [Requests -> 0..MaxAttempts]
      /\ \A x \in Requests \ {r} : attempt'[x] = attempt[x]
  BY <1>0 DEF CallsInv, Guard
<1>3. \A h \in Guards : Handed(h)' = Handed(h)
  BY <1>0, <1>1, <1>2 DEF Handed, CallsInv
<1>4. CASE /\ value[g] > 0 /\ queue[g] = <<>>
           /\ call' = [call EXCEPT ![r] = "running"]
           /\ value' = [value EXCEPT ![g] = @ - 1]
           /\ UNCHANGED queue
  <2>1. /\ call'[r] = "running" /\ \A x \in Requests \ {r} : call'[x] = call[x]
        /\ value'[g] = value[g] - 1 /\ value[g] \in Nat /\ \A h \in Guards \ {g} : value'[h] = value[h]
    BY <1>0, <1>4 DEF CallsInv
  <2>2. /\ Running(g)' = Running(g) \cup {r} /\ r \notin Running(g)
        /\ \A h \in Guards \ {g} : Running(h)' = Running(h)
    <3>1. \A x \in Requests \ {r} : call'[x] = "running" <=> call[x] = "running"
      BY <2>1
    <3>2. QED
      BY <1>2, <2>1, <3>1 DEF Running
  <2>3. IsFiniteSet(Running(g)') /\ Cardinality(Running(g)') = Cardinality(Running(g)) + 1
    BY <1>0, <2>2, FS_AddElement
  <2>4. PermitsConserved'
    <3> SUFFICES ASSUME NEW h \in Guards
                 PROVE  /\ value'[h] + Cardinality(Running(h)') + Cardinality(Handed(h)') = Permits[h]
                        /\ value'[h] > 0 /\ queue'[h] # <<>> => \E i \in DOMAIN queue'[h] : queue'[h][i] \in granted'
      BY DEF PermitsConserved, Running, Handed, Guard
    <3>1. value[h] + Cardinality(Running(h)) + Cardinality(Handed(h)) = Permits[h]
          /\ (value[h] > 0 /\ queue[h] # <<>> => \E i \in DOMAIN queue[h] : queue[h][i] \in granted)
      BY <1>0 DEF PermitsConserved, Running, Handed
    <3>2. CASE h = g
      <4>1. Cardinality(Running(g)) \in Nat /\ Cardinality(Handed(g)) \in Nat
        BY <1>0, FS_CardinalityType
      <4>2. value'[g] + Cardinality(Running(g)') + Cardinality(Handed(g)') = Permits[g]
        BY <1>3, <2>1, <2>3, <3>1, <3>2, <4>1
      <4>3. QED
        BY <1>4, <3>2, <4>2
    <3>3. CASE h # g
      BY <1>3, <1>4, <2>1, <2>2, <3>1, <3>3
    <3>4. QED
      BY <3>2, <3>3
  <2>5. LinesInv'
    <3> SUFFICES ASSUME NEW h \in Guards
                 PROVE  /\ \A i, j \in DOMAIN queue[h] : queue[h][i] = queue[h][j] => i = j
                        /\ \A i \in DOMAIN queue[h] : call'[queue[h][i]] = "waiting" /\ get_semaphore(tier'[queue[h][i]]) = h
                        /\ \A x \in Requests : call'[x] = "waiting" /\ get_semaphore(tier'[x]) = h => x \in ToSet(queue[h])
      BY <1>4 DEF LinesInv, Guard
    <3>1. \A x \in Requests \ {r} : get_semaphore(tier'[x]) = Guard(x) /\ call'[x] = call[x]
      BY <1>2, <2>1 DEF Guard
    <3>2. QED
      BY <1>0, <1>1, <2>1, <3>1 DEF LinesInv
  <2>6. CallsInv'
    <3>1. value' \in [Guards -> Nat] /\ call' \in [Requests -> {"none", "waiting", "running", "backoff", "answered", "failed", "cancelled"}]
      BY <1>0, <1>4, <2>1 DEF CallsInv
    <3>2. \A x \in Requests : call'[x] = "backoff" => attempt'[x] < MaxAttempts
      BY <1>0, <1>2, <2>1 DEF CallsInv
    <3>3. granted \subseteq Requests /\ \A x \in granted : call'[x] = "waiting"
      BY <1>0, <1>1, <2>1 DEF CallsInv
    <3>4. QED
      BY <1>0, <1>2, <1>4, <3>1, <3>2, <3>3 DEF CallsInv
  <2>7. \A h \in Guards : IsFiniteSet(Running(h)') /\ IsFiniteSet(Handed(h)')
    BY <1>0, <1>3, <2>2, <2>3
  <2>8. QED
    BY <2>4, <2>5, <2>6, <2>7 DEF PermitsInv
<1>5. CASE /\ value[g] = 0 \/ queue[g] # <<>>
           /\ call' = [call EXCEPT ![r] = "waiting"]
           /\ queue' = [queue EXCEPT ![g] = Append(@, r)]
           /\ UNCHANGED value
  <2>1. /\ call'[r] = "waiting" /\ \A x \in Requests \ {r} : call'[x] = call[x]
        /\ queue[g] \in Seq(Requests) /\ queue'[g] = Append(queue[g], r)
        /\ \A h \in Guards \ {g} : queue'[h] = queue[h]
    BY <1>0, <1>5 DEF CallsInv
  <2>2. /\ queue'[g] \in Seq(Requests)
        /\ DOMAIN queue'[g] = DOMAIN queue[g] \cup {Len(queue[g]) + 1} /\ Len(queue[g]) + 1 \notin DOMAIN queue[g]
        /\ queue'[g][Len(queue[g]) + 1] = r /\ \A i \in DOMAIN queue[g] : queue'[g][i] = queue[g][i]
    BY <2>1
  <2>3. \A h \in Guards : Running(h)' = Running(h)
    <3>1. \A x \in Requests \ {r} : call'[x] = "running" <=> call[x] = "running"
      BY <2>1
    <3>2. QED
      BY <1>2, <2>1, <3>1 DEF Running
  <2>4. PermitsConserved'
    <3> SUFFICES ASSUME NEW h \in Guards
                 PROVE  /\ value'[h] + Cardinality(Running(h)') + Cardinality(Handed(h)') = Permits[h]
                        /\ value'[h] > 0 /\ queue'[h] # <<>> => \E i \in DOMAIN queue'[h] : queue'[h][i] \in granted'
      BY DEF PermitsConserved, Running, Handed, Guard
    <3>1. value[h] + Cardinality(Running(h)) + Cardinality(Handed(h)) = Permits[h]
          /\ (value[h] > 0 /\ queue[h] # <<>> => \E i \in DOMAIN queue[h] : queue[h][i] \in granted)
      BY <1>0 DEF PermitsConserved, Running, Handed
    <3>2. CASE h = g
      BY <1>3, <1>5, <2>2, <2>3, <3>1, <3>2
    <3>3. CASE h # g
      BY <1>3, <1>5, <2>1, <2>3, <3>1, <3>3
    <3>4. QED
      BY <3>2, <3>3
  <2>5. LinesInv'
    <3> SUFFICES ASSUME NEW h \in Guards
                 PROVE  /\ \A i, j \in DOMAIN queue'[h] : queue'[h][i] = queue'[h][j] => i = j
                        /\ \A i \in DOMAIN queue'[h] : call'[queue'[h][i]] = "waiting" /\ get_semaphore(tier'[queue'[h][i]]) = h
                        /\ \A x \in Requests : call'[x] = "waiting" /\ get_semaphore(tier'[x]) = h => x \in ToSet(queue'[h])
      BY DEF LinesInv, Guard
    <3>1. \A x \in Requests \ {r} : get_semaphore(tier'[x]) = Guard(x) /\ call'[x] = call[x]
      BY <1>2, <2>1 DEF Guard
    <3>2. get_semaphore(tier'[r]) = g
      BY <1>2 DEF Guard
    <3>3. CASE h # g
      <4>1. queue'[h] = queue[h]
        BY <2>1, <3>3
      <4>2. QED
        BY <1>0, <1>1, <3>1, <3>2, <3>3, <4>1 DEF LinesInv
    <3>4. CASE h = g
      <4>1. \A i, j \in DOMAIN queue'[g] : queue'[g][i] = queue'[g][j] => i = j
        BY <1>0, <1>1, <2>2 DEF LinesInv
      <4>2. \A i \in DOMAIN queue'[g] : call'[queue'[g][i]] = "waiting" /\ get_semaphore(tier'[queue'[g][i]]) = g
        BY <1>0, <1>1, <2>1, <2>2, <3>1, <3>2 DEF LinesInv
      <4>3. ASSUME NEW x \in Requests, call'[x] = "waiting", get_semaphore(tier'[x]) = g
            PROVE  \E i \in DOMAIN queue'[g] : queue'[g][i] = x
        <5>1. CASE x = r
          BY <2>2, <5>1
        <5>2. CASE x # r
          <6>1. x \in ToSet(queue[g])
            BY <1>0, <3>1, <4>3, <5>2 DEF LinesInv
          <6>2. PICK i \in DOMAIN queue[g] : queue[g][i] = x
            BY <6>1, MembersOf
          <6>3. QED
            BY <2>2, <6>2
        <5>3. QED
          BY <5>1, <5>2
      <4>4. QED
        BY <3>4, <4>1, <4>2, <4>3, MembersOf
    <3>5. QED
      BY <3>3, <3>4
  <2>6. CallsInv'
    <3>1. queue' \in [Guards -> Seq(Requests)] /\ call' \in [Requests -> {"none", "waiting", "running", "backoff", "answered", "failed", "cancelled"}]
      BY <1>0, <1>5, <2>1, <2>2 DEF CallsInv
    <3>2. \A x \in Requests : call'[x] = "backoff" => attempt'[x] < MaxAttempts
      BY <1>0, <1>2, <2>1 DEF CallsInv
    <3>3. granted \subseteq Requests /\ \A x \in granted : call'[x] = "waiting"
      BY <1>0, <1>1, <2>1 DEF CallsInv
    <3>4. QED
      BY <1>0, <1>2, <1>5, <3>1, <3>2, <3>3 DEF CallsInv
  <2>7. \A h \in Guards : IsFiniteSet(Running(h)') /\ IsFiniteSet(Handed(h)')
    BY <1>0, <1>3, <2>3
  <2>8. QED
    BY <2>4, <2>5, <2>6, <2>7 DEF PermitsInv
<1>6. QED
  BY <1>4, <1>5 DEF Enter

LEMMA LlmStepBalances ==
  ASSUME PermitsInv, NEW r \in Requests, LlmStep(r) \/ CancelCall(r)
  PROVE  PermitsInv'
<1>g. PICK g \in Guards : g = Guard(r)
  BY DEF Guard, get_semaphore, Guards
<1>0. /\ CallsInv /\ LinesInv /\ PermitsConserved
      /\ IsFiniteSet(Running(g)) /\ IsFiniteSet(Handed(g)) /\ value[g] \in Nat
      /\ Cardinality(Running(g)) \in Nat /\ Cardinality(Handed(g)) \in Nat
  BY FS_CardinalityType DEF PermitsInv, CallsInv
<1>1. value[g] + Cardinality(Running(g)) + Cardinality(Handed(g)) = Permits[g]
  BY <1>0 DEF PermitsConserved, Running, Handed
<1>2. r \in granted => /\ call[r] = "waiting" /\ r \in Handed(g) /\ r \notin Running(g)
                       /\ Cardinality(Handed(g) \ {r}) = Cardinality(Handed(g)) - 1
  <2>1. r \in granted => call[r] = "waiting" /\ r \in Handed(g) /\ r \notin Running(g)
    BY <1>0, <1>g DEF CallsInv, Handed, Running
  <2>2. QED
    BY <1>0, <2>1, FS_RemoveElement
<1>3. r \notin granted => Cardinality(Handed(g) \ {r}) = Cardinality(Handed(g))
  <2>1. r \notin granted => Handed(g) \ {r} = Handed(g)
    BY DEF Handed
  <2>2. QED
    BY <2>1, Zenon
<1>4. call[r] = "running" => /\ r \in Running(g) /\ r \notin granted
                             /\ IsFiniteSet(Running(g) \ {r})
                             /\ Cardinality(Running(g) \ {r}) = Cardinality(Running(g)) - 1
  <2>1. call[r] = "running" => r \in Running(g) /\ r \notin granted
    BY <1>g, <1>2 DEF Running
  <2>2. QED
    BY <1>0, <2>1, FS_RemoveElement
<1>5. ASSUME NEW to \in {"running", "backoff", "answered", "failed", "cancelled"},
             call' = [call EXCEPT ![r] = to], UNCHANGED tier
      PROVE  Running(g)' = IF to = "running" THEN Running(g) \cup {r} ELSE Running(g) \ {r}
  <2>1. call'[r] = to /\ \A x \in Requests \ {r} : call'[x] = call[x]
    BY <1>0, <1>5 DEF CallsInv
  <2>2. \A x \in Requests : Guard(x)' = Guard(x)
    BY <1>5 DEF Guard
  <2>3. Running(g)' = {x \in Requests : call'[x] = "running" /\ Guard(x) = g}
    BY <2>2 DEF Running
  <2>4. /\ Running(g)' \subseteq Requests /\ Running(g) \subseteq Requests
        /\ \A x \in Requests : x \in Running(g)' <=> (call'[x] = "running" /\ Guard(x) = g)
        /\ \A x \in Requests : x \in Running(g) <=> (call[x] = "running" /\ Guard(x) = g)
    BY <2>3 DEF Running
  <2>5. /\ r \in Running(g)' <=> to = "running"
        /\ \A x \in Requests \ {r} : x \in Running(g)' <=> x \in Running(g)
    BY <1>g, <2>1, <2>4
  <2>6. CASE to = "running"
    BY <2>4, <2>5, <2>6
  <2>7. CASE to # "running"
    BY <2>4, <2>5, <2>7
  <2>8. QED
    BY <2>6, <2>7
<1>6. call[r] # "waiting" => RemoveFirst(queue[g], r) = queue[g]
  <2>1. queue[g] \in Seq(Requests)
    BY <1>0 DEF CallsInv
  <2>2. call[r] # "waiting" => r \notin ToSet(queue[g])
    BY <1>0, MembersOf DEF LinesInv
  <2>3. QED
    BY <2>1, <2>2, LeaveLine
<1>7. CASE Resume(r)
  <2>1. /\ r \in granted /\ call' = [call EXCEPT ![r] = "running"] /\ UNCHANGED <<tier, attempt>>
        /\ WakeUp(g, value[g], RemoveFirst(queue[g], r), r)
    BY <1>g, <1>7 DEF Resume
  <2>2. Running(g)' = Running(g) \cup {r}
    BY <1>5, <2>1
  <2>3. IsFiniteSet(Running(g)') /\ Cardinality(Running(g)') = Cardinality(Running(g)) + 1
    BY <1>0, <1>2, <2>1, <2>2, FS_AddElement
  <2>4. value[g] + Cardinality(Running(g)') + Cardinality(Handed(g) \ {r}) = Permits[g]
    BY <1>0, <1>1, <1>2, <2>1, <2>3
  <2>5. QED
    BY <1>0, <2>1, <2>3, <2>4, <1>g, HandOver
<1>8. ASSUME NEW to \in {"backoff", "answered", "failed", "cancelled"},
             call' = [call EXCEPT ![r] = to], to = "backoff" => attempt[r] < MaxAttempts,
             UNCHANGED <<tier, attempt>>, call[r] = "running" \/ r \in granted,
             WakeUp(g, value[g] + 1, RemoveFirst(queue[g], r), r)
      PROVE  PermitsInv'
  <2>1. Running(g)' = Running(g) \ {r}
    BY <1>5, <1>8
  <2>2. IsFiniteSet(Running(g)')
        /\ (value[g] + 1) + Cardinality(Running(g)') + Cardinality(Handed(g) \ {r}) = Permits[g]
    <3>1. CASE call[r] = "running"
      <4>1. /\ IsFiniteSet(Running(g)') /\ Cardinality(Running(g)') = Cardinality(Running(g)) - 1
            /\ Cardinality(Handed(g) \ {r}) = Cardinality(Handed(g))
        BY <1>3, <1>4, <2>1, <3>1
      <4>2. QED
        BY <1>0, <1>1, <4>1
    <3>2. CASE r \in granted
      <4>1. Running(g)' = Running(g)
        BY <1>2, <2>1, <3>2
      <4>2. /\ IsFiniteSet(Running(g)') /\ Cardinality(Running(g)') = Cardinality(Running(g))
            /\ Cardinality(Handed(g) \ {r}) = Cardinality(Handed(g)) - 1
        BY <1>0, <1>2, <3>2, <4>1
      <4>3. QED
        BY <1>0, <1>1, <4>2
    <3>3. QED
      BY <1>8, <3>1, <3>2
  <2>3. value[g] + 1 \in Nat
    BY <1>0
  <2>4. QED
    BY <1>0, <1>8, <2>2, <2>3, <1>g, HandOver
<1>9. ASSUME NEW to \in {"backoff", "answered", "failed"}, Leave(r, to),
             to = "backoff" => attempt[r] < MaxAttempts
      PROVE  PermitsInv'
  <2>1. /\ call[r] = "running" /\ call' = [call EXCEPT ![r] = to] /\ UNCHANGED <<tier, attempt>>
        /\ WakeUp(g, value[g] + 1, queue[g], r)
    BY <1>g, <1>9 DEF Leave, Returned
  <2>2. RemoveFirst(queue[g], r) = queue[g]
    BY <1>6, <2>1
  <2>3. QED
    BY <1>8, <1>9, <2>1, <2>2
<1>10. CASE Answer(r) \/ StatusError(r) \/ OtherError(r)
  BY <1>9, <1>10 DEF Answer, StatusError, OtherError
<1>11. CASE Retry(r)
  <2>1. call[r] = "backoff" /\ Enter(r, g) /\ UNCHANGED <<tier, granted>>
        /\ attempt' = [attempt EXCEPT ![r] = attempt[r] + 1]
    BY <1>g, <1>11 DEF Retry
  <2>2. tier[r] \in Tiers \cup {None} /\ tier' = [tier EXCEPT ![r] = tier[r]]
    BY <1>0, <2>1 DEF CallsInv
  <2>3. attempt[r] + 1 \in 0..MaxAttempts
    BY <1>0, <2>1, LlmAssumption DEF CallsInv
  <2>4. get_semaphore(tier[r]) = g
    BY <1>g DEF Guard
  <2>5. QED
    BY <1>0, <2>1, <2>2, <2>3, <2>4, EnterStep
<1>12. CASE CancelCall(r)
  <2>1. /\ call[r] \in {"waiting", "running", "backoff"} /\ UNCHANGED <<tier, attempt>>
        /\ call' = [call EXCEPT ![r] = "cancelled"]
    BY <1>12 DEF CancelCall
  <2>2. CASE (call[r] = "running" \/ r \in granted) /\ WakeUp(g, value[g] + 1, RemoveFirst(queue[g], r), r)
    BY <1>8, <2>1, <2>2
  <2>3. CASE /\ call[r] = "waiting" /\ r \notin granted
             /\ queue' = [queue EXCEPT ![g] = RemoveFirst(queue[g], r)]
             /\ UNCHANGED <<value, granted>>
    <3> DEFINE q == RemoveFirst(queue[g], r)
    <3>1. q \in Seq(Requests) /\ ToSet(q) \subseteq ToSet(queue[g]) /\ ToSet(queue[g]) \subseteq ToSet(q) \cup {r}
      <4>1. queue[g] \in Seq(Requests)
        BY <1>0 DEF CallsInv
      <4>2. QED
        BY <4>1, LeaveLine
    <3>2. value' = [value EXCEPT ![g] = value[g]] /\ granted' = (granted \ {r}) \cup {}
      BY <1>0, <2>3 DEF CallsInv
    <3>3. Running(g)' = Running(g)
      <4>1. Running(g)' = Running(g) \ {r}
        BY <1>5, <2>1
      <4>2. QED
        BY <2>3, <4>1 DEF Running
    <3>4. value[g] + Cardinality({}) + Cardinality(Running(g)') + Cardinality(Handed(g) \ {r}) = Permits[g]
      <4>1. Cardinality({}) = 0
        BY FS_EmptySet
      <4>2. Cardinality(Running(g)') = Cardinality(Running(g))
        BY <3>3
      <4>3. QED
        BY <1>0, <1>1, <1>3, <2>3, <4>1, <4>2
    <3>5. value[g] > 0 /\ q # <<>> => \E i \in DOMAIN q : q[i] \in granted'
      <4> HIDE DEF q
      <4> SUFFICES ASSUME value[g] > 0, q # <<>> PROVE \E i \in DOMAIN q : q[i] \in granted'
        OBVIOUS
      <4>1. queue[g] # <<>>
        <5>1. 1 \in DOMAIN q
          BY <3>1
        <5>2. q[1] \in ToSet(queue[g])
          BY <3>1, <5>1, MembersOf
        <5>3. PICK j \in DOMAIN queue[g] : queue[g][j] = q[1]
          BY <5>2, MembersOf
        <5>4. QED
          BY <5>3
      <4>2. PICK j \in DOMAIN queue[g] : queue[g][j] \in granted
        BY <1>0, <4>1 DEF PermitsConserved
      <4>3. queue[g][j] # r /\ queue[g][j] \in ToSet(queue[g])
        BY <2>3, <4>2, MembersOf
      <4>4. PICK i \in DOMAIN q : q[i] = queue[g][j]
        <5>1. queue[g][j] \in ToSet(q)
          BY <3>1, <4>3
        <5>2. QED
          BY <5>1, MembersOf
      <4>5. QED
        BY <2>3, <4>2, <4>4
    <3>6. IsFiniteSet({}) /\ {} \in SUBSET ToSet(q) /\ {} \cap granted = {} /\ IsFiniteSet(Running(g)')
      BY <1>0, <3>3, FS_EmptySet
    <3>7. queue' = [queue EXCEPT ![g] = q]
      BY <2>3
    <3>8. q = RemoveFirst(queue[g], r) /\ g = Guard(r)
      BY <1>g
    <3> HIDE DEF q
    <3>9. QED
      BY <1>0, <2>1, <3>1, <3>2, <3>4, <3>5, <3>6, <3>7, <3>8, Balance
  <2>4. CASE call[r] = "backoff" /\ UNCHANGED <<value, queue, granted>>
    <3>1. /\ call'[r] = "cancelled" /\ \A x \in Requests \ {r} : call'[x] = call[x]
          /\ call' \in [Requests -> {"none", "waiting", "running", "backoff", "answered", "failed", "cancelled"}]
      BY <1>0, <2>1 DEF CallsInv
    <3>2. \A h \in Guards : Running(h)' = Running(h) /\ Handed(h)' = Handed(h)
      <4>1. \A x \in Requests : (call'[x] = "running" <=> call[x] = "running") /\ Guard(x)' = Guard(x)
        BY <2>1, <2>4, <3>1 DEF Guard
      <4>2. \A h \in Guards : Running(h)' = Running(h)
        BY <4>1 DEF Running
      <4>3. \A h \in Guards : Handed(h)' = Handed(h)
        BY <1>0, <2>4, <4>1 DEF Handed, CallsInv
      <4>4. QED
        BY <4>2, <4>3
    <3>3. CallsInv'
      BY <1>0, <2>1, <2>4, <3>1 DEF CallsInv
    <3>4. LinesInv'
      <4>1. \A h \in Guards : queue[h] \in Seq(Requests)
        BY <1>0 DEF CallsInv
      <4>2. \A x \in Requests : call'[x] = "waiting" <=> call[x] = "waiting"
        BY <2>4, <3>1
      <4>3. \A h \in Guards : \A i \in DOMAIN queue[h] : queue[h][i] \in Requests
        BY <4>1
      <4>4. QED
        BY <1>0, <2>1, <2>4, <4>2, <4>3 DEF LinesInv, Guard
    <3>5. PermitsConserved'
      BY <1>0, <2>4, <3>2 DEF PermitsConserved, Running, Handed
    <3>6. \A h \in Guards : IsFiniteSet(Running(h)') /\ IsFiniteSet(Handed(h)')
      BY <3>2 DEF PermitsInv
    <3>7. QED
      BY <3>3, <3>4, <3>5, <3>6 DEF PermitsInv
  <2>5. QED
    BY <1>g, <1>12, <2>2, <2>3, <2>4 DEF CancelCall
<1>13. QED
  BY <1>7, <1>10, <1>11, <1>12 DEF LlmStep

\* The steps by what they do to the calls.
LEMMA CallKinds ==
  ASSUME [Next]_runtimeVars
  PROVE  \/ UNCHANGED llmVars
         \/ \E r \in Requests : LlmStep(r) \/ CancelCall(r) \/ \E t \in Tiers : StartCall(r, t)
BY DEF Next, StopServing, CallModel, CallTool, Cancel, runtimeVars

\* Permits are neither lost nor doubled, and nobody is forgotten in the line.
THEOREM PermitsBalance == Spec => []PermitsInv
<1>1. Init => PermitsInv
  <2> SUFFICES ASSUME Init PROVE PermitsInv
    OBVIOUS
  <2> USE LlmAssumption
  <2>1. \A g \in Guards : Running(g) = {} /\ Handed(g) = {} /\ value[g] = Permits[g] /\ Permits[g] \in Nat
    BY DEF Init, LlmInit, Running, Handed
  <2>2. \A g \in Guards : /\ IsFiniteSet(Running(g)) /\ Cardinality(Running(g)) = 0
                          /\ IsFiniteSet(Handed(g)) /\ Cardinality(Handed(g)) = 0
    BY <2>1, FS_EmptySet, Zenon
  <2>3. PermitsConserved
    <3> SUFFICES ASSUME NEW g \in Guards
                 PROVE  /\ value[g] + Cardinality(Running(g)) + Cardinality(Handed(g)) = Permits[g]
                        /\ queue[g] = <<>>
      BY DEF PermitsConserved, Running, Handed
    <3>1. QED
      BY <2>1, <2>2 DEF Init, LlmInit
  <2>4. CallsInv
    <3>1. \A g \in Guards : <<>> \in Seq(Requests) /\ Permits[g] \in Nat
      OBVIOUS
    <3>2. /\ call = [r \in Requests |-> "none"] /\ tier = [r \in Requests |-> None]
          /\ attempt = [r \in Requests |-> 0] /\ value = Permits
          /\ queue = [g \in Guards |-> <<>>] /\ granted = {}
      BY DEF Init, LlmInit
    <3>3. 0 \in 0..MaxAttempts /\ value \in [Guards -> Nat] /\ queue \in [Guards -> Seq(Requests)]
      BY <3>1, <3>2
    <3>4. QED
      BY <3>2, <3>3 DEF CallsInv
  <2>5. LinesInv
    BY DEF LinesInv, Init, LlmInit
  <2>6. QED
    BY <2>1, <2>2, <2>3, <2>4, <2>5 DEF PermitsInv
<1>2. PermitsInv /\ [Next]_runtimeVars => PermitsInv'
  <2> SUFFICES ASSUME PermitsInv, [Next]_runtimeVars PROVE PermitsInv'
    OBVIOUS
  <2>1. CASE UNCHANGED llmVars
    <3>1. UNCHANGED <<call, tier, attempt, value, queue, granted>>
      BY <2>1 DEF llmVars
    <3>2. \A g \in Guards : Running(g)' = Running(g) /\ Handed(g)' = Handed(g)
      BY <3>1 DEF Running, Handed, Guard
    <3>3. CallsInv'
      BY <3>1 DEF PermitsInv, CallsInv
    <3>4. LinesInv'
      BY <3>1 DEF PermitsInv, LinesInv, Guard
    <3>5. PermitsConserved'
      BY <3>1, <3>2 DEF PermitsInv, PermitsConserved, Running, Handed
    <3>6. \A g \in Guards : IsFiniteSet(Running(g)') /\ IsFiniteSet(Handed(g)')
      BY <3>2, Zenon DEF PermitsInv
    <3>7. QED
      BY <3>3, <3>4, <3>5, <3>6 DEF PermitsInv
  <2>2. ASSUME NEW r \in Requests, LlmStep(r) \/ CancelCall(r) PROVE PermitsInv'
    BY <2>2, LlmStepBalances
  <2>3. ASSUME NEW r \in Requests, NEW t \in Tiers, StartCall(r, t) PROVE PermitsInv'
    <3>1. get_semaphore(t) \in Guards /\ 1 \in 0..MaxAttempts
      BY LlmAssumption DEF get_semaphore, Guards
    <3>2. /\ call[r] = "none" /\ Enter(r, get_semaphore(t)) /\ tier' = [tier EXCEPT ![r] = t]
          /\ attempt' = [attempt EXCEPT ![r] = 1] /\ UNCHANGED granted
      BY <2>3 DEF StartCall
    <3>3. QED
      BY <3>1, <3>2, EnterStep
  <2>4. QED
    BY <2>1, <2>2, <2>3, CallKinds
<1>3. QED
  BY <1>1, <1>2, PTL DEF Spec

\* What is left, in use and handed over adds up to each semaphore's capacity.
THEOREM PermitsAreConserved == Spec => []PermitsConserved
<1>1. PermitsInv => PermitsConserved
  BY DEF PermitsInv
<1>2. QED
  BY <1>1, PermitsBalance, PTL

\* Who waits for a permit waits for somebody, and the lock's holder is at work.
THEOREM NobodyWaitsInVain == Spec => []WaitsForSomebody
<1>1. PermitsInv /\ CallersInv => WaitsForSomebody
  <2> SUFFICES ASSUME PermitsInv, CallersInv PROVE WaitsForSomebody
    OBVIOUS
  <2>1. ASSUME NEW r \in Requests, call[r] = "waiting"
        PROVE  \E w \in Requests : (call[w] = "running" \/ w \in granted) /\ Guard(w) = Guard(r)
    <3>1. PICK g \in Guards : g = Guard(r)
      BY DEF Guard, get_semaphore, Guards
    <3>2. /\ value[g] \in Nat /\ Permits[g] \in Nat \ {0} /\ queue[g] \in Seq(Requests)
          /\ value[g] + Cardinality(Running(g)) + Cardinality(Handed(g)) = Permits[g]
      BY <3>1, LlmAssumption DEF PermitsInv, CallsInv, PermitsConserved, Running, Handed
    <3>3. CASE value[g] > 0
      <4>1. queue[g] # <<>>
        <5>1. r \in ToSet(queue[g])
          BY <2>1, <3>1 DEF PermitsInv, LinesInv
        <5>2. PICK i \in DOMAIN queue[g] : queue[g][i] = r
          BY <5>1, MembersOf
        <5>3. QED
          BY <5>2
      <4>2. PICK i \in DOMAIN queue[g] : queue[g][i] \in granted
        BY <3>1, <3>3, <4>1 DEF PermitsInv, PermitsConserved
      <4>3. queue[g][i] \in Requests /\ Guard(queue[g][i]) = g
        BY <3>1, <3>2, <4>2 DEF PermitsInv, LinesInv
      <4>4. QED
        BY <3>1, <4>2, <4>3
    <3>4. CASE value[g] = 0
      <4>1. Running(g) # {} \/ Handed(g) # {}
        <5>1. Cardinality(Running(g)) # 0 \/ Cardinality(Handed(g)) # 0
          BY <3>2, <3>4
        <5>2. QED
          BY <5>1, FS_EmptySet, Zenon
      <4>2. granted \subseteq Requests
        BY DEF PermitsInv, CallsInv
      <4>3. QED
        BY <3>1, <4>1, <4>2 DEF Running, Handed
    <3>5. QED
      BY <3>2, <3>3, <3>4
  <2>2. \A c \in lock : step[c] \in {"closing", "connecting"}
    BY DEF CallersInv, Holding
  <2>3. QED
    BY <2>1, <2>2 DEF WaitsForSomebody
<1>2. QED
  BY <1>1, PermitsBalance, OneHolder, PTL

-----------------------------------------------------------------------------
(* Types *)

SessionsTyped ==
  /\ sessions \subseteq Session /\ tools \subseteq Session /\ stack \subseteq Session
  /\ alive \subseteq Session /\ loaded \subseteq Session
  /\ silent \in [Callers -> SUBSET Session] /\ graph \in [Callers -> SUBSET Session]
  /\ line \in Seq(Callers) /\ todo \in Seq(Names)
  /\ studio \in BOOLEAN /\ configured \in BOOLEAN /\ initialized \in BOOLEAN
  /\ opened \in Nat /\ deaths \in 0..MaxDeaths /\ late \in 0..MaxLate

\* Whose steps touch the line or the sessions asked for a sign of life.
LEMMA WaitersStayTyped ==
  ASSUME SessionsTyped, NEW c \in Callers,
         \/ Hear(c) \/ Miss(c) \/ CallFactory(c) \/ Start \/ BeginReset(c) \/ CancelCaller(c)
  PROVE  SessionsTyped'
<1> USE Assumed, McpAssumption
<1>1. /\ Append(line, c) \in Seq(Callers) /\ Append(line, Main) \in Seq(Callers)
      /\ line # <<>> => Tail(line) \in Seq(Callers)
      /\ RemoveFirst(line, c) \in Seq(Callers)
  BY LeaveLine DEF SessionsTyped
<1>2. CASE Hear(c)
  <2>1. PICK s \in silent[c] \cap alive :
          /\ silent' = [silent EXCEPT ![c] = silent[c] \ {s}]
          /\ line' \in {line, Append(line, c)}
    BY <1>2 DEF Hear, Queue
  <2>2. /\ UNCHANGED <<studio, configured, initialized, sessions, tools, stack, alive, todo, loaded, graph>>
        /\ UNCHANGED <<opened, deaths, late>>
    BY <1>2 DEF Hear
  <2>3. silent' \in [Callers -> SUBSET Session]
    BY <2>1 DEF SessionsTyped
  <2>4. QED
    BY <1>1, <2>1, <2>2, <2>3 DEF SessionsTyped
<1>3. CASE Miss(c)
  <2>1. /\ silent' = [silent EXCEPT ![c] = {}] /\ line' = Append(line, c)
        /\ UNCHANGED <<studio, configured, initialized, sessions, tools, stack, alive, todo, loaded, graph>>
        /\ UNCHANGED <<opened, deaths>>
    BY <1>3 DEF Miss, Queue
  <2>2. late' \in 0..MaxLate
    BY <1>3 DEF Miss, SessionsTyped
  <2>3. silent' \in [Callers -> SUBSET Session]
    BY <2>1 DEF SessionsTyped
  <2>4. QED
    BY <1>1, <2>1, <2>2, <2>3 DEF SessionsTyped
<1>4. CASE CallFactory(c)
  <2>1. /\ line' \in {line, Append(line, c)}
        /\ silent' \in {silent, [silent EXCEPT ![c] = sessions]}
        /\ UNCHANGED <<studio, configured, initialized, sessions, tools, stack, alive, todo, loaded, graph>>
        /\ UNCHANGED <<opened, deaths, late>>
    BY <1>4 DEF CallFactory, Queue
  <2>2. silent' \in [Callers -> SUBSET Session]
    BY <2>1 DEF SessionsTyped
  <2>3. QED
    BY <1>1, <2>1, <2>2 DEF SessionsTyped
<1>5. CASE Start
  BY <1>1, <1>5 DEF Start, Queue, SessionsTyped
<1>6. CASE BeginReset(c)
  BY <1>1, <1>6 DEF BeginReset, Acquire, SessionsTyped
<1>7. CASE CancelCaller(c)
  <2>1. /\ line' = RemoveFirst(line, c) /\ silent' = [silent EXCEPT ![c] = {}]
        /\ UNCHANGED <<studio, configured, initialized, sessions, tools, graph, opened, deaths, late>>
    BY <1>7 DEF CancelCaller
  <2>2. /\ todo' \in {todo, <<>>} /\ loaded' \in {loaded, {}}
        /\ stack' \in {stack, {}} /\ alive' \in {alive, alive \ stack}
    BY <1>7 DEF CancelCaller, Close
  <2>3. silent' \in [Callers -> SUBSET Session] /\ <<>> \in Seq(Names)
    BY <2>1 DEF SessionsTyped
  <2>4. todo' \in Seq(Names) /\ loaded' \subseteq Session /\ stack' \subseteq Session /\ alive' \subseteq Session
    BY <2>2, <2>3 DEF SessionsTyped
  <2>5. QED
    BY <1>1, <2>1, <2>3, <2>4 DEF SessionsTyped
<1>8. QED
  BY <1>2, <1>3, <1>4, <1>5, <1>6, <1>7

\* The steps of the lock's holder, of a dying server and of the process.
LEMMA HoldersStayTyped ==
  ASSUME SessionsTyped, NEW c \in Callers,
         \/ CloseSession(c) \/ EndReset(c) \/ Initialize(c) \/ Connect(c) \/ Finish(c) \/ Death \/ Shutdown
  PROVE  SessionsTyped'
<1> USE Assumed, McpAssumption
<1>1. CASE EndReset(c)
  <2>1. Append(line, c) \in Seq(Callers)
    BY DEF SessionsTyped
  <2>2. QED
    BY <1>1, <2>1 DEF EndReset, Cleared, Queue, SessionsTyped
<1>2. CASE Initialize(c)
  <2>1. line' \in Seq(Callers)
    BY <1>2 DEF Initialize, Acquire, SessionsTyped
  <2>2. todo' \in {todo, Servers} /\ loaded' \in {loaded, {}} /\ graph' \in {graph, [graph EXCEPT ![c] = tools]}
    BY <1>2 DEF Initialize
  <2>3. graph' \in [Callers -> SUBSET Session]
    BY <2>2 DEF SessionsTyped
  <2>4. /\ UNCHANGED <<studio, configured, silent, initialized, sessions, tools, stack, alive>>
        /\ UNCHANGED <<opened, deaths, late>>
    BY <1>2 DEF Initialize
  <2>5. todo' \in Seq(Names) /\ loaded' \subseteq Session
    BY <2>2 DEF SessionsTyped
  <2>6. QED
    BY <2>1, <2>3, <2>4, <2>5 DEF SessionsTyped
<1>3. CASE Connect(c)
  <2>1. todo # <<>> /\ todo' = Tail(todo) /\ todo \in Seq(Names) /\ opened \in Nat
    BY <1>3 DEF Connect, SessionsTyped
  <2>2. todo' \in Seq(Names) /\ Head(todo) \in Names /\ opened + 1 \in Nat
    BY <2>1
  <2>3. PICK s \in Session : s = [server |-> Head(todo), nr |-> opened + 1]
    BY <2>2 DEF Session
  <2>4. /\ opened' \in {opened, opened + 1}
        /\ stack' \in {stack, stack \cup {s}} /\ alive' \in {alive, alive \cup {s}}
        /\ sessions' \in {sessions, {x \in sessions : x.server # s.server} \cup {s}}
        /\ loaded' \in {loaded, loaded \cup {s}}
    BY <1>3, <2>3 DEF Connect
  <2>5. /\ UNCHANGED <<studio, configured, silent, line, initialized, tools, graph>>
        /\ UNCHANGED <<deaths, late>>
    BY <1>3 DEF Connect
  <2>6. /\ opened' \in Nat /\ stack' \subseteq Session /\ alive' \subseteq Session
        /\ sessions' \subseteq Session /\ loaded' \subseteq Session
    BY <2>2, <2>4 DEF SessionsTyped
  <2>7. QED
    BY <2>2, <2>5, <2>6 DEF SessionsTyped
<1>4. CASE Finish(c)
  <2>1. graph' = [graph EXCEPT ![c] = loaded]
    BY <1>4 DEF Finish
  <2>2. graph' \in [Callers -> SUBSET Session]
    BY <2>1 DEF SessionsTyped
  <2>3. QED
    BY <1>4, <2>2 DEF Finish, SessionsTyped
<1>5. CASE Death
  <2>1. deaths' \in 0..MaxDeaths /\ alive' \subseteq alive
    BY <1>5 DEF Death, SessionsTyped
  <2>2. QED
    BY <1>5, <2>1 DEF Death, SessionsTyped
<1>6. CASE Shutdown
  BY <1>6 DEF Shutdown, Close, SessionsTyped
<1>7. CASE CloseSession(c)
  BY <1>7 DEF CloseSession, SessionsTyped
<1>8. QED
  BY <1>1, <1>2, <1>3, <1>4, <1>5, <1>6, <1>7

\* Sessions belong to configured servers, and callers wait in a line of callers.
THEOREM SessionsAreTyped == Spec => []SessionsTyped
<1>1. Init => SessionsTyped
  <2>1. <<>> \in Seq(Callers) /\ <<>> \in Seq(Names)
    OBVIOUS
  <2> SUFFICES ASSUME Init PROVE SessionsTyped
    OBVIOUS
  <2>2. silent = [c \in Callers |-> {}] /\ graph = [c \in Callers |-> {}]
    BY DEF Init, McpInit
  <2>3. silent \in [Callers -> SUBSET Session] /\ graph \in [Callers -> SUBSET Session]
    BY <2>2
  <2>4. 0 \in 0..MaxDeaths /\ 0 \in 0..MaxLate
    BY McpAssumption
  <2>5. QED
    BY <2>1, <2>3, <2>4 DEF Init, McpInit, SessionsTyped
<1>2. SessionsTyped /\ [Next]_runtimeVars => SessionsTyped'
  <2> SUFFICES ASSUME SessionsTyped, [Next]_runtimeVars PROVE SessionsTyped'
    OBVIOUS
  <2>1. CASE UNCHANGED mcpVars
    BY <2>1 DEF mcpVars, SessionsTyped
  <2>2. CASE Start \/ Death \/ Shutdown
    BY <2>2, Assumed, WaitersStayTyped, HoldersStayTyped
  <2>3. ASSUME NEW c \in Callers, McpStep(c) PROVE SessionsTyped'
    BY <2>3, WaitersStayTyped, HoldersStayTyped DEF McpStep
  <2>4. ASSUME NEW c \in Callers, CallFactory(c) \/ CancelCaller(c) PROVE SessionsTyped'
    BY <2>4, WaitersStayTyped
  <2>5. QED
    BY <2>1, <2>2, <2>3, <2>4, StepKinds
<1>3. QED
  BY <1>1, <1>2, PTL DEF Spec

UseTyped ==
  /\ bound \in (SUBSET Registry) \cup {None}
  /\ used \in [Requests -> {None, "served", "invalid", "failed"}]

LEMMA UseIsTyped == Spec => []UseTyped
<1>1. Init => UseTyped
  <2> SUFFICES ASSUME Init PROVE UseTyped
    OBVIOUS
  <2>1. bound = None /\ used = [r \in Requests |-> None]
    BY DEF Init
  <2>2. used \in [Requests -> {None, "served", "invalid", "failed"}]
    BY <2>1
  <2>3. bound \in (SUBSET Registry) \cup {None}
    BY <2>1
  <2>4. QED
    BY <2>2, <2>3 DEF UseTyped
<1>2. UseTyped /\ [Next]_runtimeVars => UseTyped'
  <2> SUFFICES ASSUME UseTyped, [Next]_runtimeVars PROVE UseTyped'
    OBVIOUS
  <2>1. CASE UNCHANGED <<bound, used>>
    BY <2>1 DEF UseTyped
  <2>2. ASSUME NEW r \in Requests, NEW t \in Tiers, CallModel(r, t) PROVE UseTyped'
    <3>1. get_tools_by_domain \in SUBSET Registry
      BY DEF get_tools_by_domain
    <3>2. bound' \in {bound, get_tools_by_domain} /\ used' = used
      BY <2>2 DEF CallModel
    <3>3. QED
      BY <3>1, <3>2 DEF UseTyped
  <2>3. ASSUME NEW r \in Requests, NEW name, CallTool(r, name) PROVE UseTyped'
    <3>1. PICK u \in {"served", "invalid", "failed"} : used' = [used EXCEPT ![r] = u]
      BY <2>3 DEF CallTool
    <3>2. bound' = bound
      BY <2>3 DEF CallTool
    <3>3. QED
      BY <3>1, <3>2 DEF UseTyped
  <2>4. QED
    BY <2>1, <2>2, <2>3 DEF Next, StopServing, Cancel, runtimeVars
<1>3. QED
  BY <1>1, <1>2, PTL DEF Spec

\* Every variable has its type; an attempt never exceeds MaxAttempts.
THEOREM TypeCorrect == Spec => []TypeOK
<1>1. PermitsInv /\ CallersInv /\ SessionsTyped /\ UseTyped => TypeOK
  <2> SUFFICES ASSUME PermitsInv, CallersInv, SessionsTyped, UseTyped PROVE TypeOK
    OBVIOUS
  <2>1. /\ call \in [Requests -> {"none", "waiting", "running", "backoff", "answered", "failed", "cancelled"}]
        /\ tier \in [Requests -> Tiers \cup {None}]
        /\ attempt \in [Requests -> 0..MaxAttempts]
        /\ value \in [Guards -> Nat]
        /\ queue \in [Guards -> Seq(Requests)]
        /\ granted \subseteq Requests
    BY DEF PermitsInv, CallsInv
  <2>2. step \in [Callers -> Steps] /\ lock \in SUBSET Callers
    BY DEF CallersInv
  <2>3. \A S \in {sessions, tools, stack, alive, loaded} : S \subseteq Session
    BY DEF SessionsTyped
  <2>4. QED
    BY <2>1, <2>2, <2>3 DEF SessionsTyped, UseTyped, TypeOK
<1>2. QED
  BY <1>1, PermitsBalance, OneHolder, SessionsAreTyped, UseIsTyped, PTL
=============================================================================
