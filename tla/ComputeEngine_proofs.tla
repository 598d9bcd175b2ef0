------------------------ MODULE ComputeEngine_proofs ------------------------
(* Proofs about ComputeEngine, for every set of images, restart limit and  *)
(* number of launches.                                                     *)
EXTENDS ComputeEngine, TLAPS

(* Where a call stands fixes what it holds: the supervisor is in the       *)
(* engine's field or in a local variable, never in both, and a launch is   *)
(* for the image the engine will answer for.                               *)
CallInv ==
    /\ op = "idle" <=> step = "idle"
    /\ step \in {"idle", "drop", "start", "spawn"} => fresh = NoWorker
    /\ step \in {"drop", "start"} => op = "generate" /\ worker_supervisor # NoWorker
    /\ step \in {"spawn", "hello", "acked", "loading"} =>
          /\ op \in {"load", "generate"}
          /\ worker_supervisor = NoWorker
          /\ target \in Images
          /\ op = "generate" => target = loaded_model
    /\ step \in {"hello", "acked", "loading"} => fresh \in Workers /\ image[fresh] = target
    /\ step = "teardown" => op = "unload" /\ fresh \in Workers /\ worker_supervisor = NoWorker

(* A worker has answered Hello before it can be supervised or hold a       *)
(* request; numbers of workers not yet spawned are unused.                 *)
ShakenInv ==
    /\ \A w \in shaken : w <= launched
    /\ fresh <= launched
    /\ busy \subseteq shaken
    /\ worker_supervisor # NoWorker => worker_supervisor \in shaken
    /\ step = "loading" => fresh \in shaken
    /\ step \in {"hello", "acked"} => fresh \notin shaken

IInv ==
    /\ TypeOK
    /\ CallInv
    /\ ShakenInv
    /\ ServesLoadedModel
    /\ NothingLeftBehind

\* Steps of the workers and of the threads beside the call.
Background(w) ==
    \/ \E f \in {"HelloAck", "Heartbeat"} : reader_loads_flag(w, f)
    \/ reader_forwards(w) \/ reader_routes_validated(w) \/ reader_model_ready(w)
    \/ reader_terminal(w) \/ fault(w) \/ worker_exits(w)

\* Steps by which a call begins, and the calls that are one step.
BeginStep ==
    \/ set_worker_binary_path \/ generate \/ unload_model \/ shutdown
    \/ \E i \in Images : load_model(i)

(* The initial states satisfy the invariant.                               *)
LEMMA InitIInv == Init => IInv
  BY EngineAssumption DEF Init, IInv, TypeOK, CallInv, ShakenInv, ServesLoadedModel,
     NothingLeftBehind, Workers, NoWorker, Phase, Frame

(* What runs beside a call touches neither the engine nor the call.        *)
LEMMA BackgroundFrame ==
    ASSUME NEW w \in Workers, Background(w)
    PROVE  busy' \subseteq busy /\ UNCHANGED <<engineVars, callVars, launched, image, shaken>>
  BY DEF Background, reader_loads_flag, reader_forwards, reader_routes_validated,
     reader_model_ready, reader_lifecycle, reader_terminal, fault, worker_exits, workerVars,
     threadVars

(* Every step keeps types and the bound on restarts.                       *)
LEMMA TypeStep == ASSUME IInv, [Next]_vars PROVE TypeOK'
<1> USE DEF IInv, TypeOK
<1>a. 0 \in 0 .. RestartLimit
  BY EngineAssumption
<1>1. ASSUME BeginStep PROVE TypeOK'
  <2>1. ASSUME set_worker_binary_path PROVE TypeOK'
    BY <2>1 DEF set_worker_binary_path, callVars, workerVars, threadVars
  <2>2. ASSUME generate PROVE TypeOK'
    BY <2>2, EngineAssumption DEF generate, ensure_active_worker, workerVars, threadVars
  <2>3. ASSUME unload_model PROVE TypeOK'
    BY <2>3 DEF unload_model, workerVars, threadVars
  <2>4. ASSUME shutdown PROVE TypeOK'
    BY <2>4, <1>a DEF shutdown, Discard, callVars, Phase
  <2>5. ASSUME NEW i \in Images, load_model(i) PROVE TypeOK'
    BY <2>5 DEF load_model, engineVars, workerVars, threadVars
  <2> QED BY <1>1, <2>1, <2>2, <2>3, <2>4, <2>5 DEF BeginStep
<1>2. ASSUME CallStep PROVE TypeOK'
  <2>1. ASSUME restart_worker PROVE TypeOK'
    BY <2>1 DEF restart_worker, Discard, Return, CallInv, Phase
  <2>2. ASSUME start_generation PROVE TypeOK'
    BY <2>2 DEF start_generation, Return, CallInv, engineVars, threadVars
  <2>3. ASSUME unload_done PROVE TypeOK'
    BY <2>3, <1>a DEF unload_done, Discard, Return, CallInv, Phase
  <2>4. ASSUME load_fails PROVE TypeOK'
    BY <2>4 DEF load_fails, Discard, Return, CallInv, engineVars, Phase
  <2>5. ASSUME spawn PROVE TypeOK'
    BY <2>5, EngineAssumption DEF spawn, CallInv, engineVars, Workers
  <2>6. ASSUME spawn_fails PROVE TypeOK'
    BY <2>6 DEF spawn_fails, Return, engineVars, workerVars, threadVars
  <2>7. ASSUME hello_acked PROVE TypeOK'
    BY <2>7 DEF hello_acked, engineVars, workerVars, threadVars
  <2>8. ASSUME hello_fails PROVE TypeOK'
    BY <2>8 DEF hello_fails, Return, engineVars, workerVars, threadVars
  <2>9. ASSUME handshake_done PROVE TypeOK'
    BY <2>9 DEF handshake_done, CallInv, engineVars, workerVars
  <2>10. ASSUME load_ready PROVE TypeOK'
    BY <2>10, <1>a DEF load_ready, Return, CallInv, workerVars, threadVars
  <2> QED BY <1>2, <2>1, <2>2, <2>3, <2>4, <2>5, <2>6, <2>7, <2>8, <2>9, <2>10 DEF CallStep
<1>3. ASSUME NEW w \in Workers, Background(w) PROVE TypeOK'
  <2>1. ASSUME NEW f \in {"HelloAck", "Heartbeat"}, reader_loads_flag(w, f) PROVE TypeOK'
    BY <2>1 DEF reader_loads_flag, engineVars, callVars, workerVars
  <2>2. ASSUME reader_forwards(w) PROVE TypeOK'
    BY <2>2 DEF reader_forwards, engineVars, callVars, workerVars, Frame
  <2>3. ASSUME reader_routes_validated(w) \/ reader_model_ready(w)
        PROVE TypeOK'
    BY <2>3 DEF reader_routes_validated, reader_model_ready, reader_lifecycle, engineVars,
       callVars, Phase, Frame
  <2>4. ASSUME reader_terminal(w) PROVE TypeOK'
    BY <2>4 DEF reader_terminal, engineVars, callVars, threadVars
  <2>5. ASSUME fault(w) PROVE TypeOK'
    BY <2>5 DEF fault, engineVars, callVars, Phase
  <2>6. ASSUME worker_exits(w) PROVE TypeOK'
    BY <2>6 DEF worker_exits, engineVars, callVars, threadVars
  <2> QED BY <1>3, <2>1, <2>2, <2>3, <2>4, <2>5, <2>6 DEF Background
<1>4. ASSUME UNCHANGED vars PROVE TypeOK'
  BY <1>4 DEF vars, engineVars, callVars, workerVars, threadVars
<1> QED BY <1>1, <1>2, <1>3, <1>4 DEF Next, BeginStep, Background

(* Every step keeps the call and what it holds consistent.                 *)
LEMMA CallStepInv == ASSUME IInv, [Next]_vars PROVE CallInv' /\ ShakenInv'
<1> USE EngineAssumption DEF IInv, TypeOK, NoWorker, Workers, CallInv, ShakenInv
<1>1. ASSUME BeginStep PROVE CallInv' /\ ShakenInv'
  <2>1. ASSUME set_worker_binary_path PROVE CallInv' /\ ShakenInv'
    BY <2>1 DEF set_worker_binary_path, callVars, workerVars, threadVars
  <2>2. ASSUME generate PROVE CallInv' /\ ShakenInv'
    BY <2>2 DEF generate, ensure_active_worker, workerVars, threadVars
  <2>3. ASSUME unload_model PROVE CallInv' /\ ShakenInv'
    BY <2>3 DEF unload_model, workerVars, threadVars
  <2>4. ASSUME shutdown PROVE CallInv' /\ ShakenInv'
    <3>1. CASE worker_supervisor = NoWorker
      BY <2>4, <3>1 DEF shutdown, callVars
    <3>2. CASE worker_supervisor # NoWorker
      BY <2>4, <3>2 DEF shutdown, Discard, callVars
    <3> QED BY <3>1, <3>2
  <2>5. ASSUME NEW i \in Images, load_model(i) PROVE CallInv' /\ ShakenInv'
    BY <2>5 DEF load_model, engineVars, workerVars, threadVars
  <2> QED BY <1>1, <2>1, <2>2, <2>3, <2>4, <2>5 DEF BeginStep
<1>2. ASSUME CallStep PROVE CallInv' /\ ShakenInv'
  <2>1. ASSUME restart_worker PROVE CallInv' /\ ShakenInv'
    BY <2>1 DEF restart_worker, Discard, Return, ServesLoadedModel
  <2>2. ASSUME start_generation PROVE CallInv' /\ ShakenInv'
    BY <2>2 DEF start_generation, Return, engineVars, threadVars
  <2>3. ASSUME unload_done PROVE CallInv' /\ ShakenInv'
    BY <2>3 DEF unload_done, Discard, Return
  <2>4. ASSUME load_fails PROVE CallInv' /\ ShakenInv'
    BY <2>4 DEF load_fails, Discard, Return, CallInv, engineVars
  <2>5. ASSUME spawn PROVE CallInv' /\ ShakenInv'
    BY <2>5 DEF spawn, engineVars
  <2>6. ASSUME spawn_fails PROVE CallInv' /\ ShakenInv'
    BY <2>6 DEF spawn_fails, Return, engineVars, workerVars, threadVars
  <2>7. ASSUME hello_acked PROVE CallInv' /\ ShakenInv'
    BY <2>7 DEF hello_acked, engineVars, workerVars, threadVars
  <2>8. ASSUME hello_fails PROVE CallInv' /\ ShakenInv'
    BY <2>8 DEF hello_fails, Return, engineVars, workerVars, threadVars
  <2>9. ASSUME handshake_done PROVE CallInv' /\ ShakenInv'
    BY <2>9 DEF handshake_done, engineVars, workerVars
  <2>10. ASSUME load_ready PROVE CallInv' /\ ShakenInv'
    BY <2>10 DEF load_ready, Return, workerVars, threadVars
  <2> QED BY <1>2, <2>1, <2>2, <2>3, <2>4, <2>5, <2>6, <2>7, <2>8, <2>9, <2>10 DEF CallStep
<1>3. ASSUME NEW w \in Workers, Background(w) PROVE CallInv' /\ ShakenInv'
  <2>1. busy' \subseteq busy /\ UNCHANGED <<engineVars, callVars, launched, image, shaken>>
    BY <1>3, BackgroundFrame
  <2>2. CallInv'
    BY <2>1 DEF engineVars, callVars
  <2>3. ShakenInv'
    BY <2>1 DEF engineVars, callVars
  <2> QED BY <2>2, <2>3
<1>4. ASSUME UNCHANGED vars PROVE CallInv' /\ ShakenInv'
  BY <1>4 DEF vars, engineVars, callVars, workerVars, threadVars
<1> QED BY <1>1, <1>2, <1>3, <1>4 DEF Next, BeginStep, Background

(* Every step keeps the engine's answer for its model true.                *)
LEMMA ServesStep == ASSUME IInv, [Next]_vars PROVE ServesLoadedModel'
<1> USE EngineAssumption DEF IInv, TypeOK, NoWorker, Workers, CallInv, ServesLoadedModel
<1>1. ASSUME BeginStep PROVE ServesLoadedModel'
  BY <1>1 DEF BeginStep, set_worker_binary_path, generate, ensure_active_worker,
     unload_model, shutdown, load_model, engineVars, workerVars
<1>2. ASSUME CallStep PROVE ServesLoadedModel'
  <2>1. ASSUME load_ready PROVE ServesLoadedModel'
    BY <2>1 DEF load_ready, workerVars
  <2>2. ASSUME spawn PROVE ServesLoadedModel'
    BY <2>2 DEF spawn, engineVars
  <2>3. ASSUME restart_worker \/ unload_done PROVE ServesLoadedModel'
    BY <2>3 DEF restart_worker, unload_done
  <2>4. ASSUME start_generation \/ spawn_fails \/ hello_acked \/ hello_fails \/ handshake_done
               \/ load_fails
        PROVE ServesLoadedModel'
    BY <2>4 DEF start_generation, spawn_fails, hello_acked, hello_fails, handshake_done, load_fails,
       engineVars, workerVars
  <2> QED BY <1>2, <2>1, <2>2, <2>3, <2>4 DEF CallStep
<1>3. ASSUME NEW w \in Workers, Background(w) PROVE ServesLoadedModel'
  BY <1>3, BackgroundFrame DEF engineVars
<1>4. ASSUME UNCHANGED vars PROVE ServesLoadedModel'
  BY <1>4 DEF vars, engineVars, workerVars
<1> QED BY <1>1, <1>2, <1>3, <1>4 DEF Next, BeginStep, Background

(* Every step that lets go of a supervisor kills its worker, and no other  *)
(* step brings a worker to life that nobody owns.                          *)
LEMMA LeftBehindStep == ASSUME IInv, [Next]_vars PROVE NothingLeftBehind'
<1> USE EngineAssumption DEF IInv, TypeOK, NoWorker, Workers, CallInv, ShakenInv, NothingLeftBehind
<1>1. ASSUME BeginStep PROVE NothingLeftBehind'
  <2>1. ASSUME set_worker_binary_path PROVE NothingLeftBehind'
    BY <2>1 DEF set_worker_binary_path, callVars, workerVars, threadVars
  <2>2. ASSUME generate PROVE NothingLeftBehind'
    BY <2>2 DEF generate, ensure_active_worker, workerVars, threadVars
  <2>3. ASSUME unload_model PROVE NothingLeftBehind'
    BY <2>3 DEF unload_model, workerVars, threadVars
  <2>4. ASSUME shutdown PROVE NothingLeftBehind'
    <3>1. CASE worker_supervisor = NoWorker
      BY <2>4, <3>1 DEF shutdown, callVars
    <3>2. CASE worker_supervisor # NoWorker
      BY <2>4, <3>2 DEF shutdown, Discard, callVars
    <3> QED BY <3>1, <3>2
  <2>5. ASSUME NEW i \in Images, load_model(i) PROVE NothingLeftBehind'
    BY <2>5 DEF load_model, engineVars, workerVars, threadVars
  <2> QED BY <1>1, <2>1, <2>2, <2>3, <2>4, <2>5 DEF BeginStep
<1>2. ASSUME CallStep PROVE NothingLeftBehind'
  <2>1. ASSUME restart_worker PROVE NothingLeftBehind'
    BY <2>1 DEF restart_worker, Discard, Return
  <2>2. ASSUME start_generation PROVE NothingLeftBehind'
    BY <2>2 DEF start_generation, Return, engineVars, threadVars
  <2>3. ASSUME unload_done PROVE NothingLeftBehind'
    BY <2>3 DEF unload_done, Discard, Return
  <2>4. ASSUME load_fails PROVE NothingLeftBehind'
    BY <2>4 DEF load_fails, Discard, Return, CallInv, engineVars
  <2>5. ASSUME spawn PROVE NothingLeftBehind'
    BY <2>5 DEF spawn, engineVars
  <2>6. ASSUME spawn_fails PROVE NothingLeftBehind'
    BY <2>6 DEF spawn_fails, Return, engineVars, workerVars, threadVars
  <2>7. ASSUME hello_acked PROVE NothingLeftBehind'
    BY <2>7 DEF hello_acked, engineVars, workerVars, threadVars
  <2>8. ASSUME hello_fails PROVE NothingLeftBehind'
    BY <2>8 DEF hello_fails, Return, engineVars, workerVars, threadVars
  <2>9. ASSUME handshake_done PROVE NothingLeftBehind'
    BY <2>9 DEF handshake_done, engineVars, workerVars
  <2>10. ASSUME load_ready PROVE NothingLeftBehind'
    BY <2>10 DEF load_ready, Return, workerVars, threadVars
  <2> QED BY <1>2, <2>1, <2>2, <2>3, <2>4, <2>5, <2>6, <2>7, <2>8, <2>9, <2>10 DEF CallStep
<1>3. ASSUME NEW w \in Workers, Background(w) PROVE NothingLeftBehind'
  <2>1. ASSUME NEW f \in {"HelloAck", "Heartbeat"}, reader_loads_flag(w, f)
        PROVE NothingLeftBehind'
    BY <2>1 DEF reader_loads_flag, engineVars, callVars, workerVars
  <2>2. ASSUME reader_forwards(w) PROVE NothingLeftBehind'
    BY <2>2 DEF reader_forwards, engineVars, callVars, workerVars
  <2>3. ASSUME reader_routes_validated(w) \/ reader_model_ready(w)
        PROVE NothingLeftBehind'
    BY <2>3 DEF reader_routes_validated, reader_model_ready, reader_lifecycle, engineVars, callVars
  <2>4. ASSUME reader_terminal(w) PROVE NothingLeftBehind'
    BY <2>4 DEF reader_terminal, engineVars, callVars, threadVars
  <2>5. ASSUME fault(w) PROVE NothingLeftBehind'
    BY <2>5 DEF fault, engineVars, callVars
  <2>6. ASSUME worker_exits(w) PROVE NothingLeftBehind'
    BY <2>6 DEF worker_exits, engineVars, callVars, threadVars
  <2> QED BY <1>3, <2>1, <2>2, <2>3, <2>4, <2>5, <2>6 DEF Background
<1>4. ASSUME UNCHANGED vars PROVE NothingLeftBehind'
  BY <1>4 DEF vars, engineVars, callVars, workerVars, threadVars
<1> QED BY <1>1, <1>2, <1>3, <1>4 DEF Next, BeginStep, Background

(* The invariant holds of every reachable state.                           *)
LEMMA IInvHolds == Spec => []IInv
<1>1. IInv /\ [Next]_vars => IInv'
  BY TypeStep, CallStepInv, ServesStep, LeftBehindStep DEF IInv
<1> QED BY <1>1, InitIInv, PTL DEF Spec

(* Type correctness, with restart_count never above policy.restart_limit.  *)
THEOREM TypeCorrect == Spec => []TypeOK
<1>1. IInv => TypeOK BY DEF IInv
<1> QED BY <1>1, IInvHolds, PTL

(* Whatever is launched, fails, is restarted or unloaded, the worker that  *)
(* answers generate serves loaded_model.                                   *)
THEOREM ServesLoadedModelAlways == Spec => []ServesLoadedModel
<1>1. IInv => ServesLoadedModel BY DEF IInv
<1> QED BY <1>1, IInvHolds, PTL

(* A worker that has answered Hello does not outlive its supervisor, on    *)
(* any path through load_model, generate, unload_model and shutdown.       *)
THEOREM NothingLeftBehindAlways == Spec => []NothingLeftBehind
<1>1. IInv => NothingLeftBehind BY DEF IInv
<1> QED BY <1>1, IInvHolds, PTL

(* restart_count falls only in load_model, or together with loaded_model.  *)
THEOREM BudgetIsUsedUp == Spec => RestartsUseUpBudget
<1> DEFINE Keeps == op # "load" /\ restart_count' < restart_count => loaded_model' = NoImage
<1>1. IInv /\ [Next]_vars => [Keeps]_vars
  <2> SUFFICES ASSUME IInv, Next PROVE Keeps
    OBVIOUS
  <2> USE EngineAssumption DEF IInv, TypeOK, CallInv
  <2>1. ASSUME BeginStep PROVE Keeps
    BY <2>1 DEF BeginStep, set_worker_binary_path, generate, ensure_active_worker,
       unload_model, shutdown, load_model, engineVars
  <2>2. ASSUME CallStep PROVE Keeps
    BY <2>2 DEF CallStep, restart_worker, start_generation, unload_done, spawn, spawn_fails,
       hello_acked, hello_fails, handshake_done, load_ready, load_fails, engineVars
  <2>3. ASSUME NEW w \in Workers, Background(w) PROVE Keeps
    BY <2>3, BackgroundFrame DEF engineVars
  <2> QED BY <2>1, <2>2, <2>3 DEF Next, BeginStep, Background
<1> QED BY <1>1, IInvHolds, PTL DEF Spec, RestartsUseUpBudget
=============================================================================
