----------------------------- MODULE GpuWatchdog ----------------------------
(***************************************************************************)
(* reconciliation/gpu_watchdog.py, and of Ollama what it sees and does: a  *)
(* model is resident on the GPU, on the CPU, or not loaded.  A check reads *)
(* /api/ps once and then acts on what it read, while models load, unload   *)
(* and other checks act.  There are two kinds of check: the Deployment's   *)
(* loop, and `--check-once`, run by a person or by ansible in the same pod *)
(* with no memory of an earlier restart.                                   *)
(*                                                                         *)
(* Ollama itself is external: a cold load takes the GPU or falls back, an  *)
(* idle model unloads.  What goes wrong there, the failures of Kubernetes  *)
(* and the checks from outside are bounded by MaxMishaps.                  *)
(***************************************************************************)
EXTENDS Integers

CONSTANTS
  Models,      \* config.OLLAMA_MODELS, one per tier
  Cooldown,    \* config.GPU_WATCHDOG_RESTART_COOLDOWN_SECONDS
  DryRun,      \* config.GPU_WATCHDOG_DRY_RUN
  MaxMishaps   \* bound: see above

ASSUME WatchdogAssumption ==
  /\ Cooldown \in Nat
  /\ DryRun \in BOOLEAN
  /\ MaxMishaps \in Nat

Checks == {"loop", "once"}

VARIABLES
  up,        \* does Ollama answer?
  resident,  \* where each model is
  check,     \* what each check is about to do
  since,     \* time since last_restart of the loop, up to Cooldown
  mishaps

watchVars == <<up, resident, check, since, mishaps>>

Idle == [act |-> "none"]
Restart == [act |-> "restart"]
Acts == {Idle, Restart} \cup [act : {"pin"}, missing : SUBSET Models]

WatchTypeOK ==
  /\ up \in BOOLEAN
  /\ resident \in [Models -> {"gpu", "cpu", "absent"}]
  /\ check \in [Checks -> Acts]
  /\ since \in 0 .. Cooldown
  /\ mishaps \in 0 .. MaxMishaps

WatchInit ==
  /\ up = TRUE
  /\ resident = [m \in Models |-> "absent"]
  /\ check = [c \in Checks |-> Idle]
  /\ since = Cooldown       \* last_restart = 0.0
  /\ mishaps = 0

Mishap == mishaps < MaxMishaps /\ mishaps' = mishaps + 1

-----------------------------------------------------------------------------
(* Ollama. *)

\* A request for a model that is not loaded loads it, on the CPU if
\* ggml_cuda_init fails.
ColdLoad(m) ==
  \/ resident' = [resident EXCEPT ![m] = "gpu"] /\ UNCHANGED mishaps
  \/ resident' = [resident EXCEPT ![m] = "cpu"] /\ Mishap

Request(m) ==
  IF up /\ resident[m] = "absent" THEN ColdLoad(m) ELSE UNCHANGED <<resident, mishaps>>

\* After an idle gap; a request without keep_alive undoes the pin.
unload(m) ==
  /\ resident[m] # "absent"
  /\ resident' = [resident EXCEPT ![m] = "absent"]
  /\ Mishap
  /\ UNCHANGED <<up, check, since>>

reschedule == ~up /\ up' = TRUE /\ UNCHANGED <<resident, check, since, mishaps>>

PodGone == up' = FALSE /\ resident' = [m \in Models |-> "absent"]

-----------------------------------------------------------------------------
(* check_once. *)

classify(where) == {m \in Models : resident[m] = where}

\* `--check-once` passes last_restart = 0.0.
Since(c) == IF c = "loop" THEN since ELSE Cooldown

\* Mutant: the cooldown is counted from the last look.
LookRestartsCooldown(c) ==
  /\ up /\ check[c] = Idle
  /\ \/ /\ classify("cpu") # {} /\ Since(c) >= Cooldown /\ ~DryRun
        /\ check' = [check EXCEPT ![c] = Restart]
        /\ UNCHANGED since
     \/ /\ classify("cpu") # {} /\ Since(c) < Cooldown
        /\ since' = 0
        /\ UNCHANGED check
     \/ /\ classify("cpu") = {} /\ classify("gpu") # Models
        /\ check' = [check EXCEPT ![c] = [act |-> "pin", missing |-> Models \ classify("gpu")]]
        /\ UNCHANGED since
  /\ UNCHANGED <<up, resident>>

\* loaded_models and what follows from it.  Nothing happens when Ollama does
\* not answer, in the cooldown, in a dry run, or when all is well.
look(c) ==
  /\ up /\ check[c] = Idle
  /\ \/ /\ classify("cpu") # {} /\ Since(c) >= Cooldown /\ ~DryRun
        /\ check' = [check EXCEPT ![c] = Restart]
     \/ /\ classify("cpu") = {} /\ classify("gpu") # Models
        /\ check' = [check EXCEPT ![c] = [act |-> "pin", missing |-> Models \ classify("gpu")]]
  /\ UNCHANGED <<up, resident, since>>

\* last_restart is the loop's; the other check's is returned to nobody.
restart_ollama(c) ==
  /\ check[c] = Restart
  /\ PodGone
  /\ since' = IF c = "loop" THEN 0 ELSE since
  /\ check' = [check EXCEPT ![c] = Idle]
  /\ UNCHANGED mishaps

\* The DELETE raises: nothing was deleted, or its answer was lost.
restart_fails(c) ==
  /\ check[c] = Restart
  /\ Mishap
  /\ PodGone \/ UNCHANGED <<up, resident>>
  /\ check' = [check EXCEPT ![c] = Idle]
  /\ UNCHANGED since

\* One model after the other; a request that fails is passed over.
pin(c) ==
  /\ check[c].act = "pin"
  /\ IF check[c].missing = {}
     THEN check' = [check EXCEPT ![c] = Idle] /\ UNCHANGED <<resident, mishaps>>
     ELSE \E m \in check[c].missing :
            /\ Request(m)
            /\ check' = [check EXCEPT ![c].missing = @ \ {m}]
  /\ UNCHANGED <<up, since>>

\* The loop polls on; its process may start anew, with last_restart = 0.0.
loop ==
  \/ look("loop") /\ UNCHANGED mishaps
  \/ restart_ollama("loop")
  \/ pin("loop")
loop_fails ==
  \/ restart_fails("loop")
  \/ /\ Mishap
     /\ since' = Cooldown /\ check' = [check EXCEPT !["loop"] = Idle]
     /\ UNCHANGED <<up, resident>>
check_once ==
  \/ look("once") /\ Mishap
  \/ restart_ollama("once") \/ restart_fails("once") \/ pin("once")

Age == since' = IF since < Cooldown THEN since + 1 ELSE since
=============================================================================
