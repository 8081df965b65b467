------------------------------ MODULE ModelTier -----------------------------
(***************************************************************************)
(* An extraction worker, the models it calls and the watchdog that keeps   *)
(* them on the GPU, on one clock.  The watchdog may delete the pod that    *)
(* the worker is calling; a model on the CPU answers late, or not in time. *)
(***************************************************************************)
EXTENDS Funnel, GpuWatchdog

CONSTANT ModelOf  \* config.LITELLM_TIER_MODELS: the model of tier 1 and tier 2

ASSUME ModelTierAssumption == ModelOf \in [{1, 2} -> Models]

vars == <<funnelVars, clocks, watchVars>>

Init == FunnelInit /\ WatchInit

Call == call_model /\ Request(ModelOf[tier]) /\ UNCHANGED <<up, check, since>>

\* What may come back: from the GPU anything at any time, from the CPU only
\* when the time is up, and from a pod that is or was away an error.
OnTime == up /\ CASE resident[ModelOf[tier]] = "gpu" -> TRUE
                  [] resident[ModelOf[tier]] = "cpu" -> wait = CallTimeout
                  [] OTHER -> FALSE
Reply ==
  /\ phase = "calling"
  /\ \/ OnTime /\ Answered
     \/ transient
  /\ UNCHANGED watchVars

Work ==
  \/ (poll \/ read \/ tier_exhausted \/ finish) /\ UNCHANGED watchVars
  \/ Call
  \/ Reply
WorkFails == fail /\ Mishap /\ UNCHANGED <<up, resident, check, since>>
Loop == loop /\ UNCHANGED <<funnelVars, clocks>>
Others ==
  /\ loop_fails \/ check_once \/ \E m \in Models : unload(m)
  /\ UNCHANGED <<funnelVars, clocks>>
Reschedule == reschedule /\ UNCHANGED <<funnelVars, clocks>>
Tick == Pass /\ Age /\ UNCHANGED <<funnelVars, up, resident, check, mishaps>>

Next == Work \/ WorkFails \/ Loop \/ Others \/ Reschedule \/ Tick

Spec == Init /\ [][Next]_vars

\* The loop polls on, Kubernetes reschedules, operations end, and time passes
\* however many operations end at once.  Nobody has to check from outside.
Fairness == WF_vars(Work) /\ WF_vars(Loop) /\ WF_vars(Reschedule) /\ SF_vars(Tick)

FairSpec == Spec /\ Fairness

-----------------------------------------------------------------------------
(* Properties. *)

\* Every variable holds a value of its type.
TypeOK == FunnelTypeOK /\ WatchTypeOK

\* values.yaml:125-130: the probe finds the heartbeat fresh, however slow or
\* broken the models are: no healthy worker is killed.
HeartbeatFresh == phase # "idle" => silent < StaleSeconds

\* config.py:159-178: a message is done within the budget and its margin, so
\* that the consumer polls in time, and the sweeper, whose threshold is the
\* same sum, does not re-drive a document that is being worked on.
WithinPoll == busy <= KAFKA_MAX_POLL_INTERVAL

\* gates.py:8-11, of the type of document that arithmetic applies to: what an
\* invoice is posted with is complete and adds up, and nothing of it is made up.
EligibleIsVerified ==
  fields # NoFields =>
    /\ "made_up" \notin {fields.seller, fields.invoice_no}
    /\ fields.total \in InSource \cup {Missing}
    /\ doc_type = "invoice" =>
         /\ fields.items # Missing
         /\ fields.total = fields.items + Tax(fields)

\* A document that goes to review says why in gate_results, whatever the two
\* tiers and their repairs overwrote, unless no model ever answered.
ReviewSaysWhy ==
  phase = "scoring" /\ fields = NoFields /\ replied =>
    gate_results.schema \notin {"none", "pass"} \/ gate_results.gates = "blocked"

\* The docstring's two halves, pinning and restarting, together: when loads
\* stop falling back, every model ends up on the GPU and stays there, through
\* cooldowns, lost answers and whoever else deletes the pod.
Heals == <>[](\A m \in Models : resident[m] = "gpu")
=============================================================================
