------------------------- MODULE MCWorkflowRuntime -------------------------
(* Small workflows for WorkflowRuntime: the enrichment workflow the planning *)
(* agent creates, and one with a condition and an independent step.          *)
EXTENDS WorkflowRuntime

MCStep(id, deps, conditional, tries) ==
    [id |-> id, deps |-> deps, conditional |-> conditional, tries |-> tries]

(* _ENRICHMENT_STEPS; COLLECT_SOURCES is the retryable one.                  *)
EnrichmentPlan ==
    << MCStep(1, {}, FALSE, 2), MCStep(2, {1}, FALSE, 1),
       MCStep(3, {1}, FALSE, 1), MCStep(4, {2, 3}, FALSE, 1) >>

ConditionalPlan ==
    << MCStep(1, {}, FALSE, 1), MCStep(2, {1}, TRUE, 1), MCStep(3, {}, FALSE, 2) >>

MCInitialPlans == {EnrichmentPlan, ConditionalPlan}

(* LLM answers: nothing left to do; a new step after step 1; a step of the   *)
(* plan with other dependencies; the same new id twice; a dependency on a    *)
(* pending step the answer drops.                                            *)
MCProposals ==
    { <<>>,
      << MCStep(5, {1}, FALSE, 1) >>,
      << MCStep(3, {2}, TRUE, 1), MCStep(2, {}, FALSE, 1) >>,
      << MCStep(4, {}, FALSE, 1), MCStep(4, {1}, FALSE, 1) >>,
      << MCStep(5, {3}, FALSE, 1) >> }

=============================================================================
