----------------------------- MODULE VendorTools -----------------------------
(***************************************************************************)
(* The tools of the three workflows, each run from its first tool to the    *)
(* document its last tool writes, with any answers of the services between. *)
(* The workflow runtime decides whether a tool is run at all (module        *)
(* WorkflowRuntime), the orchestrators when a workflow is, and over which   *)
(* files (module VendorPipeline).                                           *)
(***************************************************************************)
EXTENDS ProfileCreation, RsAssembly, VendorFindings

(* The tools also run for a vendor that the readiness check blocked, with    *)
(* the provisional depth and without a source.                               *)
StartEnrichment ==
    /\ stage = "collect"
    /\ \E depth \in {"PROVISIONAL", "BASIC", "STANDARD", "DEEP"},
          no_category, defunct, contract, site \in BOOLEAN :
       \E scope \in {SourceScope(depth, no_category, defunct, contract)}
                        \cup (IF depth = "PROVISIONAL" THEN {<<>>} ELSE {}) :
            work = [depth |-> depth, bundle |-> <<>>, site |-> site, left |-> scope]

StartRs == stage = "collect_rs" /\ work \in [leap_day : BOOLEAN]

StartAnalysis == stage = "inquire" /\ work = [pairs |-> {}]

Init ==
    /\ StartEnrichment \/ StartRs \/ StartAnalysis
    /\ result = NoResult
    /\ faults = 0

EnrichmentStep ==
    \/ CollectSource
    \/ CollectContract
    \/ ExtractAttributes
    \/ MapRelationships
    \/ CreateProfile

RsStep ==
    \/ CollectRsData
    \/ ReadDocument
    \/ ReadingRaises
    \/ ProcessDocuments
    \/ AggregateSpend
    \/ ClassifyRelationship
    \/ AssembleProfile

AnalysisStep ==
    \/ AskAll
    \/ AskWeak
    \/ AskCritical
    \/ ComputeScores
    \/ AnalyseTrends
    \/ DetectFindings
    \/ Narrate

Finished == stage \in {"done", "failed"} /\ UNCHANGED vars

Next == EnrichmentStep \/ RsStep \/ AnalysisStep \/ Finished

Spec == Init /\ [][Next]_vars

-----------------------------------------------------------------------------
(* Enrichment                                                                *)

(* A profile is only called (partially) enriched if some source found a text *)
(* and the model read it, in a run that looked further than one web search,  *)
(* and every field without which a vendor cannot be placed has a value.      *)
EvidenceBeforeProfile ==
    result.process = "enrichment" /\ result.status \in {"ENRICHED", "PARTIALLY_ENRICHED"} =>
        /\ work.evidence
        /\ ~work.failed
        /\ work.depth # "PROVISIONAL"
        /\ \A f \in BlockingFields : result.fields[f].value

(* What only a human can settle is put on the triage queue, unless that      *)
(* cannot be written: an acquisition without an authoritative source, a      *)
(* vendor that shows no sign of life and is not known to be acquired, a      *)
(* contradiction of two registries, and a profile that could not be written. *)
(* The code forgets a contradiction that is not the last conflict reported   *)
(* about its field, be the later one of the model or of employees and        *)
(* revenue; that is about a list, or a field the model does not list; or     *)
(* about a size band that it infers from the number of employees.            *)
RisksReachHumans ==
    result.process = "enrichment" /\ result.lost = {} =>
        IF ~result.written THEN result.tasks # {}
        ELSE /\ \/ \E s \in work.lifecycle : s.type = "ACQUIRED" /\ s.confidence # "HIGH"
                \/ work.dissolved /\ \A s \in work.lifecycle : s.type # "ACQUIRED"
                => Task("LIFECYCLE_CONFIRMATION") \in result.tasks
             /\ \A f \in Fields \ {"lists"} :
                    /\ work.fields[f].conflicts # <<>>
                    /\ Last(work.fields[f].conflicts) = "registries"
                    /\ work.fields[f].confidence \notin {"ABSENT", "INFERRED"}
                    => [kind |-> "UNRESOLVED_CONFLICT", about |-> f] \in result.tasks

(* A value that sources dispute is never shown as one to rely on, whatever   *)
(* confidence the model claims and whichever source prevails.  Of lists the  *)
(* code does not look at disputes.                                           *)
DisputedIsNotTrusted ==
    result.process = "enrichment" =>
        \A f \in Fields \ {"lists"} :
            {"registries", "others"} \cap ToSet(result.fields[f].conflicts) # {} =>
                result.fields[f].confidence \notin {"HIGH", "MEDIUM"}

-----------------------------------------------------------------------------
(* Relationship and spend                                                    *)

(* A complete relationship rests on rows of this vendor, at least three,     *)
(* of two quarters and some of the last year; and nobody is told to depend   *)
(* on a vendor to which nothing was ever charged.                            *)
DependencyIsBacked ==
    result.process = "rs" /\ result.status # "FAILED" =>
        /\ result.status = "COMPLETE" =>
              work.seen.linked >= 3 /\ work.seen.quarters >= 2 /\ work.seen.recent
        /\ result.class.tier \in {"CRITICAL", "HIGH"} \/ result.class.type = "STRATEGIC" =>
              work.seen.charged

(* Where no row can be linked to the vendor, the profile does not say it is  *)
(* complete, rows that were there are flagged, and a vendor that has no      *)
(* document either is put on the triage queue, unless the queue or the       *)
(* vendor's ledger cannot be written.                                        *)
WeakDataIsFlagged ==
    result.process = "rs" /\ work.seen.linked = 0 =>
        /\ result.status # "COMPLETE"
        /\ work.documents = 0 /\ result.lost = {} => result.tasks # {}
        /\ work.summary.rows /\ result.status # "FAILED" => "LOW_DATA_CONFIDENCE" \in result.flags

-----------------------------------------------------------------------------
(* Analysis                                                                  *)

Analysed == result.process = "analysis" /\ result.status = "COMPLETED"

(* A critical question that at any time stayed unanswered is a grave finding *)
(* of the report that is written, and the recommended action is one that a   *)
(* human reviews, however well the vendor scores otherwise and whatever      *)
(* severities the model suggests; and with a database that takes it, it is a *)
(* task.  A run whose report or tasks cannot be written completes as well.   *)
CriticalSilenceIsLoud ==
    Analysed =>
        \A p \in work.pairs :
            p.question \in CriticalQuestions /\ p.answer.completeness = "UNANSWERABLE" =>
                /\ "report" \notin result.lost =>
                      /\ \E f \in result.findings :
                            f.source = "QA" /\ f.about = p.question /\ Grave(f)
                      /\ result.nba # NoAction /\ result.nba.review
                /\ result.database /\ "queue" \notin result.lost =>
                      p.question \in result.tasks

(* A vendor is never called healthy on the strength of failed calls: if a    *)
(* critical question got no answer at all, the other scores cannot make up   *)
(* for it.                                                                   *)
FailuresNeverFlatter ==
    Analysed =>
        \A q \in CriticalQuestions :
            (\A p \in work.pairs : p.question = q => p.answer.failed) => result.state # "HEALTHY"

=============================================================================
