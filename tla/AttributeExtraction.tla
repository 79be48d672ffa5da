-------------------------- MODULE AttributeExtraction --------------------------
(***************************************************************************)
(* attribute_extractor: one call of the language model turns the texts into *)
(* fields, then its answer is put right: disputed fields, confidences that  *)
(* do not exist, a size that follows from the number of employees.          *)
(*                                                                         *)
(* A field is [value, confidence, conflicts]: whether the model gave a      *)
(* value, how sure it is, and the conflicts reported about it in their      *)
(* order, each named by its sources: "registries" (both of them), "others", *)
(* or "signals", the conflict of employees and revenue that the tool itself *)
(* finds.  Confidence "ABSENT": the model did not list the field at all,    *)
(* which does not keep it from reporting conflicts about it.                *)
(***************************************************************************)
EXTENDS SourceCollection, SequencesExt

CONSTANT OddFields      \* bound: the fields of which one is answered in any way

CoreFields == {"category", "subcategory", "hq_country", "description", "company_status",
               "vendor_type", "company_size_band"}
BlockingFields == {"category", "hq_country", "description", "company_status"}
(* The lists (competitors, certifications, ...) are one field.               *)
EnrichmentFields == {"subcategory", "vendor_type", "company_size_band", "hq_city",
                     "employee_count_range", "lists"}
Fields == CoreFields \cup EnrichmentFields

ASSUME ExtractionAssumption == OddFields \subseteq Fields

Levels == {"HIGH", "MEDIUM", "LOW", "INFERRED", "CONFLICT", "MISSING"}
Disputes == {"registries", "others", "signals"}
Field == [value: BOOLEAN, confidence: Levels \cup {"ABSENT"}, conflicts: Seq(Disputes)]

Absent == [value |-> FALSE, confidence |-> "ABSENT", conflicts |-> <<>>]
Certain == [value |-> TRUE, confidence |-> "HIGH", conflicts |-> <<>>]
Inferred == [value |-> TRUE, confidence |-> "INFERRED", conflicts |-> <<>>]

(* Any confidence may come back, also one that does not exist, and conflicts *)
(* may be reported for a field that is not marked so, or not even listed.    *)
(* Bound: at most two conflicts of a field, of different sources.            *)
Conflicts == {<<>>, <<"registries">>, <<"others">>,
              <<"registries", "others">>, <<"others", "registries">>}
FieldAnswers ==
    [value: BOOLEAN, confidence: Levels \cup {"CERTAIN"}, conflicts: Conflicts]
      \cup [value: {FALSE}, confidence: {"ABSENT"}, conflicts: Conflicts]

(* Bound: one field is answered in any way, the others all alike.            *)
ModelAnswers ==
    {[f \in Fields |-> IF f = odd THEN a ELSE rest] :
        odd \in OddFields, a \in FieldAnswers, rest \in {Absent, Certain}}

AsAnswered(a) ==
    [a EXCEPT !.confidence = IF @ \notin Levels \cup {"ABSENT"} THEN "LOW" ELSE @]

(* A conflict marks a field, if it is listed; an unknown level becomes LOW.  *)
Marked(a) ==
    [a EXCEPT !.confidence = IF a.conflicts # <<>> /\ @ # "ABSENT" THEN "CONFLICT"
                             ELSE IF @ \notin Levels \cup {"ABSENT"} THEN "LOW" ELSE @]

(* _list_confidence: that of a list comes from the sources of its items,     *)
(* whatever conflicts are reported about it.                                 *)
AsList(a) ==
    [a EXCEPT !.confidence = IF ~a.value THEN "MISSING"
                             ELSE IF @ \in {"HIGH", "MEDIUM"} THEN @ ELSE "LOW"]

(* The size band follows from the number of employees, if the revenue agrees *)
(* or says nothing; if not, a conflict is added behind those the model       *)
(* reported, but the field keeps its confidence.                             *)
WithSize(fields, revenue_differs) ==
    LET size == fields["company_size_band"]
        employees == fields["employee_count_range"].value
    IN  IF employees /\ revenue_differs
        THEN [fields EXCEPT !["company_size_band"].conflicts = Append(@, "signals")]
        ELSE IF employees /\ ~size.value
             THEN [fields EXCEPT !["company_size_band"] = [Inferred EXCEPT !.conflicts = size.conflicts]]
             ELSE fields

(* _post_process.                                                            *)
PostProcessed(answer, revenue_differs) ==
    WithSize([f \in Fields |-> IF f = "lists" THEN AsList(answer[f]) ELSE Marked(answer[f])],
             revenue_differs)

NoFields == [f \in Fields |-> Absent]

NeverWithoutEvidence(bundle) == FALSE

(* extract_attributes: without texts the model is not asked; if it fails     *)
(* there are no fields, and a flag.                                          *)
NoEvidence(bundle) == Items(bundle) = {}

ExtractAttributes ==
    /\ stage = "extract"
    /\ LET evidence == Items(work.bundle) # {} IN
       \/ /\ NoEvidence(work.bundle)
          /\ Produce([fields |-> NoFields, failed |-> FALSE, evidence |-> evidence], "map")
          /\ NoFault
       \/ /\ ~NoEvidence(work.bundle)
          /\ Produce([fields |-> NoFields, failed |-> TRUE, evidence |-> evidence], "map")
          /\ AFault
       \/ /\ ~NoEvidence(work.bundle)
          /\ \E answer \in ModelAnswers, revenue_differs \in BOOLEAN :
                Produce([fields |-> PostProcessed(answer, revenue_differs), failed |-> FALSE,
                         evidence |-> evidence], "map")
          /\ NoFault
    /\ UNCHANGED result

=============================================================================
