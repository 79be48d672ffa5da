--------------------------- MODULE VendorToolsProofs ---------------------------
(* Theorems about VendorTools for every answer of the services, every set of *)
(* topics, histories and extractions and any number of failures: what the    *)
(* enrichment and analysis documents promise their readers.                  *)
EXTENDS VendorTools, TLAPS

-----------------------------------------------------------------------------
(* The inductive invariant                                                   *)

(* The last tool of a workflow is the only one that answers.                 *)
Waiting == stage # "done" => result = NoResult

(* The extracted fields: a reported conflict shows in the confidence of its  *)
(* field, if that is listed, and without a text there is no value.           *)
Disputed(field) == {"registries", "others"} \cap ToSet(field.conflicts) # {}
DisputesShow(fields) ==
    \A f \in Fields \ {"lists"} :
        Disputed(fields[f]) => fields[f].confidence \in {"CONFLICT", "INFERRED", "ABSENT"}

FieldsAreSound ==
    stage \in {"map", "create"} =>
        /\ {"fields", "evidence", "failed"} \subseteq DOMAIN work
        /\ work.fields \in [Fields -> Field]
        /\ work.evidence \in BOOLEAN
        /\ DisputesShow(work.fields)
        /\ ~work.evidence => work.fields = NoFields

(* The flags that make tasks are those of the lifecycle found, and a vendor  *)
(* without a sign of life is in it, unless it was acquired.                  *)
LifecycleIsFlagged ==
    stage = "create" =>
        /\ work.lifecycle_flags = LifecycleFlags(work.lifecycle)
        /\ work.dissolved /\ (\A s \in work.lifecycle : s.type # "ACQUIRED") =>
              \E s \in work.lifecycle : s.type = "POSSIBLY_DEFUNCT"

(* The questions and their answers stay in memory until the report.          *)
PairsAreKept ==
    stage \in {"inquire", "ask_again", "ask_critical", "score", "trend", "findings", "narrate"} =>
        "pairs" \in DOMAIN work

(* What detect_findings makes of an unanswered critical question.            *)
SilenceIsFound ==
    stage = "narrate" =>
        \A p \in work.pairs :
            p.question \in CriticalQuestions /\ p.answer.completeness = "UNANSWERABLE" =>
                /\ \E f \in work.findings : f.source = "QA" /\ f.about = p.question /\ Grave(f)
                /\ p.question \in work.blocking
                /\ work.nba # NoAction /\ work.nba.review = TRUE

IInv ==
    /\ Waiting
    /\ FieldsAreSound /\ LifecycleIsFlagged
    /\ EvidenceBeforeProfile /\ RisksReachHumans /\ DisputedIsNotTrusted
    /\ PairsAreKept /\ SilenceIsFound /\ CriticalSilenceIsLoud

-----------------------------------------------------------------------------
(* The memory the tools share                                                *)

LEMMA UpdatedMemory ==
  ASSUME NEW dict, NEW entries
  PROVE  /\ DOMAIN Updated(dict, entries) = (DOMAIN dict) \cup (DOMAIN entries)
         /\ \A k \in DOMAIN entries : Updated(dict, entries)[k] = entries[k]
         /\ \A k \in (DOMAIN dict) \ (DOMAIN entries) : Updated(dict, entries)[k] = dict[k]
BY DEF Updated

-----------------------------------------------------------------------------
(* The fields of an enrichment                                               *)

LEMMA FieldNames ==
  /\ {"company_size_band", "employee_count_range", "hq_country", "hq_city"} \subseteq Fields
  /\ BlockingFields \subseteq CoreFields /\ CoreFields \subseteq Fields
  /\ "category" \in BlockingFields
BY DEF Fields, CoreFields, EnrichmentFields, BlockingFields

LEMMA NoFieldsTypes ==
  /\ NoFields \in [Fields -> Field] /\ DisputesShow(NoFields)
  /\ \A f \in Fields : /\ ~NoFields[f].value /\ ~Disputed(NoFields[f])
                       /\ NoFields[f].confidence = "ABSENT"
<1>1. Absent \in Field
  BY DEF Absent, Field, Levels, Disputes
<1>2. ~Disputed(Absent)
  BY DEF Absent, Disputed, ToSet
<1>. QED  BY <1>1, <1>2 DEF NoFields, Absent, DisputesShow

LEMMA ReportedConflicts ==
  /\ Conflicts \subseteq Seq(Disputes) /\ <<>> \in Conflicts
  /\ \A field : field.conflicts = <<>> => ~Disputed(field)
<1>1. Conflicts \subseteq Seq(Disputes) /\ <<>> \in Conflicts
  BY DEF Conflicts, Disputes
<1>2. ASSUME NEW field, field.conflicts = <<>>
      PROVE  ~Disputed(field)
  BY <1>2 DEF Disputed, ToSet
<1>. QED  BY <1>1, <1>2

LEMMA MarkedField ==
  ASSUME NEW a \in FieldAnswers
  PROVE  /\ Marked(a) \in Field
         /\ Disputed(Marked(a)) => Marked(a).confidence \in {"CONFLICT", "ABSENT"}
         /\ AsList(a) \in Field
<1>1. /\ a = [value |-> a.value, confidence |-> a.confidence, conflicts |-> a.conflicts]
      /\ a.value \in BOOLEAN /\ a.conflicts \in Conflicts
      /\ a.confidence \in Levels \cup {"ABSENT", "CERTAIN"}
  BY DEF FieldAnswers
<1>2. a.conflicts \in Seq(Disputes)
  BY <1>1, ReportedConflicts
<1>3. PICK c \in Levels \cup {"ABSENT"} :
        /\ Marked(a) = [value |-> a.value, confidence |-> c, conflicts |-> a.conflicts]
        /\ a.conflicts # <<>> => c \in {"CONFLICT", "ABSENT"}
  BY <1>1 DEF Marked, Levels
<1>4. PICK l \in Levels : AsList(a) = [value |-> a.value, confidence |-> l, conflicts |-> a.conflicts]
  BY <1>1 DEF AsList, Levels
<1>5. Marked(a) \in Field /\ AsList(a) \in Field
  BY <1>1, <1>2, <1>3, <1>4 DEF Field
<1>6. Disputed(Marked(a)) => a.conflicts # <<>>
  <2>1. Marked(a).conflicts = a.conflicts
    BY <1>3
  <2>. QED  BY <2>1, ReportedConflicts
<1>. QED  BY <1>3, <1>5, <1>6

(* The last conflict is one of those that dispute the field.                 *)
LEMMA LastIsDisputed ==
  ASSUME NEW field \in Field, field.conflicts # <<>>, Last(field.conflicts) = "registries"
  PROVE  Disputed(field)
<1>1. field.conflicts \in Seq(Disputes)
  BY DEF Field
<1>2. "registries" \in ToSet(field.conflicts)
  BY <1>1 DEF Last, ToSet
<1>. QED  BY <1>2 DEF Disputed

LEMMA AppendedSet ==
  ASSUME NEW S, NEW s \in Seq(S), NEW e \in S
  PROVE  ToSet(Append(s, e)) = ToSet(s) \cup {e}
<1>1. /\ DOMAIN Append(s, e) = DOMAIN s \cup {Len(s) + 1}
      /\ Append(s, e)[Len(s) + 1] = e
  OBVIOUS
<1>2. \A i \in DOMAIN s : Append(s, e)[i] = s[i]
  OBVIOUS
<1>. QED  BY <1>1, <1>2, Zenon DEF ToSet

(* The conflict of employees and revenue disputes no value by itself.        *)
LEMMA SignalsAreNoDispute ==
  ASSUME NEW field \in Field
  PROVE  LET signalled == [field EXCEPT !.conflicts = Append(@, "signals")]
         IN  /\ signalled \in Field
             /\ signalled.confidence = field.confidence
             /\ Disputed(signalled) <=> Disputed(field)
<1>. DEFINE s == field.conflicts
            signalled == [field EXCEPT !.conflicts = Append(@, "signals")]
<1>1. s \in Seq(Disputes) /\ "signals" \in Disputes
  BY DEF Field, Disputes
<1>2. /\ signalled = [value |-> field.value, confidence |-> field.confidence,
                      conflicts |-> Append(s, "signals")]
      /\ field.value \in BOOLEAN /\ field.confidence \in Levels \cup {"ABSENT"}
  <2>1. /\ field = [value |-> field.value, confidence |-> field.confidence, conflicts |-> s]
        /\ field.value \in BOOLEAN /\ field.confidence \in Levels \cup {"ABSENT"}
    BY DEF Field
  <2>2. PICK t : t = Append(s, "signals")
    OBVIOUS
  <2>3. [field EXCEPT !.conflicts = t] =
          [value |-> field.value, confidence |-> field.confidence, conflicts |-> t]
    BY <2>1
  <2>. QED  BY <2>1, <2>2, <2>3
<1>3. Append(s, "signals") \in Seq(Disputes)
  BY <1>1
<1>4. ToSet(Append(s, "signals")) = ToSet(s) \cup {"signals"}
  BY <1>1, AppendedSet
<1>5. signalled \in Field
  BY <1>2, <1>3 DEF Field
<1>6. Disputed(signalled) <=> Disputed(field)
  <2>1. signalled.conflicts = Append(s, "signals")
    BY <1>2
  <2>2. {"registries", "others"} \cap (ToSet(s) \cup {"signals"}) = {"registries", "others"} \cap ToSet(s)
    OBVIOUS
  <2>. QED  BY <1>4, <2>1, <2>2 DEF Disputed
<1>. QED  BY <1>2, <1>5, <1>6

(* What the model answers, put right, is sound, whatever it was.             *)
LEMMA ExtractedFields ==
  ASSUME NEW answer \in ModelAnswers, NEW differs \in BOOLEAN
  PROVE  /\ PostProcessed(answer, differs) \in [Fields -> Field]
         /\ DisputesShow(PostProcessed(answer, differs))
<1>. DEFINE marked == [f \in Fields |-> IF f = "lists" THEN AsList(answer[f]) ELSE Marked(answer[f])]
<1>1. answer \in [Fields -> FieldAnswers]
  <2>1. Absent \in FieldAnswers /\ Certain \in FieldAnswers
    BY ReportedConflicts DEF Absent, Certain, FieldAnswers, Levels
  <2>. QED  BY <2>1 DEF ModelAnswers
<1>2. marked \in [Fields -> Field] /\ DisputesShow(marked)
  BY <1>1, MarkedField DEF DisputesShow
<1>3. PostProcessed(answer, differs) = WithSize(marked, differs)
  BY DEF PostProcessed
<1>. HIDE DEF marked
<1>4. WithSize(marked, differs) \in [Fields -> Field] /\ DisputesShow(WithSize(marked, differs))
  <2>. DEFINE b == "company_size_band"
              size == marked[b]
  <2>1. b \in Fields /\ size \in Field
    BY <1>2, FieldNames
  <2>. DEFINE signalled == [size EXCEPT !.conflicts = Append(@, "signals")]
              inferred == [Inferred EXCEPT !.conflicts = size.conflicts]
  <2>2. /\ signalled \in Field /\ signalled.confidence = size.confidence
        /\ Disputed(signalled) <=> Disputed(size)
    BY <2>1, SignalsAreNoDispute
  <2>3. inferred \in Field /\ inferred.confidence = "INFERRED"
    BY <2>1 DEF Field, Inferred, Levels
  <2>4. WithSize(marked, differs) \in
           {marked, [marked EXCEPT ![b] = signalled], [marked EXCEPT ![b] = inferred]}
    BY <2>1, <1>2 DEF WithSize
  <2>5. b # "lists" /\ marked[b] = size
    OBVIOUS
  <2>. HIDE DEF signalled, inferred, size, b
  <2>6. CASE WithSize(marked, differs) = marked
    BY <2>6, <1>2
  <2>7. CASE WithSize(marked, differs) = [marked EXCEPT ![b] = signalled]
    BY <2>1, <2>2, <2>5, <2>7, <1>2 DEF DisputesShow
  <2>8. CASE WithSize(marked, differs) = [marked EXCEPT ![b] = inferred]
    BY <2>1, <2>3, <2>5, <2>8, <1>2 DEF DisputesShow
  <2>. QED  BY <2>4, <2>6, <2>7, <2>8
<1>. QED  BY <1>3, <1>4

(* A disputed field whose value may be shown, but not as one to rely on.     *)
NotTrusted(fields) ==
    \A f \in Fields \ {"lists"} :
        Disputed(fields[f]) => fields[f].confidence \notin {"HIGH", "MEDIUM"}

Worthless(fields) == \A f \in Fields : ~fields[f].value

LEMMA ReconciledFields ==
  ASSUME NEW fields \in [Fields -> Field], DisputesShow(fields), NEW winner \in BOOLEAN
  PROVE  /\ Reconciled(fields, winner) \in [Fields -> Field]
         /\ NotTrusted(Reconciled(fields, winner))
         /\ fields = NoFields => Worthless(Reconciled(fields, winner))
<1>. DEFINE low(f) == [fields[f] EXCEPT !.value = winner, !.confidence = "LOW"]
            r == Reconciled(fields, winner)
<1>1. ASSUME NEW f \in Fields
      PROVE  low(f) \in Field /\ low(f).confidence = "LOW"
  BY DEF Field, Levels
<1>. HIDE DEF low
<1>2. \A f \in Fields : r[f] = IF f \in Settled(fields) THEN low(f) ELSE fields[f]
  BY DEF Reconciled, low
<1>3. r \in [Fields -> Field]
  <2>1. r = [f \in Fields |-> IF f \in Settled(fields) THEN low(f) ELSE fields[f]]
    BY DEF Reconciled, low
  <2>. QED  BY <2>1, <1>1
<1>4. NotTrusted(r)
  BY <1>1, <1>2 DEF NotTrusted, DisputesShow
<1>5. fields = NoFields => Worthless(r)
  <2>1. fields = NoFields => Settled(fields) = {}
    BY NoFieldsTypes DEF Settled
  <2>. QED  BY <2>1, <1>2, NoFieldsTypes DEF Worthless
<1>. QED  BY <1>3, <1>4, <1>5

LEMMA InferredField ==
  ASSUME NEW fields \in [Fields -> Field], NotTrusted(fields), NEW f \in Fields,
         NEW from \in Fields, NEW known \in BOOLEAN
  PROVE  /\ Infer(fields, f, from, known) \in [Fields -> Field]
         /\ NotTrusted(Infer(fields, f, from, known))
         /\ Worthless(fields) => Infer(fields, f, from, known) = fields
<1>. DEFINE i == [Inferred EXCEPT !.conflicts = fields[f].conflicts]
<1>1. i \in Field /\ i.confidence = "INFERRED"
  BY DEF Inferred, Field, Levels
<1>2. Infer(fields, f, from, known) \in {fields, [fields EXCEPT ![f] = i]}
  BY DEF Infer
<1>3. Worthless(fields) => Infer(fields, f, from, known) = fields
  BY DEF Worthless, Infer
<1>. QED  BY <1>1, <1>2, <1>3 DEF NotTrusted

LEMMA FinalFields ==
  ASSUME NEW fields \in [Fields -> Field], DisputesShow(fields),
         NEW winner \in BOOLEAN, NEW known \in BOOLEAN
  PROVE  /\ WithInferences(Reconciled(fields, winner), known) \in [Fields -> Field]
         /\ NotTrusted(WithInferences(Reconciled(fields, winner), known))
         /\ fields = NoFields => Worthless(WithInferences(Reconciled(fields, winner), known))
<1>1. PICK r \in [Fields -> Field] :
        /\ r = Reconciled(fields, winner) /\ NotTrusted(r)
        /\ fields = NoFields => Worthless(r)
  BY ReconciledFields
<1>2. PICK i \in [Fields -> Field] :
        /\ i = Infer(r, "company_size_band", "employee_count_range", TRUE)
        /\ NotTrusted(i) /\ (Worthless(r) => i = r)
  <2>1. "company_size_band" \in Fields /\ "employee_count_range" \in Fields
    BY FieldNames
  <2>. QED  BY <1>1, <2>1, InferredField
<1>3. PICK j \in [Fields -> Field] :
        /\ j = Infer(i, "hq_country", "hq_city", known)
        /\ NotTrusted(j) /\ (Worthless(i) => j = i)
  <2>1. "hq_country" \in Fields /\ "hq_city" \in Fields
    BY FieldNames
  <2>2. /\ Infer(i, "hq_country", "hq_city", known) \in [Fields -> Field]
        /\ NotTrusted(Infer(i, "hq_country", "hq_city", known))
        /\ Worthless(i) => Infer(i, "hq_country", "hq_city", known) = i
    BY <1>2, <2>1, InferredField
  <2>. QED  BY <2>2
<1>4. WithInferences(Reconciled(fields, winner), known) = j
  BY <1>1, <1>2, <1>3 DEF WithInferences
<1>. QED  BY <1>1, <1>2, <1>3, <1>4

(* An enriched status has a value in every blocking field.                   *)
LEMMA EnrichedStatus ==
  ASSUME NEW fields \in [Fields -> Field], NEW depth, NEW failed,
         ProfileStatus(fields, depth, failed) \in {"ENRICHED", "PARTIALLY_ENRICHED"}
  PROVE  /\ depth # "PROVISIONAL" /\ ~failed
         /\ \A f \in BlockingFields : fields[f].value
<1>1. /\ Populated(fields) # {}
      /\ ~(depth = "PROVISIONAL" \/ failed \/ Gaps(fields, BlockingFields) # {})
  BY DEF ProfileStatus
<1>. QED  BY <1>1 DEF Gaps, IsGap

(* A vendor that shows no sign of life is in the lifecycle, unless acquired. *)
LEMMA DissolvedIsFlagged ==
  ASSUME NEW bundle, NEW brain, DefunctScore(bundle) >= 4,
         \A s \in Lifecycle(bundle, brain) : s.type # "ACQUIRED"
  PROVE  \E s \in Lifecycle(bundle, brain) : s.type = "POSSIBLY_DEFUNCT"
<1>1. \A s \in Acquired(bundle, brain) : s.type = "ACQUIRED"
  BY DEF Acquired, Signals, Signal
<1>2. Acquired(bundle, brain) \subseteq Lifecycle(bundle, brain)
  BY DEF Lifecycle
<1>3. Acquired(bundle, brain) = {}
  BY <1>1, <1>2
<1>4. PossiblyDefunct(bundle) \subseteq Lifecycle(bundle, brain)
  BY <1>3 DEF Lifecycle
<1>5. Signal("POSSIBLY_DEFUNCT", "MEDIUM") \in PossiblyDefunct(bundle)
  BY DEF PossiblyDefunct
<1>6. Signal("POSSIBLY_DEFUNCT", "MEDIUM").type = "POSSIBLY_DEFUNCT"
  BY DEF Signal
<1>. QED  BY <1>4, <1>5, <1>6

-----------------------------------------------------------------------------
(* Steps that write no document                                              *)

Delivered == EvidenceBeforeProfile /\ RisksReachHumans /\ DisputedIsNotTrusted /\ CriticalSilenceIsLoud

LEMMA Undelivered ==
  ASSUME result = NoResult
  PROVE  Waiting /\ Delivered
BY DEF NoResult, Waiting, Delivered, EvidenceBeforeProfile, RisksReachHumans,
       DisputedIsNotTrusted, CriticalSilenceIsLoud, Analysed

LEMMA UndeliveredStep ==
  ASSUME IInv, stage # "done", UNCHANGED result
  PROVE  Waiting' /\ Delivered'
<1>1. result' = NoResult
  BY DEF IInv, Waiting
<1>. QED
  BY <1>1 DEF NoResult, Waiting, Delivered, EvidenceBeforeProfile, RisksReachHumans,
              DisputedIsNotTrusted, CriticalSilenceIsLoud, Analysed

AnalysisStages == {"inquire", "ask_again", "ask_critical", "score", "trend", "findings", "narrate"}

(* A step after which nothing is promised yet.                               *)
LEMMA QuietStep ==
  ASSUME IInv, stage # "done", UNCHANGED result,
         stage' \notin {"map", "create", "narrate"},
         stage' \in AnalysisStages => "pairs" \in DOMAIN work'
  PROVE  IInv'
<1>1. Waiting' /\ Delivered'
  BY UndeliveredStep
<1>2. FieldsAreSound' /\ LifecycleIsFlagged' /\ PairsAreKept' /\ SilenceIsFound'
  BY DEF FieldsAreSound, LifecycleIsFlagged, PairsAreKept, SilenceIsFound, AnalysisStages
<1>. QED  BY <1>1, <1>2 DEF IInv, Delivered

LEMMA InitIInv == Init => IInv
<1>. SUFFICES ASSUME Init PROVE IInv
  OBVIOUS
<1>1. stage \in {"collect", "collect_rs", "inquire"} /\ result = NoResult
  BY DEF Init, StartEnrichment, StartRs, StartAnalysis
<1>2. stage = "inquire" => "pairs" \in DOMAIN work
  <2>1. stage = "inquire" => work = [pairs |-> {}]
    BY DEF Init, StartEnrichment, StartRs, StartAnalysis
  <2>. QED  BY <2>1
<1>3. Waiting /\ Delivered
  BY <1>1, Undelivered
<1>. QED
  BY <1>1, <1>2, <1>3 DEF IInv, Delivered, FieldsAreSound, LifecycleIsFlagged, PairsAreKept, SilenceIsFound

-----------------------------------------------------------------------------
(* The tools of an enrichment                                                *)

LEMMA CollectStep ==
  ASSUME IInv, CollectSource \/ CollectContract
  PROVE  IInv'
<1>1. stage = "collect" /\ stage' \in {"collect", "extract"} /\ UNCHANGED result
  BY DEF CollectSource, CollectContract, Produce
<1>. QED  BY <1>1, QuietStep DEF AnalysisStages

LEMMA ExtractStep ==
  ASSUME IInv, ExtractAttributes
  PROVE  IInv'
<1>1. stage = "extract" /\ stage' = "map" /\ UNCHANGED result
  BY DEF ExtractAttributes, Produce
<1>2. PICK fields, failed, evidence :
        /\ Produce([fields |-> fields, failed |-> failed, evidence |-> evidence], "map")
        /\ fields \in [Fields -> Field] /\ DisputesShow(fields)
        /\ evidence \in BOOLEAN /\ (~evidence => fields = NoFields)
  <2>. DEFINE found == Items(work.bundle) # {}
  <2>1. CASE NoEvidence(work.bundle)
    <3>1. Produce([fields |-> NoFields, failed |-> FALSE, evidence |-> found], "map")
      BY <2>1 DEF ExtractAttributes
    <3>. QED  BY <3>1, NoFieldsTypes
  <2>2. CASE Produce([fields |-> NoFields, failed |-> TRUE, evidence |-> found], "map")
    BY <2>2, NoFieldsTypes
  <2>3. CASE /\ ~NoEvidence(work.bundle)
             /\ \E answer \in ModelAnswers, revenue_differs \in BOOLEAN :
                   Produce([fields |-> PostProcessed(answer, revenue_differs), failed |-> FALSE,
                            evidence |-> found], "map")
    <3>1. found
      BY <2>3 DEF NoEvidence
    <3>2. PICK answer \in ModelAnswers, revenue_differs \in BOOLEAN :
            Produce([fields |-> PostProcessed(answer, revenue_differs), failed |-> FALSE,
                     evidence |-> found], "map")
      BY <2>3
    <3>3. /\ PostProcessed(answer, revenue_differs) \in [Fields -> Field]
          /\ DisputesShow(PostProcessed(answer, revenue_differs))
      BY ExtractedFields
    <3>. QED  BY <3>1, <3>2, <3>3
  <2>. QED  BY <2>1, <2>2, <2>3 DEF ExtractAttributes
<1>3. FieldsAreSound'
  <2>. DEFINE e == [fields |-> fields, failed |-> failed, evidence |-> evidence]
  <2>1. work' = Updated(work, e)
    BY <1>2 DEF Produce
  <2>2. /\ DOMAIN e = {"fields", "failed", "evidence"}
        /\ e["fields"] = fields /\ e["evidence"] = evidence
    OBVIOUS
  <2>. HIDE DEF e
  <2>3. /\ {"fields", "evidence", "failed"} \subseteq DOMAIN work'
        /\ work'["fields"] = fields /\ work'["evidence"] = evidence
    <3>1. DOMAIN work' = DOMAIN work \cup DOMAIN e /\ \A k \in DOMAIN e : work'[k] = e[k]
      <4>1. /\ DOMAIN Updated(work, e) = DOMAIN work \cup DOMAIN e
            /\ \A k \in DOMAIN e : Updated(work, e)[k] = e[k]
        BY UpdatedMemory
      <4>. QED  BY <2>1, <4>1
    <3>. QED  BY <2>2, <3>1
  <2>. QED  BY <1>2, <2>3 DEF FieldsAreSound
<1>4. LifecycleIsFlagged' /\ PairsAreKept' /\ SilenceIsFound'
  BY <1>1 DEF LifecycleIsFlagged, PairsAreKept, SilenceIsFound
<1>. QED  BY <1>1, <1>3, <1>4, UndeliveredStep DEF IInv, Delivered

LEMMA MapStep ==
  ASSUME IInv, MapRelationships
  PROVE  IInv'
<1>1. stage = "map" /\ stage' = "create" /\ UNCHANGED result
  BY DEF MapRelationships, Produce
<1>2. PICK brain, gleif :
        work' = Updated(work, [lifecycle |-> Lifecycle(work.bundle, brain),
                               lifecycle_flags |-> LifecycleFlags(Lifecycle(work.bundle, brain)),
                               parent |-> ParentFound(work.bundle, Acquired(work.bundle, brain), gleif),
                               dissolved |-> DefunctScore(work.bundle) >= 4,
                               bundle |-> <<>>])
  BY DEF MapRelationships, Produce
<1>. DEFINE m == [lifecycle |-> Lifecycle(work.bundle, brain),
                  lifecycle_flags |-> LifecycleFlags(Lifecycle(work.bundle, brain)),
                  parent |-> ParentFound(work.bundle, Acquired(work.bundle, brain), gleif),
                  dissolved |-> DefunctScore(work.bundle) >= 4,
                  bundle |-> <<>>]
<1>3. /\ DOMAIN m = {"lifecycle", "lifecycle_flags", "parent", "dissolved", "bundle"}
      /\ m["lifecycle"] = Lifecycle(work.bundle, brain)
      /\ m["lifecycle_flags"] = LifecycleFlags(Lifecycle(work.bundle, brain))
      /\ m["dissolved"] = (DefunctScore(work.bundle) >= 4)
  OBVIOUS
<1>4. work' = Updated(work, m)
  BY <1>2
<1>. HIDE DEF m
<1>5. /\ DOMAIN work' = DOMAIN work \cup DOMAIN m
      /\ \A k \in DOMAIN m : work'[k] = m[k]
      /\ \A k \in DOMAIN work \ DOMAIN m : work'[k] = work[k]
  <2>1. /\ DOMAIN Updated(work, m) = DOMAIN work \cup DOMAIN m
        /\ \A k \in DOMAIN m : Updated(work, m)[k] = m[k]
        /\ \A k \in DOMAIN work \ DOMAIN m : Updated(work, m)[k] = work[k]
    BY UpdatedMemory
  <2>. QED  BY <1>4, <2>1
<1>6. FieldsAreSound'
  <2>1. {"fields", "evidence", "failed"} \subseteq DOMAIN work
    BY <1>1 DEF IInv, FieldsAreSound
  <2>2. /\ {"fields", "evidence", "failed"} \subseteq DOMAIN work'
        /\ work'["fields"] = work["fields"] /\ work'["evidence"] = work["evidence"]
    BY <1>3, <1>5, <2>1
  <2>. QED  BY <1>1, <2>2 DEF IInv, FieldsAreSound
<1>7. LifecycleIsFlagged'
  <2>1. /\ work'["lifecycle"] = Lifecycle(work.bundle, brain)
        /\ work'["lifecycle_flags"] = LifecycleFlags(Lifecycle(work.bundle, brain))
        /\ work'["dissolved"] = (DefunctScore(work.bundle) >= 4)
    BY <1>3, <1>5
  <2>. QED  BY <2>1, DissolvedIsFlagged DEF LifecycleIsFlagged
<1>8. PairsAreKept' /\ SilenceIsFound'
  BY <1>1 DEF PairsAreKept, SilenceIsFound
<1>. QED  BY <1>1, <1>6, <1>7, <1>8, UndeliveredStep DEF IInv, Delivered

LEMMA CreateStep ==
  ASSUME IInv, CreateProfile
  PROVE  IInv'
<1>1. stage = "create" /\ stage' = "done" /\ UNCHANGED work
  BY DEF CreateProfile, Deliver
<1>2. /\ work.fields \in [Fields -> Field] /\ DisputesShow(work.fields)
      /\ work.evidence \in BOOLEAN /\ (~work.evidence => work.fields = NoFields)
      /\ work.lifecycle_flags = LifecycleFlags(work.lifecycle)
      /\ work.dissolved /\ (\A s \in work.lifecycle : s.type # "ACQUIRED") =>
            \E s \in work.lifecycle : s.type = "POSSIBLY_DEFUNCT"
  BY <1>1 DEF IInv, FieldsAreSound, LifecycleIsFlagged
<1>3. Delivered'
  <2>1. ASSUME NEW lost, result' = FailedEnrichment(lost)
        PROVE  Delivered'
    <3>1. /\ result'.process = "enrichment" /\ result'.written = FALSE
          /\ result'.status = "FAILED_ENRICHMENT" /\ result'.fields = NoFields
          /\ result'.lost = lost /\ result'.tasks = Queued({Task("FAILED_ENRICHMENT")}, lost)
      BY <2>1 DEF FailedEnrichment
    <3>2. result'.lost = {} => result'.tasks # {}
      BY <3>1 DEF Queued
    <3>3. DisputedIsNotTrusted'
      BY <3>1, NoFieldsTypes DEF DisputedIsNotTrusted
    <3>. QED
      BY <3>1, <3>2, <3>3 DEF Delivered, EvidenceBeforeProfile, RisksReachHumans,
                              CriticalSilenceIsLoud, Analysed
  <2>2. ASSUME NEW lost, NEW winner \in BOOLEAN, NEW known \in BOOLEAN,
               result' = EnrichedProfile(WithInferences(Reconciled(work.fields, winner), known), lost)
        PROVE  Delivered'
    <3>1. PICK fields \in [Fields -> Field] :
            /\ fields = WithInferences(Reconciled(work.fields, winner), known)
            /\ NotTrusted(fields)
            /\ work.fields = NoFields => Worthless(fields)
      BY <1>2, FinalFields
    <3>2. /\ result'.process = "enrichment" /\ result'.written = TRUE
          /\ result'.fields = fields
          /\ result'.status = ProfileStatus(fields, work.depth, work.failed)
          /\ result'.lost = lost
          /\ lost = {} =>
                result'.tasks = TriageTasks(fields, work.lifecycle_flags, Unresolved(work.fields))
      BY <2>2, <3>1 DEF EnrichedProfile, ProfileFlags, Queued
    <3>3. EvidenceBeforeProfile'
      <4>1. ASSUME result'.status \in {"ENRICHED", "PARTIALLY_ENRICHED"}
            PROVE  /\ work.depth # "PROVISIONAL" /\ ~work.failed /\ work.evidence
                   /\ \A f \in BlockingFields : fields[f].value
        <5>1. /\ work.depth # "PROVISIONAL" /\ ~work.failed
              /\ \A f \in BlockingFields : fields[f].value
          BY <3>2, <4>1, EnrichedStatus
        <5>2. ~Worthless(fields)
          BY <5>1, FieldNames DEF Worthless
        <5>. QED  BY <1>2, <3>1, <5>1, <5>2
      <4>. QED  BY <1>1, <3>2, <4>1 DEF EvidenceBeforeProfile
    <3>4. ASSUME lost = {}
          PROVE  RisksReachHumans'
      <4>1. ASSUME \/ \E s \in work.lifecycle : s.type = "ACQUIRED" /\ s.confidence # "HIGH"
                   \/ work.dissolved /\ \A s \in work.lifecycle : s.type # "ACQUIRED"
            PROVE  Task("LIFECYCLE_CONFIRMATION") \in result'.tasks
        <5>1. work.lifecycle_flags # {}
          BY <1>2, <4>1 DEF LifecycleFlags
        <5>. QED  BY <3>2, <3>4, <5>1 DEF TriageTasks
      <4>2. ASSUME NEW f \in Fields \ {"lists"},
                   work.fields[f].conflicts # <<>> /\ Last(work.fields[f].conflicts) = "registries",
                   work.fields[f].confidence \notin {"ABSENT", "INFERRED"}
            PROVE  [kind |-> "UNRESOLVED_CONFLICT", about |-> f] \in result'.tasks
        <5>1. Disputed(work.fields[f])
          BY <1>2, <4>2, LastIsDisputed
        <5>2. f \in Unresolved(work.fields)
          BY <1>2, <4>2, <5>1 DEF Unresolved, DisputesShow, SettledBy
        <5>. QED  BY <3>2, <3>4, <5>2 DEF TriageTasks
      <4>. QED  BY <1>1, <3>2, <4>1, <4>2 DEF RisksReachHumans
    <3>5. RisksReachHumans'
      BY <3>2, <3>4 DEF RisksReachHumans
    <3>6. DisputedIsNotTrusted'
      BY <3>1, <3>2 DEF DisputedIsNotTrusted, NotTrusted, Disputed
    <3>. QED  BY <3>2, <3>3, <3>5, <3>6 DEF Delivered, CriticalSilenceIsLoud, Analysed
  <2>. QED  BY <2>1, <2>2 DEF CreateProfile, Deliver
<1>. QED
  BY <1>1, <1>3 DEF IInv, Delivered, Waiting, FieldsAreSound, LifecycleIsFlagged, PairsAreKept, SilenceIsFound

-----------------------------------------------------------------------------
(* The tools of a relationship run promise nothing the enrichment or the     *)
(* analysis documents do.                                                    *)

LEMMA RsStepKeeps ==
  ASSUME IInv, RsStep
  PROVE  IInv'
<1>1. CASE CollectRsData
  <2>1. stage = "collect_rs" /\ stage' \in {"documents", "failed"} /\ UNCHANGED result
    BY <1>1 DEF CollectRsData, Produce, Fail
  <2>. QED  BY <2>1, QuietStep DEF AnalysisStages
<1>2. CASE ReadDocument \/ ReadingRaises \/ ProcessDocuments
  <2>1. stage = "documents" /\ stage' \in {"documents", "failed", "aggregate"} /\ UNCHANGED result
    BY <1>2 DEF ReadDocument, ReadingRaises, ProcessDocuments, Fail
  <2>. QED  BY <2>1, QuietStep DEF AnalysisStages
<1>3. CASE AggregateSpend
  <2>1. stage = "aggregate" /\ stage' \in {"classify", "failed"} /\ UNCHANGED result
    BY <1>3 DEF AggregateSpend, Fail
  <2>. QED  BY <2>1, QuietStep DEF AnalysisStages
<1>4. CASE ClassifyRelationship
  <2>1. stage = "classify" /\ stage' = "assemble" /\ UNCHANGED result
    BY <1>4 DEF ClassifyRelationship, Produce
  <2>. QED  BY <2>1, QuietStep DEF AnalysisStages
<1>5. CASE AssembleProfile
  <2>1. stage' = "done" /\ result'.process = "rs"
    BY <1>5 DEF AssembleProfile, Deliver, RsDocument
  <2>2. Delivered'
    BY <2>1 DEF Delivered, EvidenceBeforeProfile, RisksReachHumans, DisputedIsNotTrusted,
                CriticalSilenceIsLoud, Analysed
  <2>. QED
    BY <2>1, <2>2 DEF IInv, Delivered, Waiting, FieldsAreSound, LifecycleIsFlagged, PairsAreKept,
                      SilenceIsFound
<1>. QED  BY <1>1, <1>2, <1>3, <1>4, <1>5 DEF RsStep

-----------------------------------------------------------------------------
(* Findings                                                                  *)

SeverityLevels == {"LOW", "MEDIUM", "HIGH", "CRITICAL"}

LEMMA Ranks ==
  Rank("LOW") = 1 /\ Rank("MEDIUM") = 2 /\ Rank("HIGH") = 3 /\ Rank("CRITICAL") = 4
<1>1. /\ DOMAIN Severities = 1 .. 4
      /\ Severities[1] = "LOW" /\ Severities[2] = "MEDIUM"
      /\ Severities[3] = "HIGH" /\ Severities[4] = "CRITICAL"
  BY DEF Severities
<1>2. ASSUME NEW i \in 1 .. 4
      PROVE  Rank(Severities[i]) = i
  <2>1. Rank(Severities[i]) \in 1 .. 4 /\ Severities[Rank(Severities[i])] = Severities[i]
    BY <1>1, <1>2 DEF Rank
  <2>. QED  BY <1>1, <1>2, <2>1
<1>. QED  BY <1>1, <1>2

WellFormed(findings) ==
    \A f \in findings :
        /\ f = Finding(f.source, f.about, f.kind, f.severity)
        /\ f.severity \in SeverityLevels

LEMMA FindingsAreWellFormed ==
  ASSUME NEW scores, NEW cri, NEW past, NEW type, NEW pairs, NEW trends
  PROVE  WellFormed(ScoreFindings(scores, cri, past, type) \cup QaFindings(pairs)
                      \cup TrendFindings(trends))
<1>1. WellFormed(ScoreFindings(scores, cri, past, type))
  BY DEF WellFormed, ScoreFindings, Finding, SeverityLevels
<1>2. WellFormed(QaFindings(pairs))
  BY DEF WellFormed, QaFindings, Finding, SeverityLevels
<1>3. WellFormed(TrendFindings(trends))
  BY DEF WellFormed, TrendFindings, Finding, SeverityLevels
<1>. QED  BY <1>1, <1>2, <1>3 DEF WellFormed

(* Whatever severity the model suggests for a grave finding, it stays grave. *)
LEMMA CalibratedFinding ==
  ASSUME NEW f, f = Finding(f.source, f.about, f.kind, f.severity), f.severity \in SeverityLevels,
         NEW severity \in SeverityLevels
  PROVE  LET g == Calibrated(f, severity)
         IN  /\ g = Finding(g.source, g.about, g.kind, g.severity)
             /\ g.severity \in SeverityLevels
             /\ g.source = f.source /\ g.about = f.about
             /\ Grave(f) => Grave(g)
<1>1. /\ Rank(f.severity) \in 1 .. 4
      /\ Rank(severity) \in 1 .. 4
  BY Ranks DEF SeverityLevels
<1>2. CASE Rank(severity) > Rank(f.severity)
  <2>1. Calibrated(f, severity) = Finding(f.source, f.about, f.kind, severity)
    BY <1>2 DEF Calibrated, Raised, Finding
  <2>. QED  BY <1>1, <1>2, <2>1 DEF Finding, Grave
<1>3. CASE ~(Rank(severity) > Rank(f.severity))
  <2>1. Calibrated(f, severity) = f
    BY <1>3 DEF Calibrated, Raised
  <2>. QED  BY <2>1
<1>. QED  BY <1>2, <1>3

LEMMA CalibratedFindings ==
  ASSUME NEW findings, WellFormed(findings), NEW raised \in Calibrations(findings)
  PROVE  /\ WellFormed(raised)
         /\ \A f \in findings : Grave(f) =>
                \E g \in raised : g.source = f.source /\ g.about = f.about /\ Grave(g)
<1>1. CASE raised = findings
  BY <1>1
<1>2. ASSUME NEW h \in findings, NEW s \in {"LOW", "CRITICAL"},
             raised = (findings \ {h}) \cup {Calibrated(h, s)}
      PROVE  /\ WellFormed(raised)
             /\ \A f \in findings : Grave(f) =>
                    \E g \in raised : g.source = f.source /\ g.about = f.about /\ Grave(g)
  <2>1. PICK c :
          /\ c = Calibrated(h, s)
          /\ c = Finding(c.source, c.about, c.kind, c.severity)
          /\ c.severity \in SeverityLevels
          /\ c.source = h.source /\ c.about = h.about
          /\ Grave(h) => Grave(c)
    BY CalibratedFinding DEF WellFormed, SeverityLevels
  <2>2. raised = (findings \ {h}) \cup {c}
    BY <1>2, <2>1
  <2>. QED  BY <2>1, <2>2 DEF WellFormed
<1>. QED  BY <1>1, <1>2 DEF Calibrations

(* A grave finding anywhere makes the action one that a human reviews.       *)
LEMMA GraveActionIsReviewed ==
  ASSUME NEW findings, WellFormed(findings), NEW g \in findings, Grave(g)
  PROVE  NextBestAction(findings) # NoAction /\ NextBestAction(findings).review = TRUE
<1>1. \A f \in findings : Rank(f.severity) \in 1 .. 4
  BY Ranks DEF WellFormed, SeverityLevels
<1>2. Worst(findings) # {}
  <2>1. CASE \E f \in findings : Rank(f.severity) = 4
    BY <1>1, <2>1 DEF Worst
  <2>2. CASE ~\E f \in findings : Rank(f.severity) = 4
    <3>1. \A f \in findings : Rank(f.severity) <= 3
      BY <1>1, <2>2
    <3>2. g \in Worst(findings)
      BY <1>1, <3>1 DEF Worst, Grave
    <3>. QED  BY <3>2
  <2>. QED  BY <2>1, <2>2
<1>. DEFINE top == CHOOSE f \in Worst(findings) : TRUE
<1>3. top \in Worst(findings)
  BY <1>2
<1>4. NextBestAction(findings) =
        [linked |-> top, review |-> Grave(top),
         timing |-> IF Grave(top) THEN "THIS_WEEK" ELSE "MONITOR"]
  BY DEF NextBestAction
<1>. HIDE DEF top
<1>5. Grave(top)
  BY <1>1, <1>3 DEF Worst, Grave
<1>6. NextBestAction(findings) = [linked |-> top, review |-> TRUE, timing |-> "THIS_WEEK"]
  BY <1>4, <1>5
<1>7. NextBestAction(findings) # NoAction
  <2>1. "review" \in DOMAIN NextBestAction(findings) /\ "review" \notin DOMAIN NoAction
    BY <1>6 DEF NoAction
  <2>. QED  BY <2>1
<1>. QED  BY <1>6, <1>7

-----------------------------------------------------------------------------
(* The tools of an analysis                                                  *)

LEMMA AnalysisGoesOn ==
  ASSUME IInv, AskAll \/ AskWeak \/ AskCritical \/ ComputeScores \/ AnalyseTrends
  PROVE  IInv'
<1>1. /\ stage \in AnalysisStages /\ UNCHANGED result
      /\ stage' \in {"ask_again", "ask_critical", "score", "trend", "findings"}
      /\ \E produced : work' = Updated(work, produced)
  BY DEF AskAll, AskWeak, AskCritical, Ask, ComputeScores, AnalyseTrends, Produce, AnalysisStages
<1>2. "pairs" \in DOMAIN work
  BY <1>1 DEF IInv, PairsAreKept, AnalysisStages
<1>3. "pairs" \in DOMAIN work'
  <2>1. PICK produced : work' = Updated(work, produced)
    BY <1>1
  <2>2. DOMAIN Updated(work, produced) = DOMAIN work \cup DOMAIN produced
    BY UpdatedMemory
  <2>. QED  BY <1>2, <2>1, <2>2
<1>. QED  BY <1>1, <1>3, QuietStep DEF AnalysisStages

LEMMA DetectStep ==
  ASSUME IInv, DetectFindings
  PROVE  IInv'
<1>1. stage = "findings" /\ stage' = "narrate" /\ UNCHANGED result
  BY DEF DetectFindings, Produce
<1>. DEFINE Found(type) == ScoreFindings(work.scores, work.cri, work.past, type)
                             \cup QaFindings(work.pairs) \cup TrendFindings(work.trends)
<1>2. PICK type, findings :
        /\ findings \in Calibrations(Found(type))
        /\ work' = Updated(work, [findings |-> findings, nba |-> NextBestAction(findings),
                                  blocking |-> {p.question : p \in Unanswered(work.pairs)}])
  BY DEF DetectFindings, Produce
<1>. DEFINE m == [findings |-> findings, nba |-> NextBestAction(findings),
                  blocking |-> {p.question : p \in Unanswered(work.pairs)}]
<1>3. /\ work' = Updated(work, m)
      /\ DOMAIN m = {"findings", "nba", "blocking"}
      /\ m["findings"] = findings /\ m["nba"] = NextBestAction(findings)
      /\ m["blocking"] = {p.question : p \in Unanswered(work.pairs)}
  BY <1>2
<1>. HIDE DEF m
<1>4. /\ DOMAIN Updated(work, m) = DOMAIN work \cup DOMAIN m
      /\ \A k \in DOMAIN m : Updated(work, m)[k] = m[k]
      /\ \A k \in DOMAIN work \ DOMAIN m : Updated(work, m)[k] = work[k]
  BY UpdatedMemory
<1>5. "pairs" \in DOMAIN work
  BY <1>1 DEF IInv, PairsAreKept
<1>6. /\ "pairs" \in DOMAIN work' /\ work'["pairs"] = work["pairs"]
      /\ work'["findings"] = findings /\ work'["nba"] = NextBestAction(findings)
      /\ work'["blocking"] = {p.question : p \in Unanswered(work.pairs)}
  BY <1>3, <1>4, <1>5
<1>7. /\ WellFormed(findings)
      /\ \A f \in Found(type) : Grave(f) =>
             \E g \in findings : g.source = f.source /\ g.about = f.about /\ Grave(g)
  <2>1. WellFormed(Found(type))
    BY FindingsAreWellFormed
  <2>. HIDE DEF Found
  <2>. QED  BY <1>2, <2>1, CalibratedFindings
<1>8. ASSUME NEW p \in work.pairs,
             p.question \in CriticalQuestions /\ p.answer.completeness = "UNANSWERABLE"
      PROVE  /\ \E f \in findings : f.source = "QA" /\ f.about = p.question /\ Grave(f)
             /\ p.question \in {x.question : x \in Unanswered(work.pairs)}
             /\ NextBestAction(findings) # NoAction /\ NextBestAction(findings).review = TRUE
  <2>1. p \in Unanswered(work.pairs)
    BY <1>8 DEF Unanswered
  <2>. DEFINE f == Finding("QA", p.question, "unanswerable", "HIGH")
  <2>2. f \in Found(type)
    BY <2>1 DEF QaFindings
  <2>3. f.source = "QA" /\ f.about = p.question /\ Grave(f)
    BY Ranks DEF Finding, Grave
  <2>. HIDE DEF f, Found
  <2>4. PICK g \in findings : g.source = "QA" /\ g.about = p.question /\ Grave(g)
    BY <1>7, <2>2, <2>3
  <2>5. NextBestAction(findings) # NoAction /\ NextBestAction(findings).review = TRUE
    BY <1>7, <2>4, GraveActionIsReviewed
  <2>. QED  BY <2>1, <2>4, <2>5
<1>9. SilenceIsFound'
  BY <1>6, <1>8 DEF SilenceIsFound
<1>10. FieldsAreSound' /\ LifecycleIsFlagged' /\ PairsAreKept'
  BY <1>1, <1>6 DEF FieldsAreSound, LifecycleIsFlagged, PairsAreKept
<1>. QED  BY <1>1, <1>9, <1>10, UndeliveredStep DEF IInv, Delivered

LEMMA NarrateStep ==
  ASSUME IInv, Narrate
  PROVE  IInv'
<1>1. stage = "narrate" /\ stage' = "done" /\ UNCHANGED work
  BY DEF Narrate, Deliver
<1>2. \/ result' = [process |-> "analysis", status |-> "FAILED"]
      \/ \E database \in BOOLEAN, lost \in SUBSET {"report", "queue"} : result' = Report(database, lost)
  BY DEF Narrate, Deliver
<1>3. result'.process = "analysis"
  BY <1>2 DEF Report
<1>4. CriticalSilenceIsLoud'
  <2>1. CASE result' = [process |-> "analysis", status |-> "FAILED"]
    BY <2>1 DEF CriticalSilenceIsLoud, Analysed
  <2>2. ASSUME NEW database \in BOOLEAN, NEW lost, result' = Report(database, lost)
        PROVE  CriticalSilenceIsLoud'
    <3>1. \A p \in work.pairs :
            p.question \in CriticalQuestions /\ p.answer.completeness = "UNANSWERABLE" =>
                /\ \E f \in work.findings : f.source = "QA" /\ f.about = p.question /\ Grave(f)
                /\ p.question \in work.blocking
                /\ work.nba # NoAction /\ work.nba.review = TRUE
      BY <1>1 DEF IInv, SilenceIsFound
    <3>2. /\ result'.lost = lost /\ result'.database = database
          /\ "report" \notin lost => result'.findings = work.findings /\ result'.nba = work.nba
          /\ database /\ "queue" \notin lost => result'.tasks = work.blocking
      BY <2>2 DEF Report, Queued
    <3>. QED  BY <1>1, <3>1, <3>2 DEF CriticalSilenceIsLoud
  <2>. QED  BY <1>2, <2>1, <2>2
<1>5. EvidenceBeforeProfile' /\ RisksReachHumans' /\ DisputedIsNotTrusted'
  BY <1>3 DEF EvidenceBeforeProfile, RisksReachHumans, DisputedIsNotTrusted
<1>. QED
  BY <1>1, <1>4, <1>5 DEF IInv, Waiting, FieldsAreSound, LifecycleIsFlagged, PairsAreKept, SilenceIsFound

-----------------------------------------------------------------------------
(* The theorems                                                              *)

LEMMA NextKeeps ==
  ASSUME IInv, [Next]_vars
  PROVE  IInv'
<1>1. CASE EnrichmentStep
  BY <1>1, CollectStep, ExtractStep, MapStep, CreateStep DEF EnrichmentStep
<1>2. CASE RsStep
  BY <1>2, RsStepKeeps
<1>3. CASE AnalysisStep
  BY <1>3, AnalysisGoesOn, DetectStep, NarrateStep DEF AnalysisStep
<1>4. CASE Finished \/ UNCHANGED vars
  BY <1>4 DEF Finished, vars, IInv, Waiting, FieldsAreSound, LifecycleIsFlagged, PairsAreKept,
              SilenceIsFound, EvidenceBeforeProfile, RisksReachHumans, DisputedIsNotTrusted,
              CriticalSilenceIsLoud, Analysed
<1>. QED  BY <1>1, <1>2, <1>3, <1>4 DEF Next

(* What the tools leave in memory for each other, run_cache, is at each      *)
(* stage what the later ones rely on.                                        *)
THEOREM InvariantHolds == Spec => []IInv
<1>1. Init => IInv
  BY InitIInv
<1>2. IInv /\ [Next]_vars => IInv'
  BY NextKeeps
<1>. QED  BY <1>1, <1>2, PTL DEF Spec

(* A profile is only called (partially) enriched on the evidence of a text   *)
(* that the model read, and with a value in every blocking field:            *)
(* _classify_profile_status, after the inferences of                         *)
(* _apply_inference_rules and the winners of _reconcile_conflicts.           *)
THEOREM EnrichedProfilesHaveEvidence == Spec => []EvidenceBeforeProfile
<1>1. IInv => EvidenceBeforeProfile
  BY DEF IInv
<1>. QED  BY <1>1, InvariantHolds, PTL

(* As long as the queue can be written, doubtful acquisitions, vendors       *)
(* without a sign of life and profiles that could not be written become      *)
(* tasks, and so does a contradiction of registries that is the last         *)
(* conflict of a listed single field whose size band was not inferred:       *)
(* _reconcile_conflicts, _generate_triage_tasks, _write_programme_files.     *)
THEOREM RisksAreTasks == Spec => []RisksReachHumans
<1>1. IInv => RisksReachHumans
  BY DEF IInv
<1>. QED  BY <1>1, InvariantHolds, PTL

(* No disputed value has confidence HIGH or MEDIUM, whatever the model       *)
(* answered: _post_process and _reconcile_conflicts.                         *)
THEOREM DisputesAreShown == Spec => []DisputedIsNotTrusted
<1>1. IInv => DisputedIsNotTrusted
  BY DEF IInv
<1>. QED  BY <1>1, InvariantHolds, PTL

(* An unanswered critical question is a grave finding and a reviewed action  *)
(* of the report, if that is written, and a task, if a database takes it,    *)
(* for every history, any answers to the other questions and any severities  *)
(* the model suggests: _qa_findings, _llm_calibrate, _select_nba,            *)
(* _write_triage_items.                                                      *)
THEOREM SilenceIsReported == Spec => []CriticalSilenceIsLoud
<1>1. IInv => CriticalSilenceIsLoud
  BY DEF IInv
<1>. QED  BY <1>1, InvariantHolds, PTL

=============================================================================
