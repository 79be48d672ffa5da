-------------------------- MODULE VendorPipelineProofs --------------------------
(* Theorems about VendorPipeline for every number of runs and every age and  *)
(* bound: what runs that follow one another keep of each other's work,       *)
(* whatever fails or dies, as long as they can read what is there.           *)
EXTENDS VendorPipeline, TLAPS

-----------------------------------------------------------------------------
(* The inductive invariant                                                   *)

Labels ==
    {"idle", "enrichment", "enrich", "save_enrichment", "save_failure", "enrichment_log",
     "rs", "gather", "save_rs", "rs_ledger", "minimal", "save_minimal",
     "analysis", "analyse", "save_analysis", "save_history"}
VendorStatuses ==
    {"", "INTAKE_COMPLETED", "CONFIRMED", "TRIAGE_REQUIRED", "PROVISIONAL",
     "FAILED_ENRICHMENT", "PARTIALLY_ENRICHED", "ENRICHED", "RS_COMPLETED"}
Relationship == [version : Nat, day : Nat, pcs : Nat, status : {"NONE", "ASSEMBLED", "FAILED"}]
Profile ==
    [exists : BOOLEAN, built : BOOLEAN, confident : BOOLEAN, status : VendorStatuses,
     last_enriched_at : Nat, score : Nat, enrichment : BOOLEAN,
     relationship : Relationship, change_log : [Events -> Nat]]

Types ==
    /\ profile \in Profile
    /\ history \in Nat /\ today \in Nat
    /\ pc \in [Runs -> Labels]
    /\ seen \in [Runs -> Profile]
    /\ history_seen \in [Runs -> Nat]
    /\ pcs_before \in [Runs -> Nat]
    /\ misread \in [Runs -> BOOLEAN]
    /\ overlapped \in BOOLEAN

(* Runs that did not overlap: at most one is under way.                      *)
OneAtATime ==
    ~overlapped => \A r, q \in Runs : pc[r] # "idle" /\ pc[q] # "idle" => r = q

(* A run that is alone and has read what is there.                           *)
Undisturbed(r) == ~overlapped /\ ~misread[r]

(* What it has read and is about to change is what the file holds.           *)
ReadIsCurrent == \A r \in Runs : Undisturbed(r) =>
    /\ pc[r] \in {"save_enrichment", "save_failure", "save_rs", "save_minimal"}
          => seen[r] = profile
    /\ pc[r] = "save_history" => history_seen[r] = history

(* The relationship it gathers data for was stale at its gate, and is.       *)
GatheringIsDue == \A r \in Runs : Undisturbed(r) =>
    (pc[r] \in {"gather", "save_rs"} => IsStale(profile.relationship.day, RsMaxAge))

(* An analysis under way has passed the gate on the relationship part; what  *)
(* it counts from is known when its reads did not fail.                      *)
AnalysingHasInputs == \A r \in Runs : pc[r] \in {"analyse", "save_analysis"} =>
    /\ ~overlapped => profile.relationship # NoRelationship
    /\ Undisturbed(r) => pcs_before[r] = profile.relationship.pcs

IInv ==
    /\ Types /\ OneAtATime /\ ReadIsCurrent /\ GatheringIsDue /\ AnalysingHasInputs

-----------------------------------------------------------------------------
(* The documents the writers write                                           *)

LEMMA ConstantsAreNaturals ==
  /\ IntakePcs \in Nat /\ MaxPcs \in Nat /\ RsMaxAge \in Nat /\ MaxDay \in Nat
BY VendorWorkspaceAssumption DEF VendorWorkspaceAssumption

LEMMA NoRelationshipType == NoRelationship \in Relationship
BY ConstantsAreNaturals DEF NoRelationship, NoDay, Relationship

LEMMA NoProfileType == NoProfile \in Profile
<1>. DEFINE log == [e \in Events |-> 0]
<1>1. log \in [Events -> Nat] /\ NoDay \in Nat
  BY ConstantsAreNaturals DEF NoDay
<1>. HIDE DEF log
<1>2. NoProfile =
        [exists |-> FALSE, built |-> FALSE, confident |-> FALSE, status |-> "",
         last_enriched_at |-> NoDay, score |-> 0, enrichment |-> FALSE,
         relationship |-> NoRelationship, change_log |-> log]
  BY DEF NoProfile, log
<1>. QED  BY <1>1, <1>2, NoRelationshipType DEF Profile, VendorStatuses

(* An event is added to the change log and nothing else is touched.          *)
LEMMA LoggedKeeps ==
  ASSUME NEW p \in Profile, NEW e \in Events
  PROVE  /\ Logged(p, e) \in Profile
         /\ Logged(p, e).exists = TRUE
         /\ Logged(p, e).enrichment = p.enrichment
         /\ Logged(p, e).relationship = p.relationship
         /\ Logged(p, e).score = p.score
         /\ \A x \in Events : Logged(p, e).change_log[x] >= p.change_log[x]
<1>. DEFINE log == [p.change_log EXCEPT ![e] = @ + 1]
<1>1. p.change_log \in [Events -> Nat]
  BY DEF Profile
<1>2. log \in [Events -> Nat] /\ \A x \in Events : log[x] >= p.change_log[x]
  BY <1>1
<1>. HIDE DEF log
<1>3. Logged(p, e) = [p EXCEPT !.exists = TRUE, !.change_log = log]
  BY DEF Logged, log, Profile
<1>. QED  BY <1>2, <1>3 DEF Profile

LEMMA EnrichmentKeeps ==
  ASSUME NEW p \in Profile, NEW status \in VendorStatuses
  PROVE  /\ WithEnrichment(p, status) \in Profile
         /\ WithEnrichment(p, status).exists = TRUE
         /\ WithEnrichment(p, status).enrichment = TRUE
         /\ WithEnrichment(p, status).relationship = p.relationship
         /\ WithEnrichment(p, status).score = p.score
         /\ \A x \in Events : WithEnrichment(p, status).change_log[x] >= p.change_log[x]
<1>. DEFINE q == Logged(p, "ENRICHMENT_COMPLETED")
<1>1. /\ q \in Profile /\ q.exists = TRUE /\ q.relationship = p.relationship /\ q.score = p.score
      /\ \A x \in Events : q.change_log[x] >= p.change_log[x]
  BY LoggedKeeps DEF Events
<1>. HIDE DEF q
<1>2. WithEnrichment(p, status) = [q EXCEPT !.status = status, !.enrichment = TRUE]
  BY DEF WithEnrichment, q
<1>. QED  BY <1>1, <1>2 DEF Profile

LEMMA RelationshipKeeps ==
  ASSUME NEW p \in Profile, NEW rel \in Relationship
  PROVE  /\ WithRelationship(p, rel) \in Profile
         /\ WithRelationship(p, rel).exists = TRUE
         /\ WithRelationship(p, rel).enrichment = p.enrichment
         /\ WithRelationship(p, rel).relationship = rel
         /\ WithRelationship(p, rel).score = p.score
         /\ \A x \in Events : WithRelationship(p, rel).change_log[x] >= p.change_log[x]
<1>. DEFINE q == Logged(p, "RS_COMPLETED")
<1>1. /\ q \in Profile /\ q.exists = TRUE /\ q.enrichment = p.enrichment /\ q.score = p.score
      /\ \A x \in Events : q.change_log[x] >= p.change_log[x]
  BY LoggedKeeps DEF Events
<1>. HIDE DEF q
<1>2. WithRelationship(p, rel) = [q EXCEPT !.status = "RS_COMPLETED", !.relationship = rel]
  BY DEF WithRelationship, q
<1>. QED  BY <1>1, <1>2 DEF Profile, VendorStatuses

LEMMA RelationshipTypes ==
  ASSUME Types, NEW r \in Runs, NEW c \in {0, 1}
  PROVE  /\ Assembled(r, c) \in Relationship /\ Assembled(r, c).status = "ASSEMBLED"
         /\ Minimal \in Relationship /\ Minimal.status = "FAILED"
         /\ NoRelationship.status = "NONE"
<1>1. /\ seen[r].relationship.version \in Nat /\ pcs_before[r] \in Nat /\ today \in Nat
      /\ MaxPcs \in Nat
  BY ConstantsAreNaturals DEF Types, Profile, Relationship
<1>. QED  BY <1>1 DEF Assembled, Minimal, Min2, Relationship, NoRelationship

-----------------------------------------------------------------------------
(* Init and the steps                                                        *)

LEMMA InitIInv == Init => IInv
<1>. SUFFICES ASSUME Init PROVE IInv
  OBVIOUS
<1>1. profile \in Profile /\ profile.relationship = NoRelationship
  <2>1. NoProfile \in Profile /\ NoProfile.relationship = NoRelationship
    BY NoProfileType DEF NoProfile
  <2>. HIDE DEF NoProfile
  <2>2. ASSUME NEW c \in BOOLEAN
        PROVE  /\ BuiltProfile(c) \in Profile
               /\ BuiltProfile(c).relationship = NoRelationship
    BY <2>1, ConstantsAreNaturals DEF BuiltProfile, Profile, VendorStatuses
  <2>3. ASSUME NEW st \in {"CONFIRMED", "TRIAGE_REQUIRED"}, NEW d \in Nat
        PROVE  /\ FlatProfile(st, d) \in Profile
               /\ FlatProfile(st, d).relationship = NoRelationship
    BY <2>1 DEF FlatProfile, Profile, VendorStatuses
  <2>4. NoDay \in Nat
    BY ConstantsAreNaturals DEF NoDay
  <2>. QED  BY <2>1, <2>2, <2>3, <2>4 DEF Init, InitialProfiles
<1>2. Types
  BY <1>1, NoProfileType DEF Init, Types, Labels
<1>. QED
  BY <1>2 DEF Init, IInv, OneAtATime, ReadIsCurrent, GatheringIsDue, AnalysingHasInputs

(* What a run has failed to read is remembered until it ends.                *)
LEMMA Misreading ==
  ASSUME Types, NEW r \in Runs, NEW failed, Misread(r, failed)
  PROVE  /\ misread' \in [Runs -> BOOLEAN]
         /\ \A q \in Runs : q # r => misread'[q] = misread[q]
         /\ ~misread'[r] => ~misread[r] /\ ~failed
BY Zenon DEF Types, Misread

(* A step of one run: what has to be looked at is its own next label, and    *)
(* only while runs have not overlapped, when every other run is idle.        *)
LEMMA RunStep ==
  ASSUME IInv, NEW r \in Runs, NEW label \in Labels, pc' = [pc EXCEPT ![r] = label],
         pc[r] # "idle", overlapped' = overlapped, today' = today, Types',
         Undisturbed(r)' =>
            /\ label \in {"save_enrichment", "save_failure", "save_rs", "save_minimal"}
                  => seen'[r] = profile'
            /\ label = "save_history" => history_seen'[r] = history'
            /\ label \in {"gather", "save_rs"} => IsStale(profile'.relationship.day, RsMaxAge)
            /\ label \in {"analyse", "save_analysis"} =>
                  pcs_before'[r] = profile'.relationship.pcs,
         ~overlapped /\ label \in {"analyse", "save_analysis"} =>
            profile'.relationship # NoRelationship
  PROVE  IInv'
<1>1. pc \in [Runs -> Labels] /\ pc'[r] = label
      /\ \A q \in Runs : q # r => pc'[q] = pc[q]
  BY DEF IInv, Types
<1>2. ~overlapped => \A q \in Runs : q # r => pc'[q] = "idle"
  BY <1>1 DEF IInv, OneAtATime
<1>3. OneAtATime'
  BY <1>2 DEF OneAtATime
<1>4. ReadIsCurrent'
  BY <1>1, <1>2 DEF ReadIsCurrent, Undisturbed
<1>5. GatheringIsDue'
  BY <1>1, <1>2 DEF GatheringIsDue, IsStale, Undisturbed
<1>6. AnalysingHasInputs'
  BY <1>1, <1>2 DEF AnalysingHasInputs, Undisturbed, IInv
<1>. QED  BY <1>3, <1>4, <1>5, <1>6 DEF IInv

-----------------------------------------------------------------------------
(* What a step may not lose, without the condition on overlapping runs       *)

RelationshipStays ==
    profile'.relationship # profile.relationship =>
        \/ IsStale(profile.relationship.day, RsMaxAge)
        \/ profile'.relationship.status = "FAILED"

Kept == NothingLost /\ RelationshipStays

LEMMA UnchangedIsKept ==
  ASSUME Types, profile' = profile, history' = history \/ history' = history + 1
  PROVE  Kept
<1>1. history' >= history
  BY DEF Types
<1>2. \A e \in Events : profile'.change_log[e] >= profile.change_log[e]
  BY DEF Types, Profile
<1>. QED  BY <1>1, <1>2 DEF Kept, NothingLost, RelationshipStays

(* A step of a run that writes no file.                                      *)
LEMMA QuietStep ==
  ASSUME IInv, NEW r \in Runs, NEW label \in Labels, pc[r] # "idle",
         pc' = [pc EXCEPT ![r] = label],
         UNCHANGED <<profile, analysis, history, today, overlapped>>,
         seen' = seen \/ \E p \in Profile : seen' = [seen EXCEPT ![r] = p],
         history_seen' = history_seen,
         pcs_before' = pcs_before \/ \E n \in Nat : pcs_before' = [pcs_before EXCEPT ![r] = n],
         misread' \in [Runs -> BOOLEAN],
         label # "save_history",
         Undisturbed(r)' =>
            /\ label \in {"save_enrichment", "save_failure", "save_rs", "save_minimal"}
                  => seen'[r] = profile
            /\ label \in {"gather", "save_rs"} => IsStale(profile.relationship.day, RsMaxAge)
            /\ label \in {"analyse", "save_analysis"} =>
                  pcs_before'[r] = profile.relationship.pcs,
         ~overlapped /\ label \in {"analyse", "save_analysis"} =>
            profile.relationship # NoRelationship
  PROVE  IInv' /\ Kept
<1>1. Types'
  <2>1. seen' \in [Runs -> Profile] /\ pcs_before' \in [Runs -> Nat] /\ pc' \in [Runs -> Labels]
    BY DEF IInv, Types
  <2>. QED  BY <2>1 DEF IInv, Types
<1>2. IsStale(profile.relationship.day, RsMaxAge) => IsStale(profile'.relationship.day, RsMaxAge)
  OBVIOUS
<1>3. IInv'
  BY <1>1, <1>2, RunStep
<1>. QED  BY <1>3, UnchangedIsKept DEF IInv

(* A step of a run that writes the profile from what it read.                *)
LEMMA WritingStep ==
  ASSUME IInv, NEW r \in Runs, NEW label \in Labels, pc[r] # "idle",
         pc' = [pc EXCEPT ![r] = label],
         label \in {"enrichment_log", "rs_ledger", "analysis"},
         UNCHANGED <<analysis, history, history_seen, pcs_before, misread, today, overlapped>>,
         seen' = [seen EXCEPT ![r] = NoProfile],
         profile' \in Profile, profile'.exists = TRUE,
         seen[r].enrichment = TRUE => profile'.enrichment = TRUE,
         profile'.score = seen[r].score,
         \A e \in Events : profile'.change_log[e] >= seen[r].change_log[e],
         Undisturbed(r) => seen[r] = profile,
         \/ profile'.relationship = seen[r].relationship
         \/ /\ profile'.relationship # NoRelationship
            /\ \/ profile'.relationship.status = "FAILED"
               \/ Undisturbed(r) => IsStale(profile.relationship.day, RsMaxAge)
  PROVE  IInv' /\ (Undisturbed(r) => Kept)
<1>1. Types'
  BY NoProfileType DEF IInv, Types
<1>2. IInv'
  BY <1>1, RunStep
<1>3. history' >= history
  BY DEF IInv, Types
<1>4. Undisturbed(r) => NothingLost
  BY <1>3 DEF NothingLost
<1>5. Undisturbed(r) => RelationshipStays
  BY DEF RelationshipStays
<1>. QED  BY <1>2, <1>4, <1>5 DEF Kept

LEMMA ReadingsAreProfiles ==
  ASSUME Types, NEW p \in Readings
  PROVE  p \in Profile /\ p.score \in Nat /\ p.relationship \in Relationship
         /\ p.relationship.pcs \in Nat
<1>1. p \in Profile
  BY NoProfileType DEF Types, Readings
<1>. QED  BY <1>1 DEF Profile, Relationship

LEMMA ReadProfileStep ==
  ASSUME Types, NEW r \in Runs, ReadProfile(r)
  PROVE  /\ \E p \in Profile : seen' = [seen EXCEPT ![r] = p]
         /\ misread' \in [Runs -> BOOLEAN]
         /\ ~misread'[r] => seen'[r] = profile
<1>1. PICK p \in Readings : seen' = [seen EXCEPT ![r] = p] /\ Misread(r, p # profile)
  BY DEF ReadProfile, Reads
<1>2. /\ misread' \in [Runs -> BOOLEAN]
      /\ ~misread'[r] => p = profile
  BY <1>1, Misreading
<1>3. seen'[r] = p
  BY <1>1 DEF Types
<1>. QED  BY <1>1, <1>2, <1>3, ReadingsAreProfiles

LEMMA EnrichmentSteps ==
  ASSUME IInv, NEW r \in Runs, EnrichmentStep(r)
  PROVE  IInv' /\ (Undisturbed(r) => Kept)
<1>. USE DEF files, GoTo, Give, AFault, NoFault, Forget
<1>t. /\ profile \in Profile /\ seen[r] \in Profile /\ Types /\ misread \in [Runs -> BOOLEAN]
      /\ Undisturbed(r) /\ pc[r] \in {"save_enrichment", "save_failure"} => seen[r] = profile
  BY DEF IInv, Types, ReadIsCurrent
<1>1. CASE EnrichmentGate(r)
  <2>1. PICK document \in Readings :
           /\ pcs_before' = [pcs_before EXCEPT ![r] = document.score]
           /\ \E label \in {"enrichment_log", "enrich"} : pc' = [pc EXCEPT ![r] = label]
           /\ \E failed : Misread(r, failed)
    BY <1>1 DEF EnrichmentGate, Reads
  <2>2. /\ pc[r] = "enrichment"
        /\ UNCHANGED <<profile, analysis, history, seen, history_seen, today, overlapped>>
    BY <1>1 DEF EnrichmentGate
  <2>3. document.score \in Nat /\ misread' \in [Runs -> BOOLEAN]
    BY <2>1, <1>t, ReadingsAreProfiles, Misreading
  <2>. QED  BY <2>1, <2>2, <2>3, QuietStep DEF Labels
<1>2. CASE EnrichmentTools(r)
  <2>1. /\ pc[r] = "enrich"
        /\ \/ pc' = [pc EXCEPT ![r] = "save_enrichment"] /\ ReadProfile(r)
           \/ pc' = [pc EXCEPT ![r] = "enrichment_log"] /\ UNCHANGED <<seen, misread>>
        /\ UNCHANGED <<profile, analysis, history, history_seen, pcs_before, today, overlapped>>
    BY <1>2 DEF EnrichmentTools
  <2>2. CASE pc' = [pc EXCEPT ![r] = "save_enrichment"] /\ ReadProfile(r)
    BY <2>1, <2>2, <1>t, ReadProfileStep, QuietStep DEF Labels, Undisturbed
  <2>3. CASE pc' = [pc EXCEPT ![r] = "enrichment_log"] /\ UNCHANGED <<seen, misread>>
    BY <2>1, <2>3, <1>t, QuietStep DEF Labels
  <2>. QED  BY <2>1, <2>2, <2>3
<1>3. CASE SaveEnrichment(r)
  <2>1. pc[r] = "save_enrichment"
        /\ UNCHANGED <<analysis, history, history_seen, pcs_before, today, overlapped>>
    BY <1>3 DEF SaveEnrichment
  <2>2. ASSUME NEW status \in ProfileStatuses(depth[r]),
               profile' = WithEnrichment(seen[r], status), UNCHANGED misread,
               pc' = [pc EXCEPT ![r] = "enrichment_log"], seen' = [seen EXCEPT ![r] = NoProfile]
        PROVE  IInv' /\ (Undisturbed(r) => Kept)
    <3>1. status \in VendorStatuses
      BY DEF ProfileStatuses, VendorStatuses
    <3>. QED  BY <2>1, <2>2, <3>1, <1>t, EnrichmentKeeps, WritingStep DEF Labels
  <2>3. ASSUME UNCHANGED profile, NEW label \in {"save_failure", "enrichment_log"},
               pc' = [pc EXCEPT ![r] = label], NEW document \in Readings,
               seen' = [seen EXCEPT ![r] = document], Misread(r, document # profile)
        PROVE  IInv' /\ Kept
    <3>1. document \in Profile /\ misread' \in [Runs -> BOOLEAN] /\ (~misread'[r] => document = profile)
      BY <2>3, <1>t, ReadingsAreProfiles, Misreading
    <3>2. seen'[r] = document
      BY <2>3 DEF IInv, Types
    <3>. QED  BY <2>1, <2>3, <3>1, <3>2, QuietStep DEF Labels, Undisturbed
  <2>. QED  BY <1>3, <2>2, <2>3 DEF SaveEnrichment
<1>4. CASE SaveEnrichmentFailure(r)
  <2>1. /\ pc[r] = "save_failure" /\ pc' = [pc EXCEPT ![r] = "enrichment_log"]
        /\ seen' = [seen EXCEPT ![r] = NoProfile]
        /\ UNCHANGED <<analysis, history, history_seen, pcs_before, misread, today, overlapped>>
        /\ profile' = Logged(seen[r], "ENRICHMENT_FAILURE") \/ UNCHANGED profile
    BY <1>4 DEF SaveEnrichmentFailure
  <2>2. CASE profile' = Logged(seen[r], "ENRICHMENT_FAILURE")
    <3>1. "ENRICHMENT_FAILURE" \in Events
      BY DEF Events
    <3>2. /\ profile' \in Profile /\ profile'.exists = TRUE
          /\ profile'.enrichment = seen[r].enrichment
          /\ profile'.relationship = seen[r].relationship
          /\ profile'.score = seen[r].score
          /\ \A e \in Events : profile'.change_log[e] >= seen[r].change_log[e]
      BY <2>2, <3>1, <1>t, LoggedKeeps
    <3>. QED  BY <2>1, <3>2, <1>t, WritingStep DEF Labels
  <2>3. CASE UNCHANGED profile
    BY <2>1, <2>3, <1>t, NoProfileType, QuietStep DEF Labels
  <2>. QED  BY <2>1, <2>2, <2>3
<1>5. CASE EnrichmentLog(r)
  <2>1. /\ pc[r] = "enrichment_log" /\ pc' = [pc EXCEPT ![r] = "rs"]
        /\ UNCHANGED <<profile, analysis, history, seen, history_seen, pcs_before, misread, today,
                       overlapped>>
    BY <1>5 DEF EnrichmentLog
  <2>. QED  BY <2>1, <1>t, QuietStep DEF Labels
<1>. QED  BY <1>1, <1>2, <1>3, <1>4, <1>5 DEF EnrichmentStep

LEMMA RsSteps ==
  ASSUME IInv, NEW r \in Runs, RsStep(r)
  PROVE  IInv' /\ (Undisturbed(r) => Kept)
<1>. USE DEF files, GoTo, Give, AFault, NoFault, Forget
<1>t. /\ profile \in Profile /\ seen[r] \in Profile /\ Types /\ misread \in [Runs -> BOOLEAN]
      /\ Undisturbed(r) /\ pc[r] \in {"save_rs", "save_minimal"} => seen[r] = profile
  BY DEF IInv, Types, ReadIsCurrent
<1>g. Undisturbed(r) /\ pc[r] \in {"gather", "save_rs"} =>
         IsStale(profile.relationship.day, RsMaxAge)
  BY DEF IInv, GatheringIsDue
<1>1. CASE RsGate(r)
  <2>1. PICK score \in Readings, document \in Readings, consolidated \in Readings :
           /\ pcs_before' = [pcs_before EXCEPT ![r] = ReadPcs(score)]
           /\ RsDecision(r, score, document, consolidated,
                         {score, document, consolidated} # {profile})
    BY <1>1 DEF RsGate
  <2>0. /\ \/ pc' = [pc EXCEPT ![r] = "analysis"]
           \/ ~Fresh(consolidated) /\ pc' = [pc EXCEPT ![r] = "gather"]
        /\ Misread(r, {score, document, consolidated} # {profile})
    BY <2>1 DEF RsDecision, Reads
  <2>2. /\ pc[r] = "rs"
        /\ UNCHANGED <<profile, analysis, history, seen, history_seen, today, overlapped>>
    BY <1>1 DEF RsGate
  <2>3. ReadPcs(score) \in Nat
    BY <1>t, ReadingsAreProfiles DEF ReadPcs
  <2>4. /\ misread' \in [Runs -> BOOLEAN]
        /\ ~misread'[r] => ~misread[r] /\ {score, document, consolidated} = {profile}
    BY <2>0, <1>t, Misreading
  <2>5. ~misread'[r] => consolidated = profile
    BY <2>4
  <2>6. CASE pc' = [pc EXCEPT ![r] = "analysis"]
    BY <2>1, <2>2, <2>3, <2>4, <2>6, QuietStep DEF Labels
  <2>7. CASE ~Fresh(consolidated) /\ pc' = [pc EXCEPT ![r] = "gather"]
    BY <2>1, <2>2, <2>3, <2>4, <2>5, <2>7, QuietStep DEF Labels, Fresh, Undisturbed
  <2>. QED  BY <2>0, <2>6, <2>7
<1>2. CASE RsTools(r)
  <2>1. /\ pc[r] = "gather"
        /\ UNCHANGED <<profile, analysis, history, history_seen, pcs_before, today, overlapped>>
    BY <1>2 DEF RsTools
  <2>2. ASSUME NEW prior \in Readings, NEW document \in Readings,
               seen' = [seen EXCEPT ![r] = [document EXCEPT !.relationship = prior.relationship]],
               Misread(r, {prior, document} # {profile}), pc' = [pc EXCEPT ![r] = "save_rs"]
        PROVE  IInv' /\ Kept
    <3>. DEFINE p == [document EXCEPT !.relationship = prior.relationship]
    <3>1. p \in Profile
      BY <1>t, ReadingsAreProfiles DEF Profile
    <3>2. /\ misread' \in [Runs -> BOOLEAN]
          /\ ~misread'[r] => ~misread[r] /\ {prior, document} = {profile}
      BY <2>2, <1>t, Misreading
    <3>3. ~misread'[r] => p = profile
      <4>1. ~misread'[r] => prior = profile /\ document = profile
        BY <3>2
      <4>. QED  BY <4>1, <1>t DEF Profile
    <3>. HIDE DEF p
    <3>4. seen' = [seen EXCEPT ![r] = p]
      BY <2>2 DEF p
    <3>5. seen'[r] = p
      BY <3>4 DEF IInv, Types
    <3>. QED  BY <2>1, <2>2, <3>1, <3>2, <3>3, <3>4, <3>5, <1>g, QuietStep DEF Labels, Undisturbed
  <2>3. ASSUME NEW label \in {"analysis", "minimal"}, pc' = [pc EXCEPT ![r] = label],
               UNCHANGED <<seen, misread>>
        PROVE  IInv' /\ Kept
    BY <2>1, <2>3, <1>t, QuietStep DEF Labels
  <2>. QED  BY <1>2, <2>2, <2>3 DEF RsTools, Reads
<1>3. CASE SaveRs(r)
  <2>1. /\ pc[r] = "save_rs" /\ seen' = [seen EXCEPT ![r] = NoProfile]
        /\ UNCHANGED <<analysis, history, history_seen, pcs_before, misread, today, overlapped>>
    BY <1>3 DEF SaveRs
  <2>2. ASSUME NEW c \in {0, 1}, profile' = WithRelationship(seen[r], Assembled(r, c)),
               pc' = [pc EXCEPT ![r] = "rs_ledger"]
        PROVE  IInv' /\ (Undisturbed(r) => Kept)
    <3>1. /\ Assembled(r, c) \in Relationship /\ Assembled(r, c).status = "ASSEMBLED"
          /\ Assembled(r, c) # NoRelationship
      BY <1>t, RelationshipTypes
    <3>2. /\ profile' \in Profile /\ profile'.exists = TRUE
          /\ profile'.enrichment = seen[r].enrichment
          /\ profile'.relationship = Assembled(r, c)
          /\ profile'.score = seen[r].score
          /\ \A e \in Events : profile'.change_log[e] >= seen[r].change_log[e]
      BY <2>2, <3>1, <1>t, RelationshipKeeps
    <3>. QED  BY <2>1, <2>2, <3>1, <3>2, <1>t, <1>g, WritingStep DEF Labels
  <2>3. CASE UNCHANGED profile /\ pc' = [pc EXCEPT ![r] = "minimal"]
    BY <2>1, <2>3, <1>t, NoProfileType, QuietStep DEF Labels
  <2>. QED  BY <1>3, <2>2, <2>3 DEF SaveRs
<1>4. CASE RsLedger(r)
  <2>1. /\ pc[r] = "rs_ledger"
        /\ \E label \in {"analysis", "minimal"} : pc' = [pc EXCEPT ![r] = label]
        /\ UNCHANGED <<profile, analysis, history, seen, history_seen, pcs_before, misread, today,
                       overlapped>>
    BY <1>4 DEF RsLedger
  <2>. QED  BY <2>1, <1>t, QuietStep DEF Labels
<1>5. CASE ReadForMinimal(r)
  <2>1. /\ pc[r] = "minimal" /\ pc' = [pc EXCEPT ![r] = "save_minimal"] /\ ReadProfile(r)
        /\ UNCHANGED <<profile, analysis, history, history_seen, pcs_before, today, overlapped>>
    BY <1>5 DEF ReadForMinimal
  <2>. QED  BY <2>1, <1>t, ReadProfileStep, QuietStep DEF Labels, Undisturbed
<1>6. CASE SaveMinimal(r)
  <2>1. /\ pc[r] = "save_minimal" /\ pc' = [pc EXCEPT ![r] = "analysis"]
        /\ seen' = [seen EXCEPT ![r] = NoProfile]
        /\ UNCHANGED <<analysis, history, history_seen, pcs_before, misread, today, overlapped>>
        /\ profile' = WithRelationship(seen[r], Minimal) \/ UNCHANGED profile
    BY <1>6 DEF SaveMinimal
  <2>2. CASE profile' = WithRelationship(seen[r], Minimal)
    <3>1. Minimal \in Relationship /\ Minimal.status = "FAILED" /\ Minimal # NoRelationship
      BY <1>t, RelationshipTypes
    <3>2. /\ profile' \in Profile /\ profile'.exists = TRUE
          /\ profile'.enrichment = seen[r].enrichment
          /\ profile'.relationship = Minimal
          /\ profile'.score = seen[r].score
          /\ \A e \in Events : profile'.change_log[e] >= seen[r].change_log[e]
      BY <2>2, <3>1, <1>t, RelationshipKeeps
    <3>. QED  BY <2>1, <3>1, <3>2, <1>t, WritingStep DEF Labels
  <2>3. CASE UNCHANGED profile
    BY <2>1, <2>3, <1>t, NoProfileType, QuietStep DEF Labels
  <2>. QED  BY <2>1, <2>2, <2>3
<1>. QED  BY <1>1, <1>2, <1>3, <1>4, <1>5, <1>6 DEF RsStep

LEMMA AnalysisSteps ==
  ASSUME IInv, NEW r \in Runs, AnalysisStep(r)
  PROVE  IInv' /\ (Undisturbed(r) => Kept)
<1>. USE DEF files, GoTo, Give, AFault, NoFault
<1>t. /\ profile \in Profile /\ history \in Nat /\ Types /\ history_seen[r] \in Nat
      /\ misread \in [Runs -> BOOLEAN]
      /\ Undisturbed(r) /\ pc[r] = "save_history" => history_seen[r] = history
  BY DEF IInv, Types, ReadIsCurrent
<1>i. pc[r] \in {"analyse", "save_analysis"} =>
         /\ ~overlapped => profile.relationship # NoRelationship
         /\ Undisturbed(r) => pcs_before[r] = profile.relationship.pcs
  BY DEF IInv, AnalysingHasInputs
<1>1. CASE AnalysisGate(r)
  <2>1. /\ pc[r] = "analysis"
        /\ UNCHANGED <<profile, analysis, history, seen, history_seen, today, overlapped>>
    BY <1>1 DEF AnalysisGate
  <2>2. PICK score \in Readings, document \in Readings, consolidated \in Readings,
              former \in {analysis, NoAnalysis} :
           /\ Misread(r, {score, document, consolidated} # {profile} \/ former # analysis)
           /\ AnalysisDecision(r, score, document, consolidated, former)
    BY <1>1 DEF AnalysisGate, Reads
  <2>0. \/ pc' = [pc EXCEPT ![r] = "idle"] /\ pcs_before' = [pcs_before EXCEPT ![r] = 0]
        \/ /\ Analysable(document, consolidated) /\ pc' = [pc EXCEPT ![r] = "analyse"]
           /\ pcs_before' = [pcs_before EXCEPT ![r] = AnalysisPcs(score)]
    BY <2>2 DEF AnalysisDecision
  <2>3. /\ misread' \in [Runs -> BOOLEAN]
        /\ ~misread'[r] => ~misread[r] /\ {score, document, consolidated} = {profile}
    BY <2>2, <1>t, Misreading
  <2>4. ~misread'[r] => score = profile
    BY <2>3
  <2>5. CASE pc' = [pc EXCEPT ![r] = "idle"] /\ pcs_before' = [pcs_before EXCEPT ![r] = 0]
    BY <2>1, <2>3, <2>5, QuietStep DEF Labels
  <2>6. CASE /\ Analysable(document, consolidated) /\ pc' = [pc EXCEPT ![r] = "analyse"]
             /\ pcs_before' = [pcs_before EXCEPT ![r] = AnalysisPcs(score)]
    <3>1. profile.relationship # NoRelationship
      <4>1. consolidated = profile \/ consolidated = NoProfile
        BY DEF Readings
      <4>2. consolidated.relationship # NoRelationship
        BY <2>6 DEF Analysable
      <4>3. NoProfile.relationship = NoRelationship
        BY DEF NoProfile
      <4>. QED  BY <4>1, <4>2, <4>3
    <3>2. score.relationship.pcs \in Nat
      BY <1>t, ReadingsAreProfiles
    <3>3. pcs_before'[r] = score.relationship.pcs
      BY <2>6 DEF AnalysisPcs, IInv, Types
    <3>. QED
      BY <2>1, <2>3, <2>4, <2>6, <3>1, <3>2, <3>3, QuietStep DEF Labels, AnalysisPcs, Undisturbed
  <2>. QED  BY <2>0, <2>5, <2>6
<1>2. CASE AnalysisTools(r)
  <2>1. /\ pc[r] = "analyse"
        /\ UNCHANGED <<profile, analysis, history, seen, history_seen, today, overlapped>>
    BY <1>2 DEF AnalysisTools
  <2>2. ASSUME NEW failed, Misread(r, failed), pc' = [pc EXCEPT ![r] = "save_analysis"],
               UNCHANGED pcs_before
        PROVE  IInv' /\ Kept
    <3>1. misread' \in [Runs -> BOOLEAN] /\ (~misread'[r] => ~misread[r])
      BY <2>2, <1>t, Misreading
    <3>. QED  BY <2>1, <2>2, <3>1, <1>i, QuietStep DEF Labels, Undisturbed
  <2>3. CASE /\ pc' = [pc EXCEPT ![r] = "idle"] /\ pcs_before' = [pcs_before EXCEPT ![r] = 0]
             /\ UNCHANGED misread
    BY <2>1, <2>3, <1>t, QuietStep DEF Labels
  <2>. QED  BY <1>2, <2>2, <2>3 DEF AnalysisTools, Reads
<1>3. CASE SaveAnalysis(r)
  <2>1. /\ pc[r] = "save_analysis" /\ pc' = [pc EXCEPT ![r] = "save_history"]
        /\ UNCHANGED <<profile, history, seen, pcs_before, today, overlapped>>
    BY <1>3 DEF SaveAnalysis
  <2>2. PICK runs \in {history, 0} :
           history_seen' = [history_seen EXCEPT ![r] = runs] /\ Misread(r, runs # history)
    BY <1>3 DEF SaveAnalysis, Reads
  <2>3. misread' \in [Runs -> BOOLEAN] /\ (~misread'[r] => runs = history)
    BY <2>2, <1>t, Misreading
  <2>4. Types' /\ history_seen'[r] = runs
    BY <2>1, <2>2, <2>3, <1>t DEF IInv, Types, Labels
  <2>5. IInv'
    BY <2>1, <2>3, <2>4, RunStep DEF Labels, Undisturbed
  <2>. QED  BY <2>1, <2>5, <1>t, UnchangedIsKept
<1>4. CASE SaveHistory(r)
  <2>1. /\ pc[r] = "save_history" /\ pc' = [pc EXCEPT ![r] = "idle"]
        /\ history' = history_seen[r] + 1 \/ UNCHANGED history
        /\ history_seen' = [history_seen EXCEPT ![r] = 0]
        /\ pcs_before' = [pcs_before EXCEPT ![r] = 0]
        /\ UNCHANGED <<profile, analysis, seen, misread, today, overlapped>>
    BY <1>4 DEF SaveHistory
  <2>2. Types'
    BY <2>1, <1>t DEF IInv, Types, Labels
  <2>3. IInv'
    BY <2>1, <2>2, RunStep DEF Labels
  <2>4. Undisturbed(r) => Kept
    BY <2>1, <1>t, UnchangedIsKept
  <2>. QED  BY <2>3, <2>4
<1>. QED  BY <1>1, <1>2, <1>3, <1>4 DEF AnalysisStep

LEMMA OverlappingIsRemembered ==
  ASSUME IInv, [Next]_vars, ~overlapped'
  PROVE  ~overlapped
BY DEF IInv, Types, Next, Start, Step, NewDay, Crash, EnrichmentStep, EnrichmentGate,
       EnrichmentTools, SaveEnrichment, SaveEnrichmentFailure, EnrichmentLog, RsStep, RsGate,
       RsTools, SaveRs, RsLedger, ReadForMinimal, SaveMinimal, AnalysisStep, AnalysisGate,
       AnalysisTools, SaveAnalysis, SaveHistory, vars, environment

(* The invariant is kept by every step, and no step made while runs have not *)
(* overlapped and could read their files loses anything.                     *)
LEMMA NextIInv ==
  ASSUME IInv, [Next]_vars
  PROVE  IInv' /\ (ReadsInTurn => Kept)
<1>. USE DEF files, memory
<1>1. ASSUME NEW r \in Runs, Start(r)
      PROVE  IInv' /\ Kept
  <2>1. /\ pc[r] = "idle" /\ pc' = [pc EXCEPT ![r] = "enrichment"]
        /\ overlapped' = (overlapped \/ \E q \in Runs : pc[q] # "idle")
        /\ misread' = [misread EXCEPT ![r] = FALSE]
        /\ UNCHANGED <<profile, analysis, history, seen, history_seen, pcs_before, today>>
    BY <1>1 DEF Start, GoTo
  <2>2. Types'
    <3>1. misread' \in [Runs -> BOOLEAN]
      BY <2>1 DEF IInv, Types
    <3>. QED  BY <2>1, <3>1 DEF IInv, Types, Labels
  <2>3. pc \in [Runs -> Labels]
    BY DEF IInv, Types
  <2>4. OneAtATime'
    BY <2>1, <2>3 DEF OneAtATime
  <2>5. ~overlapped' => \A q \in Runs : pc'[q] \in {"idle", "enrichment"}
    BY <2>1, <2>3
  <2>6. ~overlapped' => ~overlapped
    BY <2>1
  <2>7. ReadIsCurrent' /\ GatheringIsDue' /\ AnalysingHasInputs'
    BY <2>5 DEF ReadIsCurrent, GatheringIsDue, AnalysingHasInputs, Undisturbed
  <2>. QED  BY <2>1, <2>2, <2>4, <2>7, UnchangedIsKept DEF IInv
<1>2. ASSUME NEW r \in Runs, Step(r)
      PROVE  IInv' /\ (ReadsInTurn => Kept)
  <2>1. IInv' /\ (Undisturbed(r) => Kept)
    BY <1>2, EnrichmentSteps, RsSteps, AnalysisSteps DEF Step
  <2>2. pc[r] # "idle"
    BY <1>2 DEF Step, EnrichmentStep, EnrichmentGate, EnrichmentTools, SaveEnrichment,
       SaveEnrichmentFailure, EnrichmentLog, RsStep, RsGate, RsTools, SaveRs, RsLedger,
       ReadForMinimal, SaveMinimal, AnalysisStep, AnalysisGate, AnalysisTools, SaveAnalysis,
       SaveHistory
  <2>. QED  BY <2>1, <2>2, OverlappingIsRemembered DEF ReadsInTurn, Undisturbed
<1>3. CASE NewDay
  <2>1. /\ today' = today + 1
        /\ UNCHANGED <<profile, analysis, history, pc, seen, history_seen, pcs_before, misread,
                       overlapped>>
    BY <1>3 DEF NewDay
  <2>2. Types'
    BY <2>1 DEF IInv, Types
  <2>3. GatheringIsDue'
    <3>1. /\ profile.relationship.day \in Nat /\ today \in Nat /\ RsMaxAge \in Nat
      BY ConstantsAreNaturals DEF IInv, Types, Profile, Relationship
    <3>2. IsStale(profile.relationship.day, RsMaxAge) =>
             IsStale(profile.relationship.day, RsMaxAge)'
      BY <2>1, <3>1 DEF IsStale
    <3>. QED  BY <2>1, <3>2 DEF IInv, GatheringIsDue, IsStale, Undisturbed
  <2>4. OneAtATime' /\ ReadIsCurrent' /\ AnalysingHasInputs'
    BY <2>1 DEF IInv, OneAtATime, ReadIsCurrent, AnalysingHasInputs, Undisturbed
  <2>. QED  BY <2>1, <2>2, <2>3, <2>4, UnchangedIsKept DEF IInv
<1>4. CASE Crash
  <2>1. /\ pc' = [r \in Runs |-> "idle"] /\ seen' = [r \in Runs |-> NoProfile]
        /\ history_seen' = [r \in Runs |-> 0] /\ pcs_before' = [r \in Runs |-> 0]
        /\ misread' = [r \in Runs |-> FALSE]
        /\ UNCHANGED <<profile, analysis, history, today, overlapped>>
    BY <1>4 DEF Crash
  <2>2. Types'
    BY <2>1, NoProfileType DEF IInv, Types, Labels
  <2>3. OneAtATime' /\ ReadIsCurrent' /\ GatheringIsDue' /\ AnalysingHasInputs'
    BY <2>1 DEF OneAtATime, ReadIsCurrent, GatheringIsDue, AnalysingHasInputs
  <2>. QED  BY <2>1, <2>2, <2>3, UnchangedIsKept DEF IInv
<1>5. CASE UNCHANGED vars
  <2>0. UNCHANGED <<profile, analysis, history, today, pc, seen, history_seen, pcs_before, misread,
                    overlapped>>
    BY <1>5 DEF vars, environment
  <2>1. IInv'
    <3>1. Types' /\ OneAtATime'
      BY <2>0 DEF IInv, Types, OneAtATime
    <3>2. ReadIsCurrent' /\ GatheringIsDue' /\ AnalysingHasInputs'
      BY <2>0 DEF IInv, ReadIsCurrent, GatheringIsDue, AnalysingHasInputs, IsStale, Undisturbed
    <3>. QED  BY <3>1, <3>2 DEF IInv
  <2>. QED  BY <2>0, <2>1, UnchangedIsKept DEF IInv
<1>. QED  BY <1>1, <1>2, <1>3, <1>4, <1>5 DEF Next

(* Only the save after an analysis writes the result, and it counts from the *)
(* part the gate has seen.                                                   *)
LEMMA AnalysisIsWritten ==
  ASSUME IInv, [Next]_vars, ~overlapped', analysis' # analysis
  PROVE  /\ profile.relationship # NoRelationship
         /\ ReadsInTurn => analysis'.pcs = Min2(MaxPcs, profile.relationship.pcs + 1)
<1>1. PICK r \in Runs : SaveAnalysis(r)
  BY DEF Next, Start, Step, NewDay, Crash, EnrichmentStep, EnrichmentGate, EnrichmentTools,
         SaveEnrichment, SaveEnrichmentFailure, EnrichmentLog, RsStep, RsGate, RsTools, SaveRs,
         RsLedger, ReadForMinimal, SaveMinimal, AnalysisStep, AnalysisGate, AnalysisTools,
         SaveHistory, vars, files
<1>2. pc[r] = "save_analysis" /\ analysis' = AnalysisResult(r)
  BY <1>1 DEF SaveAnalysis
<1>3. ~overlapped /\ (ReadsInTurn => Undisturbed(r))
  BY <1>2, OverlappingIsRemembered DEF ReadsInTurn, Undisturbed
<1>. QED  BY <1>2, <1>3 DEF IInv, AnalysingHasInputs, AnalysisResult, AnalysisTotal

(* The invariant holds in every reachable state, for any set of runs.        *)
THEOREM InvariantHolds == Spec => []IInv
<1>1. IInv /\ [Next]_vars => IInv'
  BY NextIInv
<1>. QED  BY <1>1, InitIInv, PTL DEF Spec

(* While runs follow one another, an analysis result is written only for a   *)
(* vendor with a relationship part, also after reads that failed; and it     *)
(* counts from that part's total when they did not.                          *)
THEOREM AnalysesHaveInputs == Spec => AnalysisHasItsInputs
<1>1. IInv /\ [Next]_vars =>
        [~overlapped' /\ analysis' # analysis =>
            /\ profile.relationship # NoRelationship
            /\ ReadsInTurn => analysis'.pcs = Min2(MaxPcs, profile.relationship.pcs + 1)]_vars
  BY AnalysisIsWritten
<1>. QED  BY <1>1, InvariantHolds, PTL DEF Spec, AnalysisHasItsInputs

(* A run that is alone and reads what is there loses no part of the          *)
(* document, no event of its change log and no run of the history, whatever  *)
(* else fails or dies, now or before.                                        *)
THEOREM NothingIsLost == Spec => PartsAreKept
<1>1. IInv /\ [Next]_vars => [ReadsInTurn => NothingLost]_vars
  BY NextIInv DEF Kept
<1>. QED  BY <1>1, InvariantHolds, PTL DEF Spec, PartsAreKept

(* Such a run replaces a relationship that is not stale by the record of a   *)
(* failed assembly only.                                                     *)
THEOREM FreshRelationshipsAreKept == Spec => FreshRelationshipsStay
<1>1. IInv /\ [Next]_vars =>
        [ReadsInTurn /\ profile'.relationship # profile.relationship
         => \/ IsStale(profile.relationship.day, RsMaxAge)
            \/ profile'.relationship.status = "FAILED"]_vars
  BY NextIInv DEF Kept, RelationshipStays
<1>. QED  BY <1>1, InvariantHolds, PTL DEF Spec, FreshRelationshipsStay

=============================================================================
