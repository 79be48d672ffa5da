--------------------------- MODULE LifecycleMapping ---------------------------
(***************************************************************************)
(* relationship_and_lifecycle_mapper: what the texts of the bundle and the  *)
(* Brain say of the vendor's life: rebranded, acquired, merged, spun off,   *)
(* public or private, possibly defunct; and its parent.  No model is asked. *)
(***************************************************************************)
EXTENDS SourceCollection

AllTopics == {"rebranded", "acquired", "merged", "spun_off", "went_public", "went_private",
              "parent", "defunct", "active"}

(* _items_by_priority: these sources first, the others as they were asked.   *)
SourcePriority == <<"company_website", "registry", "news", "linkedin", "web_search">>

SourceConfidence(type) ==
    CASE type \in {"COMPANY_WEBSITE", "REGISTRY"} -> "HIGH"
      [] type = "NEWS" -> "MEDIUM"
      [] OTHER -> "LOW"

Telling(bundle, topic) == {s \in DOMAIN bundle : \E i \in bundle[s] : topic \in i.says}

(* The sources of which one is the first to match.  Those without a place in *)
(* the priorities all have confidence LOW, so their order says nothing.      *)
FirstTelling(bundle, topic) ==
    LET ranked == {k \in DOMAIN SourcePriority : SourcePriority[k] \in Telling(bundle, topic)}
    IN  IF ranked # {} THEN {SourcePriority[Min(ranked)]} ELSE Telling(bundle, topic)

Confidences(bundle, topic) ==
    {SourceConfidence(i.type) : i \in UNION {bundle[s] : s \in FirstTelling(bundle, topic)}}

Signal(type, confidence) == [type |-> type, confidence |-> confidence]
Signals(bundle, type, topic) == {Signal(type, c) : c \in Confidences(bundle, topic)}

(* A brain that knows the vendor settles it, and the texts are not read.     *)
Rebranded(bundle, brain) ==
    IF "rebranded" \in brain THEN {Signal("REBRANDED", "HIGH")}
                             ELSE Signals(bundle, "REBRANDED", "rebranded")
Acquired(bundle, brain) ==
    IF "acquired" \in brain THEN {Signal("ACQUIRED", "HIGH")}
                            ELSE Signals(bundle, "ACQUIRED", "acquired")
Merged(bundle) == Signals(bundle, "MERGED", "merged")
SpunOff(bundle) == Signals(bundle, "SPUN_OFF", "spun_off")

(* An offering to the public hides that the vendor went private again.       *)
PublicOrPrivate(bundle) ==
    IF Telling(bundle, "went_public") # {} THEN Signals(bundle, "WENT_PUBLIC", "went_public")
                                           ELSE Signals(bundle, "WENT_PRIVATE", "went_private")

(* _detect_defunct: a source without items counts whether it failed or found *)
(* nothing.  A keyword counts three, unless the silence is three already;    *)
(* a sign of activity takes three away.                                      *)
Silent(bundle, source) == source \in DOMAIN bundle /\ bundle[source] = {}
Silence(bundle) ==
    (IF Silent(bundle, "news") THEN 2 ELSE 0) + (IF Silent(bundle, "web_search") THEN 1 ELSE 0)
DefunctScore(bundle) ==
    Silence(bundle)
      + (IF Silence(bundle) < 3 /\ Telling(bundle, "defunct") # {} THEN 3 ELSE 0)
      - (IF Telling(bundle, "active") # {} THEN 3 ELSE 0)
PossiblyDefunct(bundle) ==
    IF DefunctScore(bundle) >= 4 THEN {Signal("POSSIBLY_DEFUNCT", "MEDIUM")} ELSE {}

(* _identify_parent: the acquirer if it is certain, else what GLEIF knows,   *)
(* else a text.  Only that there is one counts for the profile.              *)
ParentFound(bundle, acquired, gleif) ==
    Signal("ACQUIRED", "HIGH") \in acquired \/ gleif \/ Telling(bundle, "parent") # {}

(* ACQUIRED takes precedence over POSSIBLY_DEFUNCT.                          *)
Lifecycle(bundle, brain) ==
    LET acquired == Acquired(bundle, brain)
    IN  Rebranded(bundle, brain) \cup acquired \cup Merged(bundle) \cup SpunOff(bundle)
          \cup PublicOrPrivate(bundle)
          \cup (IF acquired = {} THEN PossiblyDefunct(bundle) ELSE {})

(* The flags that later tools act upon.                                      *)
LifecycleFlags(lifecycle) ==
    {f \in {"POSSIBLY_DEFUNCT", "ACQUISITION_UNRESOLVED"} :
        \E s \in lifecycle : IF f = "POSSIBLY_DEFUNCT" THEN s.type = f
                             ELSE s.type = "ACQUIRED" /\ s.confidence # "HIGH"}

(* map_relationships_and_lifecycle, after which the bundle is not needed.    *)
MapRelationships ==
    /\ stage = "map"
    /\ \E brain \in SUBSET {"rebranded", "acquired"}, gleif \in BOOLEAN :
          LET lifecycle == Lifecycle(work.bundle, brain) IN
          Produce([lifecycle |-> lifecycle,
                   lifecycle_flags |-> LifecycleFlags(lifecycle),
                   parent |-> ParentFound(work.bundle, Acquired(work.bundle, brain), gleif),
                   dissolved |-> DefunctScore(work.bundle) >= 4,
                   bundle |-> <<>>],
                  "create")
    /\ UNCHANGED <<result, faults>>

=============================================================================
