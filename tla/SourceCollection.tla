--------------------------- MODULE SourceCollection ---------------------------
(***************************************************************************)
(* external_source_collector: the sources in scope are asked one after the  *)
(* other, each by a collector that never raises.  A collector that fails    *)
(* and one that finds nothing both leave an empty list of items; which one  *)
(* it was is kept in collection_flags, that no later tool reads but for     *)
(* FAILED_COLLECTION, which no collector raises.                            *)
(*                                                                         *)
(* An item stands for the answers of one source: its type, and the topics   *)
(* its text speaks of (the keywords and patterns the lifecycle mapper looks *)
(* for).  How well an item's name fits the vendor only orders the prompt of *)
(* the extraction, whose answer is arbitrary here, and is left out.         *)
(***************************************************************************)
EXTENDS ToolRun

CONSTANTS
    Topics,         \* subset of LifecycleMapping's topics that texts speak of
    MaxAnswers,     \* bound: sources that find something in one collection
    MaxTold         \* bound: topics told by all texts of a collection

ASSUME SourceCollectionAssumption == {MaxAnswers, MaxTold} \subseteq Nat

(* _TIER_SOURCES: where each depth tier looks, in this order.                *)
TierSources(depth) ==
    CASE depth = "PROVISIONAL" -> <<"web_search">>
      [] depth = "BASIC" -> <<"company_website">>
      [] depth = "STANDARD" ->
            <<"web_search", "company_website", "linkedin", "news", "wikidata", "wikipedia",
              "gleif", "opensanctions", "search_discovery">>
      [] depth = "DEEP" ->
            <<"web_search", "company_website", "linkedin", "registry", "financial", "news",
              "wikidata", "wikipedia", "gleif", "opensanctions", "search_discovery">>

Appended(s, new) == IF \E i \in DOMAIN s : s[i] = new THEN s ELSE Append(s, new)

(* _source_scope: a missing category needs the web, a vendor that may be     *)
(* defunct the registry and the news, uploaded contracts are read last.      *)
SourceScope(depth, no_category, defunct, contract) ==
    LET web == IF no_category THEN Appended(TierSources(depth), "web_search")
                              ELSE TierSources(depth)
        gone == IF defunct THEN Appended(Appended(web, "registry"), "news") ELSE web
    IN  IF contract THEN Appended(gone, "contract") ELSE gone

Nothing == {}
Texts(type) == {{[type |-> type, says |-> s]} : s \in {t \in SUBSET Topics : Cardinality(t) <= MaxTold}}

Perhaps(type) == {Nothing} \cup Texts(type)

(* A search engine: an error, no result that has a text, or texts.           *)
WebSearch == Perhaps("WEB_SEARCH")
News == Perhaps("NEWS")
SearchDiscovery == Perhaps("WEB_SEARCH")

(* The page of the vendor, if its address is known; no text, no item: the    *)
(* "empty content" the defunct detection looks for never gets into a bundle. *)
CompanyWebsite(site) == IF site THEN Perhaps("COMPANY_WEBSITE") ELSE {Nothing}

LinkedIn == {Nothing}

(* Companies House answers for a British vendor with a good match; the       *)
(* others, also after an error, are looked up in OpenCorporates.             *)
CompaniesHouse == Texts("REGISTRY")
OpenCorporates == Perhaps("REGISTRY")
Registry == CompaniesHouse \cup OpenCorporates

(* Only vendors of some markets are looked up, two calls that may both fail. *)
Financial == Perhaps("FINANCIAL")
Wikidata == Perhaps("WIKIDATA")
Wikipedia == Perhaps("WIKIDATA")
Gleif == Perhaps("GLEIF")
OpenSanctions == Perhaps("SANCTIONS")

(* What each collector may return.  "contract" has no collector: the loop    *)
(* skips it, and the evidence is added after the loop.                       *)
Collected(source, site) ==
    CASE source = "web_search" -> WebSearch
      [] source = "company_website" -> CompanyWebsite(site)
      [] source = "linkedin" -> LinkedIn
      [] source = "registry" -> Registry
      [] source = "financial" -> Financial
      [] source = "news" -> News
      [] source = "wikidata" -> Wikidata
      [] source = "wikipedia" -> Wikipedia
      [] source = "gleif" -> Gleif
      [] source = "opensanctions" -> OpenSanctions
      [] source = "search_discovery" -> SearchDiscovery

(* _collect_contract_evidence: facts an RS run extracted, or a model's       *)
(* reading of an uploaded file; a failure leaves no item.                    *)
ContractEvidence == {Nothing, {[type |-> "CONTRACT", says |-> {}]}}

Items(bundle) == UNION {bundle[s] : s \in DOMAIN bundle}
Answering(bundle) == {s \in DOMAIN bundle : bundle[s] # Nothing}
Told(bundle) ==
    UNION {{s} \X {t \in Topics : \E i \in bundle[s] : t \in i.says} : s \in DOMAIN bundle}
Bounded(bundle) ==
    Cardinality(Answering(bundle)) <= MaxAnswers /\ Cardinality(Told(bundle)) <= MaxTold

(* collect_sources.  The address of a vendor without one is guessed from the *)
(* results of the web search, for the sources that come later.               *)
CollectSource ==
    /\ stage = "collect"
    /\ work.left # <<>>
    /\ Head(work.left) # "contract"
    /\ LET source == Head(work.left) IN
       \E items \in Collected(source, work.site) :
          \E site \in {work.site}
                       \cup (IF source = "web_search" /\ items # Nothing THEN {TRUE} ELSE {}) :
             LET bundle == Updated(work.bundle, [s \in {source} |-> items]) IN
             /\ Bounded(bundle)
             /\ Produce([bundle |-> bundle, left |-> Tail(work.left), site |-> site], "collect")
    /\ UNCHANGED <<result, faults>>

CollectContract ==
    /\ stage = "collect"
    /\ work.left \in {<<>>, <<"contract">>}
    /\ \E items \in IF work.left = <<>> THEN {Nothing} ELSE ContractEvidence :
          LET bundle == IF items = Nothing THEN work.bundle
                        ELSE Updated(work.bundle, [s \in {"contract"} |-> items])
          IN  /\ Bounded(bundle)
              /\ work' = [depth |-> work.depth, bundle |-> bundle]
    /\ stage' = "extract"
    /\ UNCHANGED <<result, faults>>

=============================================================================
