--------------------------- MODULE AtomicWriteProofs ---------------------------
(* Theorems about AtomicWrite for every set of threads and documents, every  *)
(* validator and every number of calls, crashes and failures.                *)
EXTENDS AtomicWrite, FiniteSetTheorems, WellFoundedInduction, TLAPS

-----------------------------------------------------------------------------
(* The inductive invariant                                                   *)

Labels == {"idle", "open", "write", "validate", "replace", "publish"}
NodesOrNone == Nodes \cup {NoNode}
Busy(w) == pc[w] # "idle"

TypeOK ==
    /\ node \in [Nodes -> SUBSET (Contents \cup {Part})]
    /\ path \in NodesOrNone /\ tmp \in NodesOrNone
    /\ pc \in [Writers -> Labels]
    /\ content \in [Writers -> SUBSET Contents]
    /\ handle \in [Writers -> NodesOrNone]
    /\ attempts = [w \in Writers |-> attempts[w]]
    /\ crashes \in Nat /\ faults \in Nat
    /\ overlapped \in BOOLEAN

(* The two names never share a node, and a handle is open only while a       *)
(* thread writes.                                                            *)
NamesAreApart ==
    /\ tmp # NoNode => tmp # path
    /\ \A w \in Writers : handle[w] # NoNode => pc[w] = "write"

(* Whoever leaves the temporary file behind is counted, and every other way  *)
(* out of the call renames or removes it.                                    *)
TmpHasOwner ==
    tmp # NoNode => dropped \/ \E w \in Writers : pc[w] \in {"write", "validate", "replace"}

(* What the one thread of a call that is alone knows about the files.        *)
CallInOrder(w) ==
    /\ Busy(w) => /\ \E c \in Contents : content[w] = {c}
                  /\ \A v \in Writers : Busy(v) => v = w
    /\ pc[w] = "write" => handle[w] = tmp /\ tmp # NoNode /\ node[tmp] = {}
    /\ pc[w] \in {"validate", "replace"} => tmp # NoNode /\ node[tmp] = content[w]
    /\ pc[w] = "replace" => content[w] \subseteq Valid
    /\ pc[w] = "publish" => path # NoNode /\ PathContent = content[w]

(* The name of a dict was checked against a document that is still there.    *)
NameWasChecked(w) ==
    Busy(w) /\ ~unread =>
        \A old, new \in Contents :
            NameIsChecked(new) /\ PathContent = {old} /\ content[w] = {new} => HasName(new, old)

BlobIsCurrent ==
    crashes = 0 /\ faults = 0 /\ (\A w \in Writers : pc[w] # "publish") => blob = PathContent

AloneInOrder ==
    ~overlapped =>
        /\ WholeDocuments
        /\ \A w \in Writers : CallInOrder(w) /\ NameWasChecked(w)
        /\ BlobIsCurrent

IInv == TypeOK /\ NamesAreApart /\ TmpHasOwner /\ AloneInOrder

-----------------------------------------------------------------------------
(* There is always a node to create a file with                              *)

Less == {p \in Nat \X Nat : p[1] < p[2]}

LEMMA MinOfNumbers ==
  ASSUME NEW S \in SUBSET Nat, S # {}
  PROVE  Min(S) \in S
<1>1. IsWellFoundedOn(Less, Nat)
  <2>1. Less = OpToRel(<, Nat)
    BY DEF Less, OpToRel
  <2>. QED  BY <2>1, NatLessThanWellFounded
<1>2. PICK m \in S : \A n \in S : <<n, m>> \notin Less
  BY <1>1, WFMin
<1>3. \A n \in S : m <= n
  <2>. SUFFICES ASSUME NEW n \in S PROVE m <= n
    OBVIOUS
  <2>1. m \in Nat /\ n \in Nat /\ <<n, m>> \notin Less
    BY <1>2
  <2>2. ~(n < m)
    BY <2>1 DEF Less
  <2>. QED  BY <2>1, <2>2
<1>4. \E x \in S : \A y \in S : x =< y
  BY <1>3
<1>. QED  BY <1>4 DEF Min

LEMMA WritersAreCounted ==
  /\ IsFiniteSet(Writers) /\ Cardinality(Writers) \in Nat
  /\ IsFiniteSet(Nodes) /\ Cardinality(Nodes) = Cardinality(Writers) + 2
  /\ Nodes \subseteq Nat /\ NoNode \notin Nodes
<1>1. IsFiniteSet(Writers) /\ Cardinality(Writers) \in Nat
  BY AtomicWriteAssumption, FS_CardinalityType
<1>2. Nodes = 1..(Cardinality(Writers) + 2) /\ Nodes \subseteq Nat /\ NoNode \notin Nodes
  BY <1>1 DEF Nodes, NoNode
<1>. QED  BY <1>1, <1>2, FS_Interval

(* A thread about to open the file holds no handle, so the handles and names *)
(* cannot take up all nodes.                                                 *)
LEMMA FreeNodes ==
  ASSUME TypeOK, NamesAreApart, NEW w \in Writers, pc[w] = "open"
  PROVE  FreeNode \in Nodes \ ({path, tmp} \cup {handle[v] : v \in Writers})
<1>. DEFINE others == Writers \ {w}
            held == {handle[v] : v \in others}
            used == {path, tmp} \cup {handle[v] : v \in Writers}
<1>1. handle[w] = NoNode
  BY DEF NamesAreApart
<1>2. /\ IsFiniteSet(others) /\ Cardinality(others) = Cardinality(Writers) - 1
      /\ Cardinality(others) \in Nat
  BY WritersAreCounted, FS_RemoveElement, FS_CardinalityType
<1>3. IsFiniteSet(held) /\ Cardinality(held) <= Cardinality(others) /\ Cardinality(held) \in Nat
  <2>. DEFINE f == [v \in others |-> handle[v]]
  <2>1. f \in Surjection(others, held)
    BY DEF Surjection
  <2>2. IsFiniteSet(held) /\ Cardinality(held) <= Cardinality(others)
    BY <1>2, <2>1, FS_Surjection
  <2>. QED  BY <2>2, FS_CardinalityType
<1>. HIDE DEF held, others
<1>add. ASSUME NEW S, IsFiniteSet(S), NEW x
        PROVE  /\ IsFiniteSet(S \cup {x}) /\ Cardinality(S \cup {x}) \in Nat
               /\ Cardinality(S \cup {x}) <= Cardinality(S) + 1
  <2>1. IsFiniteSet(S \cup {x})
    BY <1>add, FS_AddElement
  <2>2. Cardinality(S) \in Nat /\ Cardinality(S \cup {x}) \in Nat
    BY <1>add, <2>1, FS_CardinalityType
  <2>3. Cardinality(S \cup {x}) = Cardinality(S) \/ Cardinality(S \cup {x}) = Cardinality(S) + 1
    BY <1>add, FS_AddElement, Zenon
  <2>. QED  BY <2>1, <2>2, <2>3
<1>4. /\ IsFiniteSet(held \cup {path}) /\ Cardinality(held \cup {path}) <= Cardinality(held) + 1
      /\ Cardinality(held \cup {path}) \in Nat
  BY <1>3, <1>add
<1>5. /\ IsFiniteSet((held \cup {path}) \cup {tmp})
      /\ Cardinality((held \cup {path}) \cup {tmp}) <= Cardinality(held \cup {path}) + 1
      /\ Cardinality((held \cup {path}) \cup {tmp}) \in Nat
  BY <1>4, <1>add
<1>6. ~(Nodes \subseteq (held \cup {path}) \cup {tmp})
  <2>1. SUFFICES ASSUME Nodes \subseteq (held \cup {path}) \cup {tmp} PROVE FALSE
    OBVIOUS
  <2>2. Cardinality(Nodes) <= Cardinality((held \cup {path}) \cup {tmp})
    BY <2>1, <1>5, FS_Subset
  <2>. QED  BY <2>2, <1>2, <1>3, <1>4, <1>5, WritersAreCounted
<1>7. \A n \in used : n \in (held \cup {path}) \cup {tmp} \/ n = NoNode
  BY <1>1 DEF held, others
<1>8. Nodes \ used # {} /\ Nodes \ used \in SUBSET Nat
  BY <1>6, <1>7, WritersAreCounted
<1>. QED  BY <1>8, MinOfNumbers DEF FreeNode

-----------------------------------------------------------------------------
(* The steps                                                                 *)

LEMMA InitialStates == Init => IInv
<1>. SUFFICES ASSUME Init PROVE IInv
  OBVIOUS
<1>. USE DEF Init
<1>1. TypeOK
  BY WritersAreCounted DEF TypeOK, Labels, NodesOrNone
<1>2. NamesAreApart /\ TmpHasOwner
  BY DEF NamesAreApart, TmpHasOwner
<1>3. WholeDocuments /\ BlobIsCurrent
  BY DEF WholeDocuments, BlobIsCurrent, PathContent
<1>4. \A w \in Writers : CallInOrder(w) /\ NameWasChecked(w)
  BY DEF CallInOrder, NameWasChecked, Busy
<1>. QED  BY <1>1, <1>2, <1>3, <1>4 DEF IInv, AloneInOrder

(* A call that is alone has only its own thread to answer for.               *)
LEMMA OneThread ==
  ASSUME TypeOK, AloneInOrder, ~overlapped, ~overlapped', NEW w \in Writers, Busy(w),
         \A v \in Writers \ {w} : pc'[v] = pc[v],
         WholeDocuments', CallInOrder(w)', NameWasChecked(w)', BlobIsCurrent'
  PROVE  AloneInOrder'
<1>1. \A v \in Writers : v # w => pc[v] = "idle" /\ pc'[v] = "idle"
  BY DEF AloneInOrder, CallInOrder, Busy
<1>2. \A v \in Writers : v # w => CallInOrder(v)' /\ NameWasChecked(v)'
  BY <1>1 DEF CallInOrder, NameWasChecked, Busy
<1>. QED  BY <1>2 DEF AloneInOrder

LEMMA BeginWriteStep ==
  ASSUME IInv, NEW w \in Writers, NEW c \in Contents, BeginWrite(w, c)
  PROVE  IInv'
<1>. USE DEF IInv, BeginWrite, files, GoTo
<1>f. faults' \in Nat /\ (faults' = 0 => faults = 0)
  BY DEF TypeOK, AFault
<1>1. TypeOK'
  BY <1>f DEF TypeOK, Labels
<1>2. NamesAreApart'
  BY DEF TypeOK, NamesAreApart
<1>3. TmpHasOwner'
  BY DEF TypeOK, TmpHasOwner
<1>4. AloneInOrder'
  <2>. SUFFICES ASSUME ~overlapped' PROVE AloneInOrder'
    BY DEF AloneInOrder
  <2>1. ~overlapped /\ \A v \in Writers : pc[v] = "idle"
    OBVIOUS
  <2>2. PathContent' = PathContent
    BY DEF PathContent
  <2>3. WholeDocuments' /\ BlobIsCurrent'
    BY <1>f, <2>1, <2>2 DEF TypeOK, AloneInOrder, WholeDocuments, BlobIsCurrent
  <2>4. CASE /\ NameAllowed(c) \/ unread'
             /\ GoTo(w, "open") /\ content' = [content EXCEPT ![w] = {c}]
    <3>1. pc'[w] = "open" /\ content'[w] = {c} /\ \A v \in Writers \ {w} : pc'[v] = "idle"
      BY <2>1, <2>4 DEF TypeOK
    <3>2. \A v \in Writers : CallInOrder(v)'
      BY <3>1 DEF CallInOrder, Busy
    <3>3. \A v \in Writers : NameWasChecked(v)'
      BY <2>2, <2>4, <3>1 DEF NameWasChecked, Busy, NameAllowed
    <3>. QED  BY <2>3, <3>2, <3>3 DEF AloneInOrder
  <2>5. CASE UNCHANGED <<pc, content, unread>>
    <3>1. \A v \in Writers : CallInOrder(v)' /\ NameWasChecked(v)'
      BY <2>1, <2>5 DEF CallInOrder, NameWasChecked, Busy
    <3>. QED  BY <2>3, <3>1 DEF AloneInOrder
  <2>. QED  BY <2>4, <2>5
<1>. QED  BY <1>1, <1>2, <1>3, <1>4

LEMMA OpenTmpStep ==
  ASSUME IInv, NEW w \in Writers, OpenTmp(w)
  PROVE  IInv'
<1>. USE DEF IInv, OpenTmp, GoTo, environment, observations
<1>1. tmp' \in Nodes /\ tmp' # path /\ tmp' # NoNode
  <2>1. CASE tmp # NoNode
    BY <2>1 DEF TmpNode, TypeOK, NodesOrNone, NamesAreApart
  <2>2. CASE tmp = NoNode
    BY <2>2, FreeNodes, WritersAreCounted DEF TmpNode
  <2>. QED  BY <2>1, <2>2
<1>2. /\ path' = path /\ node'[tmp'] = {} /\ \A n \in Nodes : n # tmp' => node'[n] = node[n]
      /\ pc'[w] = "write" /\ handle'[w] = tmp'
      /\ \A v \in Writers \ {w} : pc'[v] = pc[v] /\ handle'[v] = handle[v]
  BY <1>1 DEF TypeOK
<1>3. TypeOK'
  BY <1>1 DEF TypeOK, Labels, NodesOrNone
<1>4. NamesAreApart' /\ TmpHasOwner'
  BY <1>1, <1>2 DEF TypeOK, NamesAreApart, TmpHasOwner
<1>5. AloneInOrder'
  <2>. SUFFICES ASSUME ~overlapped PROVE AloneInOrder'
    BY DEF AloneInOrder
  <2>1. PathContent' = PathContent
    BY <1>1, <1>2 DEF PathContent, TypeOK, NodesOrNone
  <2>2. WholeDocuments' /\ BlobIsCurrent'
    BY <1>2, <2>1 DEF AloneInOrder, WholeDocuments, BlobIsCurrent, TypeOK
  <2>3. Busy(w) /\ CallInOrder(w)
    BY DEF AloneInOrder, Busy
  <2>4. CallInOrder(w)'
    BY <1>1, <1>2, <2>3 DEF CallInOrder, Busy
  <2>5. NameWasChecked(w)'
    BY <2>1, <2>3 DEF AloneInOrder, NameWasChecked, Busy
  <2>. QED  BY <1>2, <2>2, <2>3, <2>4, <2>5, OneThread
<1>. QED  BY <1>3, <1>4, <1>5

LEMMA WriteTmpStep ==
  ASSUME IInv, NEW w \in Writers, WriteTmp(w)
  PROVE  IInv'
<1>. USE DEF IInv, WriteTmp, GoTo, environment, observations
<1>1. PICK left \in SUBSET node[handle[w]] :
         node' = [node EXCEPT ![handle[w]] = content[w] \cup left]
  OBVIOUS
<1>2. /\ pc'[w] = "validate" /\ handle'[w] = NoNode
      /\ \A v \in Writers \ {w} : pc'[v] = pc[v] /\ handle'[v] = handle[v]
  BY DEF TypeOK
<1>3. TypeOK'
  <2>1. node' \in [Nodes -> SUBSET (Contents \cup {Part})]
    BY <1>1 DEF TypeOK
  <2>. QED  BY <2>1 DEF TypeOK, Labels, NodesOrNone
<1>4. NamesAreApart' /\ TmpHasOwner'
  BY <1>2 DEF TypeOK, NamesAreApart, TmpHasOwner
<1>5. AloneInOrder'
  <2>. SUFFICES ASSUME ~overlapped PROVE AloneInOrder'
    BY DEF AloneInOrder
  <2>1. /\ Busy(w) /\ CallInOrder(w) /\ handle[w] = tmp /\ tmp \in Nodes /\ node[tmp] = {}
        /\ tmp # path
    BY DEF AloneInOrder, Busy, CallInOrder, TypeOK, NodesOrNone, NamesAreApart
  <2>2. node'[tmp] = content[w] /\ \A n \in Nodes : n # tmp => node'[n] = node[n]
    BY <1>1, <2>1 DEF TypeOK
  <2>3. PathContent' = PathContent
    BY <2>1, <2>2 DEF PathContent, TypeOK, NodesOrNone
  <2>4. WholeDocuments' /\ BlobIsCurrent'
    BY <1>2, <2>1, <2>3 DEF AloneInOrder, WholeDocuments, BlobIsCurrent, TypeOK
  <2>5. CallInOrder(w)'
    BY <1>2, <2>1, <2>2 DEF CallInOrder, Busy
  <2>6. NameWasChecked(w)'
    BY <2>1, <2>3 DEF AloneInOrder, NameWasChecked, Busy
  <2>. QED  BY <1>2, <2>1, <2>4, <2>5, <2>6, OneThread
<1>. QED  BY <1>3, <1>4, <1>5

LEMMA AcceptContentStep ==
  ASSUME IInv, NEW w \in Writers, AcceptContent(w)
  PROVE  IInv'
<1>. USE DEF IInv, AcceptContent, GoTo, environment, observations, files
<1>1. pc'[w] = "replace" /\ \A v \in Writers \ {w} : pc'[v] = pc[v]
  BY DEF TypeOK
<1>2. TypeOK'
  BY DEF TypeOK, Labels
<1>3. NamesAreApart' /\ TmpHasOwner'
  BY <1>1 DEF TypeOK, NamesAreApart, TmpHasOwner
<1>4. AloneInOrder'
  <2>. SUFFICES ASSUME ~overlapped PROVE AloneInOrder'
    BY DEF AloneInOrder
  <2>1. Busy(w) /\ CallInOrder(w) /\ PathContent' = PathContent
    BY DEF AloneInOrder, Busy, PathContent
  <2>2. WholeDocuments' /\ BlobIsCurrent'
    BY <1>1, <2>1 DEF AloneInOrder, WholeDocuments, BlobIsCurrent
  <2>3. CallInOrder(w)'
    BY <1>1, <2>1 DEF CallInOrder, Busy, Accepted
  <2>4. NameWasChecked(w)'
    BY <2>1 DEF AloneInOrder, NameWasChecked, Busy
  <2>. QED  BY <1>1, <2>1, <2>2, <2>3, <2>4, OneThread
<1>. QED  BY <1>2, <1>3, <1>4

(* A thread that returns without having replaced the file.                   *)
LEMMA GiveUpStep ==
  ASSUME IInv, NEW w \in Writers, pc[w] \in {"validate", "replace"}, Return(w), tmp' = NoNode,
         UNCHANGED <<node, path, blob, crashes, overlapped, unread>>,
         faults' \in Nat, faults' >= faults
  PROVE  IInv'
<1>. USE DEF IInv, Return, GoTo
<1>1. pc'[w] = "idle" /\ \A v \in Writers \ {w} : pc'[v] = pc[v]
  BY DEF TypeOK
<1>2. TypeOK'
  BY DEF TypeOK, Labels, NodesOrNone
<1>3. NamesAreApart' /\ TmpHasOwner'
  BY <1>1 DEF TypeOK, NamesAreApart, TmpHasOwner
<1>4. AloneInOrder'
  <2>. SUFFICES ASSUME ~overlapped PROVE AloneInOrder'
    BY DEF AloneInOrder
  <2>1. Busy(w) /\ PathContent' = PathContent
    BY DEF Busy, PathContent
  <2>2. WholeDocuments'
    BY <2>1 DEF AloneInOrder, WholeDocuments
  <2>3. BlobIsCurrent'
    <3>1. faults' = 0 => faults = 0
      BY DEF TypeOK
    <3>. QED  BY <1>1, <2>1, <3>1 DEF AloneInOrder, BlobIsCurrent
  <2>4. CallInOrder(w)' /\ NameWasChecked(w)'
    BY <1>1 DEF CallInOrder, NameWasChecked, Busy
  <2>. QED  BY <1>1, <2>1, <2>2, <2>3, <2>4, OneThread
<1>. QED  BY <1>2, <1>3, <1>4

(* A thread whose failure leaves the temporary file in place.                *)
LEMMA EscapeStep ==
  ASSUME IInv, NEW w \in Writers, Escape(w), Busy(w), pc[w] # "publish",
         \/ UNCHANGED node
         \/ pc[w] = "write" /\ \E left \in SUBSET (node[handle[w]] \cup {Part}) :
                                   node' = [node EXCEPT ![handle[w]] = left]
  PROVE  IInv'
<1>. USE DEF IInv, Escape, Return, GoTo
<1>1. /\ pc'[w] = "idle" /\ handle'[w] = NoNode
      /\ \A v \in Writers \ {w} : pc'[v] = pc[v] /\ handle'[v] = handle[v]
  BY DEF TypeOK
<1>2. faults' \in Nat /\ faults' # 0
  BY DEF AFault, TypeOK
<1>3. TypeOK'
  <2>1. node' \in [Nodes -> SUBSET (Contents \cup {Part})]
    BY DEF TypeOK
  <2>2. pc' \in [Writers -> Labels] /\ content' \in [Writers -> SUBSET Contents]
    BY DEF TypeOK, Labels
  <2>3. handle' \in [Writers -> NodesOrNone] /\ attempts' = [v \in Writers |-> attempts'[v]]
    BY DEF TypeOK, NodesOrNone
  <2>. QED  BY <1>2, <2>1, <2>2, <2>3 DEF TypeOK
<1>4. NamesAreApart' /\ TmpHasOwner'
  BY <1>1 DEF NamesAreApart, TmpHasOwner, TypeOK
<1>5. AloneInOrder'
  <2>. SUFFICES ASSUME ~overlapped PROVE AloneInOrder'
    BY DEF AloneInOrder
  <2>1. PathContent' = PathContent
    <3>1. CASE UNCHANGED node
      BY <3>1 DEF PathContent
    <3>2. CASE pc[w] = "write"
      <4>1. handle[w] = tmp /\ tmp # path
        BY <3>2 DEF AloneInOrder, CallInOrder, NamesAreApart
      <4>. QED  BY <4>1 DEF PathContent, TypeOK, NodesOrNone
    <3>. QED  BY <3>1, <3>2
  <2>2. WholeDocuments' /\ BlobIsCurrent'
    BY <1>2, <2>1 DEF AloneInOrder, WholeDocuments, BlobIsCurrent
  <2>3. CallInOrder(w)' /\ NameWasChecked(w)'
    BY <1>1 DEF CallInOrder, NameWasChecked, Busy
  <2>. QED  BY <1>1, <2>2, <2>3, OneThread
<1>. QED  BY <1>3, <1>4, <1>5

LEMMA ReplaceStep ==
  ASSUME IInv, NEW w \in Writers, Replace(w)
  PROVE  IInv'
<1>. USE DEF IInv, Replace, GoTo, environment
<1>1. pc'[w] = "publish" /\ \A v \in Writers \ {w} : pc'[v] = pc[v]
  BY DEF TypeOK
<1>2. TypeOK'
  BY DEF TypeOK, Labels, NodesOrNone
<1>3. NamesAreApart' /\ TmpHasOwner'
  BY <1>1 DEF TypeOK, NamesAreApart, TmpHasOwner
<1>4. AloneInOrder'
  <2>. SUFFICES ASSUME ~overlapped PROVE AloneInOrder'
    BY DEF AloneInOrder
  <2>1. Busy(w) /\ CallInOrder(w) /\ node[tmp] = content[w] /\ content[w] \subseteq Valid
    BY DEF AloneInOrder, Busy, CallInOrder
  <2>2. path' # NoNode /\ PathContent' = content[w] /\ content' = content
    BY <2>1 DEF PathContent
  <2>3. PICK c \in Contents : content[w] = {c}
    BY <2>1 DEF CallInOrder
  <2>4. WholeDocuments'
    BY <2>1, <2>2, <2>3 DEF WholeDocuments
  <2>5. BlobIsCurrent'
    BY <1>1 DEF BlobIsCurrent
  <2>6. CallInOrder(w)'
    BY <1>1, <2>1, <2>2 DEF CallInOrder, Busy
  <2>7. NameWasChecked(w)'
    BY <2>2, <2>3 DEF NameWasChecked, HasName
  <2>. QED  BY <1>1, <2>1, <2>4, <2>5, <2>6, <2>7, OneThread
<1>. QED  BY <1>2, <1>3, <1>4

LEMMA ReplaceDeniedStep ==
  ASSUME IInv, NEW w \in Writers, ReplaceDenied(w)
  PROVE  IInv'
<1>1. faults' \in Nat /\ faults' > faults /\ faults' # 0 /\ pc[w] = "replace"
  BY DEF ReplaceDenied, AFault, IInv, TypeOK
<1>2. CASE tmp' = NoNode /\ Return(w)
  BY <1>1, <1>2, GiveUpStep DEF ReplaceDenied, IInv, TypeOK
<1>3. CASE UNCHANGED <<tmp, dropped, pc, content, handle>> /\ attempts' = [attempts EXCEPT ![w] = @ + 1]
  <2>. USE DEF IInv, ReplaceDenied
  <2>1. TypeOK'
    BY <1>1, <1>3 DEF TypeOK
  <2>2. NamesAreApart' /\ TmpHasOwner'
    BY <1>3 DEF NamesAreApart, TmpHasOwner
  <2>3. UNCHANGED <<node, path, pc, content, handle, tmp, overlapped, unread>>
    BY <1>3
  <2>4. AloneInOrder'
    BY <1>1, <2>3 DEF AloneInOrder, WholeDocuments, PathContent, CallInOrder, NameWasChecked, Busy,
                      BlobIsCurrent
  <2>. QED  BY <2>1, <2>2, <2>4
<1>. QED  BY <1>2, <1>3 DEF ReplaceDenied, UnlinkTmp

LEMMA PublishStep ==
  ASSUME IInv, NEW w \in Writers, Publish(w)
  PROVE  IInv'
<1>. USE DEF IInv, Publish, Return, GoTo, files, observations
<1>1. pc'[w] = "idle" /\ \A v \in Writers \ {w} : pc'[v] = pc[v]
  BY DEF TypeOK
<1>2. TypeOK'
  <2>1. faults' \in Nat /\ blob' \in {Uploaded(w), blob}
    BY DEF TypeOK, AFault
  <2>2. /\ pc' \in [Writers -> Labels] /\ content' \in [Writers -> SUBSET Contents]
        /\ handle' \in [Writers -> NodesOrNone] /\ attempts' = [v \in Writers |-> attempts'[v]]
    BY DEF TypeOK, Labels, NodesOrNone
  <2>. QED  BY <2>1, <2>2 DEF TypeOK
<1>3. NamesAreApart' /\ TmpHasOwner'
  BY <1>1 DEF TypeOK, NamesAreApart, TmpHasOwner
<1>4. AloneInOrder'
  <2>. SUFFICES ASSUME ~overlapped PROVE AloneInOrder'
    BY DEF AloneInOrder
  <2>1. Busy(w) /\ CallInOrder(w) /\ PathContent' = PathContent /\ PathContent = content[w]
    BY DEF AloneInOrder, Busy, CallInOrder, PathContent
  <2>2. WholeDocuments'
    BY <2>1 DEF AloneInOrder, WholeDocuments
  <2>3. faults' = 0 => blob' = content[w]
    BY DEF AFault, Uploaded, TypeOK
  <2>4. BlobIsCurrent'
    BY <2>1, <2>3 DEF BlobIsCurrent
  <2>5. CallInOrder(w)' /\ NameWasChecked(w)'
    BY <1>1 DEF CallInOrder, NameWasChecked, Busy
  <2>. QED  BY <1>1, <2>1, <2>2, <2>4, <2>5, OneThread
<1>. QED  BY <1>2, <1>3, <1>4

LEMMA CrashStep ==
  ASSUME IInv, Crash
  PROVE  IInv'
<1>. USE DEF IInv, Crash, files
<1>1. TypeOK'
  BY DEF TypeOK, Labels, NodesOrNone
<1>2. NamesAreApart' /\ TmpHasOwner'
  BY DEF TypeOK, NamesAreApart, TmpHasOwner
<1>3. AloneInOrder'
  BY DEF TypeOK, AloneInOrder, WholeDocuments, PathContent, CallInOrder, NameWasChecked, Busy,
         BlobIsCurrent
<1>. QED  BY <1>1, <1>2, <1>3

-----------------------------------------------------------------------------
(* The theorems                                                              *)

LEMMA Steps ==
  ASSUME IInv, NEW w \in Writers, Step(w)
  PROVE  IInv'
<1>1. CASE RejectContent(w)
  BY <1>1, GiveUpStep DEF RejectContent, UnlinkTmp, environment, IInv, TypeOK
<1>2. CASE TmpVanished(w)
  BY <1>2, GiveUpStep DEF TmpVanished, files, environment, observations, IInv, TypeOK
<1>3. CASE OpenFails(w) \/ WriteFails(w) \/ UnlinkFails(w) \/ ReplaceFails(w)
  BY <1>3, EscapeStep DEF OpenFails, WriteFails, UnlinkFails, ReplaceFails, Busy
<1>. QED
  BY <1>1, <1>2, <1>3, OpenTmpStep, WriteTmpStep, AcceptContentStep, ReplaceStep,
     ReplaceDeniedStep, PublishStep DEF Step

(* Every state satisfies the invariant: names, handles and the blob fit the  *)
(* calls that run.                                                           *)
THEOREM InvariantHolds == Spec => []IInv
<1>1. IInv /\ [Next]_vars => IInv'
  <2>. SUFFICES ASSUME IInv, [Next]_vars PROVE IInv'
    OBVIOUS
  <2>1. CASE UNCHANGED vars
    BY <2>1 DEF vars, files, threads, environment, observations, IInv, TypeOK, NamesAreApart, TmpHasOwner,
                AloneInOrder, WholeDocuments, PathContent, CallInOrder, NameWasChecked, Busy,
                BlobIsCurrent
  <2>. QED  BY <2>1, BeginWriteStep, Steps, CrashStep DEF Next
<1>. QED  BY <1>1, InitialStates, PTL DEF Spec

(* Any number of crashes and refused replacements later, a reader of a path  *)
(* whose calls do not overlap finds a whole document the validator accepted. *)
THEOREM DocumentsStayWhole == Spec => []ReadersSeeWholeDocuments
<1>1. IInv => ReadersSeeWholeDocuments
  BY DEF IInv, AloneInOrder, ReadersSeeWholeDocuments
<1>. QED  BY <1>1, InvariantHolds, PTL

(* Calls that succeed, are rejected or give up after the last denied attempt *)
(* leave no temporary file, overlapping or not: one that outlives them was   *)
(* left by a crash or by an error that atomic_write does not handle.         *)
THEOREM NoLitter == Spec => []NoTmpLeftBehind
<1>1. IInv => NoTmpLeftBehind
  BY DEF IInv, TmpHasOwner, NoTmpLeftBehind
<1>. QED  BY <1>1, InvariantHolds, PTL

(* Blob storage holds what the file holds whenever no call is under way and  *)
(* nothing failed, died or overlapped.                                       *)
THEOREM BlobIsTheFile == Spec => []BlobFollowsFile
<1>1. IInv => BlobFollowsFile
  BY DEF IInv, AloneInOrder, BlobIsCurrent, BlobFollowsFile
<1>. QED  BY <1>1, InvariantHolds, PTL

(* The name that a call with a dict checked when it began is still the name  *)
(* in the file when its replace happens.                                     *)
THEOREM NamesAreKept == Spec => NameIsKept
<1>1. IInv /\ [Next]_vars =>
        [ \A c, d \in Contents :
            ~overlapped /\ ~unread /\ NameIsChecked(d) /\ PathContent = {c} /\ PathContent' = {d} =>
                HasName(d, c) ]_vars
  <2>. SUFFICES ASSUME IInv, [Next]_vars, NEW c \in Contents, NEW d \in Contents,
                       ~overlapped, ~unread, NameIsChecked(d), PathContent = {c}, PathContent' = {d}
                PROVE  HasName(d, c)
    OBVIOUS
  <2>1. CASE PathContent' = PathContent
    BY <2>1 DEF HasName
  <2>2. ASSUME NEW w \in Writers, Replace(w) PROVE HasName(d, c)
    <3>1. PathContent' = content[w] /\ Busy(w)
      BY <2>2 DEF IInv, AloneInOrder, CallInOrder, Busy, Replace, PathContent
    <3>. QED  BY <3>1 DEF IInv, AloneInOrder, NameWasChecked
  <2>3. ASSUME NEW w \in Writers, OpenTmp(w) PROVE PathContent' = PathContent
    <3>1. pc[w] = "open" /\ path' = path /\ tmp' = TmpNode(w) /\ node' = [node EXCEPT ![tmp'] = {}]
      BY <2>3 DEF OpenTmp
    <3>2. tmp' # path
      BY <3>1, FreeNodes DEF IInv, TmpNode, NamesAreApart
    <3>. QED  BY <3>1, <3>2 DEF PathContent, IInv, TypeOK, NodesOrNone
  <2>4. ASSUME NEW w \in Writers, WriteTmp(w) PROVE PathContent' = PathContent
    <3>1. pc[w] = "write" /\ path' = path /\ \E x : node' = [node EXCEPT ![handle[w]] = x]
      BY <2>4 DEF WriteTmp
    <3>2. handle[w] # path
      BY <3>1 DEF IInv, AloneInOrder, CallInOrder, NamesAreApart
    <3>. QED  BY <3>1, <3>2 DEF PathContent, IInv, TypeOK, NodesOrNone
  <2>7. ASSUME NEW w \in Writers, WriteFails(w) PROVE PathContent' = PathContent
    <3>1. pc[w] = "write" /\ path' = path /\ \E x : node' = [node EXCEPT ![handle[w]] = x]
      BY <2>7 DEF WriteFails, Escape
    <3>2. handle[w] # path
      BY <3>1 DEF IInv, AloneInOrder, CallInOrder, NamesAreApart
    <3>. QED  BY <3>1, <3>2 DEF PathContent, IInv, TypeOK, NodesOrNone
  <2>5. CASE UNCHANGED <<node, path>>
    BY <2>5, <2>1 DEF PathContent
  <2>6. ASSUME NEW w \in Writers, Step(w) PROVE HasName(d, c)
    BY <2>6, <2>1, <2>2, <2>3, <2>4, <2>7, <2>5 DEF Step, AcceptContent, RejectContent,
       TmpVanished, ReplaceDenied, Publish, files, OpenFails, UnlinkFails, ReplaceFails, Escape
  <2>. QED  BY <2>5, <2>6 DEF Next, BeginWrite, Crash, files, vars
<1>. QED  BY <1>1, InvariantHolds, PTL DEF Spec, NameIsKept

=============================================================================
