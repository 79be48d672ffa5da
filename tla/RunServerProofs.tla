---------------------------- MODULE RunServerProofs ----------------------------
(* Theorems about RunServer for every set of runs and clients and every      *)
(* number of log records and failing steps.                                  *)
EXTENDS RunServer, SequenceTheorems, TLAPS

-----------------------------------------------------------------------------
(* The inductive invariant                                                   *)

Kinds == {"running", "intake", "enrichment", "rs", "analysis", "error",
          "pipeline_done", "pipeline_error", "end", "log"}
Messages == [run : Runs, kind : Kinds]
Labels == {"none", "bootstrap", "abort", "finish", "cleanup", "done"} \cup StepNames

TypeOK ==
    /\ pc \in [Runs -> Labels]
    /\ queue \in [Runs -> Seq(Messages)]
    /\ sent \in [Runs -> SUBSET Kinds]

(* What a run has put so far follows from where its thread is.               *)
SentFollowsThread ==
    \A r \in Runs :
        /\ pc[r] \in {"analysis", "pa", "finish"} => "rs" \in sent[r]
        /\ pc[r] \in {"none", "bootstrap", "intake", "enrichment", "rs", "abort"} =>
              "rs" \notin sent[r]
        /\ pc[r] \notin {"cleanup", "done"} =>
              sent[r] \cap {"pipeline_done", "pipeline_error", "end"} = {}

(* A message stays in its run's queue until it is taken, the sentinel behind *)
(* all others of the run.                                                    *)
SentinelBehind ==
    \A r \in Runs : \A i, j \in DOMAIN queue[r] :
        queue[r][i] = Message(r, "end") /\ i < j => queue[r][j].run # r

SentinelWasSent ==
    \A r \in Runs : Message(r, "end") \in ToSet(queue[r]) => "end" \in sent[r]

IInv == TypeOK /\ SentFollowsThread /\ SentinelBehind /\ SentinelWasSent /\ EndIsLast /\ VerdictIsRight

-----------------------------------------------------------------------------
(* Sequences                                                                 *)

LEMMA SetOfSeq ==
  ASSUME NEW S, NEW s \in Seq(S)
  PROVE  /\ DOMAIN s = 1..Len(s) /\ Len(s) \in Nat
         /\ ToSet(s) = {s[i] : i \in 1..Len(s)}
BY DEF ToSet

(* Kinds of which only the last may be the sentinel.                         *)
Speech == {s \in Seq(Kinds) : \A i \in 1..Len(s) : s[i] = "end" => i = Len(s)}

LEMMA Speeches ==
  ASSUME NEW k \in Kinds \ {"end"}
  PROVE  /\ <<k>> \in Speech /\ ToSet(<<k>>) = {k}
         /\ <<k, "end">> \in Speech /\ ToSet(<<k, "end">>) = {k, "end"}
BY DEF Speech, Kinds, ToSet

(* What a thread that has not finished puts keeps the queues in order.       *)
LEMMA PutKeepsOrder ==
  ASSUME IInv, NEW r \in Runs, pc[r] \in Labels \ {"cleanup", "done"},
         NEW kinds \in Speech, Put(r, kinds)
  PROVE  /\ queue' \in [Runs -> Seq(Messages)] /\ sent' \in [Runs -> SUBSET Kinds]
         /\ SentinelBehind' /\ SentinelWasSent' /\ EndIsLast'
<1>. DEFINE news == [i \in DOMAIN kinds |-> Message(r, kinds[i])]
            q == queue[r]
<1>1. /\ kinds \in Seq(Kinds) /\ Len(kinds) \in Nat /\ DOMAIN kinds = 1..Len(kinds)
      /\ ToSet(kinds) = {kinds[i] : i \in 1..Len(kinds)}
  BY SetOfSeq DEF Speech
<1>2. \A i \in 1..Len(kinds) : kinds[i] \in Kinds /\ Message(r, kinds[i]) \in Messages
  BY <1>1 DEF Message, Messages
<1>speech. \A i \in 1..Len(kinds) : kinds[i] = "end" => i = Len(kinds)
  BY DEF Speech
<1>3. /\ news \in Seq(Messages) /\ Len(news) = Len(kinds)
      /\ \A i \in 1..Len(kinds) : news[i] = Message(r, kinds[i])
  BY <1>1, <1>2
<1>4. q \in Seq(Messages) /\ Len(q) \in Nat /\ DOMAIN q = 1..Len(q)
  BY DEF IInv, TypeOK
<1>5. /\ q \o news \in Seq(Messages) /\ Len(q \o news) = Len(q) + Len(kinds)
      /\ \A i \in 1..(Len(q) + Len(kinds)) :
            (q \o news)[i] = IF i <= Len(q) THEN q[i] ELSE Message(r, kinds[i - Len(q)])
  <2>. HIDE DEF q, news
  <2>. QED  BY <1>1, <1>3, <1>4
<1>6. queue' = [queue EXCEPT ![r] = q \o news] /\ sent' = [sent EXCEPT ![r] = @ \cup ToSet(kinds)]
  BY DEF Put
<1>. HIDE DEF news
<1>7. queue' \in [Runs -> Seq(Messages)] /\ sent' \in [Runs -> SUBSET Kinds]
  BY <1>1, <1>2, <1>5, <1>6 DEF IInv, TypeOK
<1>8. "end" \notin sent[r] /\ \A i \in 1..Len(q) : q[i] # Message(r, "end")
  <2>1. "end" \notin sent[r]
    BY DEF IInv, SentFollowsThread, Labels, StepNames
  <2>. QED  BY <2>1, <1>4, SetOfSeq DEF IInv, SentinelWasSent
<1>9. \A s \in Runs : s # r => queue'[s] = queue[s] /\ sent'[s] = sent[s]
  BY <1>6 DEF IInv, TypeOK
<1>10. queue'[r] = q \o news /\ sent'[r] = sent[r] \cup ToSet(kinds)
  BY <1>6 DEF IInv, TypeOK
<1>11. SentinelBehind'
  <2>. SUFFICES ASSUME NEW s \in Runs, NEW i \in DOMAIN queue'[s], NEW j \in DOMAIN queue'[s],
                       queue'[s][i] = Message(s, "end"), i < j
                PROVE  queue'[s][j].run # s
    BY DEF SentinelBehind
  <2>1. CASE s # r
    BY <2>1, <1>9 DEF IInv, SentinelBehind
  <2>2. CASE s = r
    <3>1. i \in 1..(Len(q) + Len(kinds)) /\ j \in 1..(Len(q) + Len(kinds))
      BY <2>2, <1>5, <1>10
    <3>2. i > Len(q)
      BY <2>2, <3>1, <1>5, <1>8, <1>10
    <3>3. i - Len(q) \in 1..Len(kinds) /\ i - Len(q) < Len(kinds)
      BY <3>1, <3>2, <1>4, <1>1
    <3>4. Message(r, kinds[i - Len(q)]) = Message(r, "end")
      BY <2>2, <3>1, <3>2, <1>4, <1>5, <1>10
    <3>5. kinds[i - Len(q)] = "end"
      BY <3>4 DEF Message
    <3>6. i - Len(q) = Len(kinds)
      BY <3>3, <3>5, <1>speech
    <3>. QED  BY <3>3, <3>6, <1>1
  <2>. QED  BY <2>1, <2>2
<1>12. SentinelWasSent'
  <2>. SUFFICES ASSUME NEW s \in Runs, Message(s, "end") \in ToSet(queue'[s])
                PROVE  "end" \in sent'[s]
    BY DEF SentinelWasSent
  <2>1. CASE s # r
    BY <2>1, <1>9 DEF IInv, SentinelWasSent
  <2>2. CASE s = r
    <3>1. ToSet(q \o news) = {(q \o news)[i] : i \in 1..(Len(q) + Len(kinds))}
      BY <1>5, SetOfSeq
    <3>2. PICK i \in 1..(Len(q) + Len(kinds)) : (q \o news)[i] = Message(r, "end")
      BY <2>2, <3>1, <1>10
    <3>3. i > Len(q)
      BY <3>2, <1>4, <1>5, <1>8
    <3>4. i - Len(q) \in 1..Len(kinds) /\ Message(r, kinds[i - Len(q)]) = Message(r, "end")
      BY <3>2, <3>3, <1>1, <1>4, <1>5
    <3>5. kinds[i - Len(q)] = "end"
      BY <3>4 DEF Message
    <3>. QED  BY <2>2, <3>4, <3>5, <1>1, <1>10
  <2>. QED  BY <2>1, <2>2
<1>13. EndIsLast'
  <2>. SUFFICES ASSUME NEW s \in Runs, Ended(s)'
                PROVE  \A m \in ToSet(queue'[s]) : m.run # s
    BY DEF EndIsLast
  <2>1. CASE s # r
    BY <2>1, <1>9 DEF IInv, EndIsLast, Ended
  <2>2. CASE s = r
    <3>1. PICK i \in 1..Len(kinds) : kinds[i] = "end"
      BY <2>2, <1>1, <1>8, <1>10 DEF Ended
    <3>2. (q \o news)[Len(q) + i] = Message(r, "end")
      <4>. DEFINE n == Len(q) + i
      <4>1. n \in 1..(Len(q) + Len(kinds)) /\ ~(n <= Len(q)) /\ n - Len(q) = i
        BY <1>1, <1>4
      <4>. HIDE DEF n, q
      <4>2. (q \o news)[n] = Message(r, kinds[i])
        BY <4>1, <1>5
      <4>. QED  BY <3>1, <4>2 DEF n
    <3>3. ToSet(q \o news) = {(q \o news)[n] : n \in 1..(Len(q) + Len(kinds))}
      BY <1>5, SetOfSeq
    <3>4. Len(q) + i \in 1..(Len(q) + Len(kinds))
      BY <1>1, <1>4
    <3>5. Message(r, "end") \in ToSet(queue'[r])
      BY <2>2, <3>2, <3>3, <3>4, <1>10
    <3>. QED  BY <2>2, <3>5 DEF Ended
  <2>. QED  BY <2>1, <2>2
<1>. QED  BY <1>7, <1>11, <1>12, <1>13

-----------------------------------------------------------------------------
(* The steps                                                                 *)

LEMMA FiveSteps ==
  StepNames = {"intake", "enrichment", "rs", "analysis", "pa"}
<1>1. DOMAIN Steps = 1..5 /\ Len(Steps) = 5
  BY DEF Steps
<1>2. StepNames = {Steps[i] : i \in 1..5}
  BY <1>1 DEF StepNames, ToSet
<1>. QED  BY <1>2 DEF Steps

LEMMA OrderOfSteps ==
  /\ NextOf("intake") = "enrichment" /\ NextOf("enrichment") = "rs"
  /\ NextOf("rs") = "analysis" /\ NextOf("analysis") = "pa" /\ NextOf("pa") = "finish"
<1>1. DOMAIN Steps = 1..5
  BY DEF Steps
<1>2. (CHOOSE i \in DOMAIN Steps : Steps[i] = "intake") = 1
  BY <1>1 DEF Steps
<1>3. (CHOOSE i \in DOMAIN Steps : Steps[i] = "enrichment") = 2
  BY <1>1 DEF Steps
<1>4. (CHOOSE i \in DOMAIN Steps : Steps[i] = "rs") = 3
  BY <1>1 DEF Steps
<1>5. (CHOOSE i \in DOMAIN Steps : Steps[i] = "analysis") = 4
  BY <1>1 DEF Steps
<1>. QED  BY <1>2, <1>3, <1>4, <1>5 DEF NextOf, Steps

(* Whatever is put, a thread that only moves on keeps SentFollowsThread and  *)
(* VerdictIsRight for the other runs.                                        *)
LEMMA OtherThreads ==
  ASSUME IInv, NEW r \in Runs, NEW label \in Labels, GoTo(r, label),
         NEW kinds \in Speech, Put(r, kinds)
  PROVE  /\ pc' \in [Runs -> Labels] /\ pc'[r] = label
         /\ sent'[r] = sent[r] \cup ToSet(kinds)
         /\ \A s \in Runs : s # r => pc'[s] = pc[s] /\ sent'[s] = sent[s]
BY DEF IInv, TypeOK, GoTo, Put

-----------------------------------------------------------------------------
(* The theorems                                                              *)

LEMMA InitialStates == Init => IInv
<1>. SUFFICES ASSUME Init PROVE IInv
  OBVIOUS
<1>1. TypeOK
  BY DEF Init, TypeOK, Labels
<1>2. \A r \in Runs : queue[r] = <<>> /\ sent[r] = {} /\ pc[r] = "none"
  BY DEF Init
<1>3. ToSet(<<>>) = {} /\ DOMAIN <<>> = {}
  BY DEF ToSet
<1>. QED
  BY <1>1, <1>2, <1>3 DEF IInv, SentFollowsThread, SentinelBehind, SentinelWasSent, EndIsLast,
                          Ended, VerdictIsRight

(* The thread of a run puts something and goes on.                           *)
LEMMA PutStep ==
  ASSUME IInv, NEW r \in Runs, pc[r] \in Labels \ {"cleanup", "done"},
         NEW kinds \in Speech, Put(r, kinds), NEW label \in Labels, GoTo(r, label),
         SentFollowsThread', VerdictIsRight'
  PROVE  IInv'
BY PutKeepsOrder, OtherThreads DEF IInv, TypeOK

LEMMA BootstrapStep ==
  ASSUME IInv, NEW r \in Runs, Bootstrap(r)
  PROVE  IInv'
<1>1. CASE GoTo(r, "intake") /\ Put(r, <<"running">>)
  <2>1. <<"running">> \in Speech /\ ToSet(<<"running">>) = {"running"} /\ "intake" \in Labels
    BY Speeches, FiveSteps DEF Kinds, Labels
  <2>2. pc[r] = "bootstrap"
    BY DEF Bootstrap
  <2>3. SentFollowsThread' /\ VerdictIsRight'
    BY <1>1, <2>1, <2>2, OtherThreads DEF IInv, SentFollowsThread, VerdictIsRight
  <2>. QED  BY <1>1, <2>1, <2>2, <2>3, PutStep DEF Labels
<1>2. CASE GoTo(r, "abort") /\ UNCHANGED <<queue, sent>>
  BY <1>2 DEF Bootstrap, GoTo, IInv, TypeOK, Labels, SentFollowsThread, SentinelBehind,
              SentinelWasSent, EndIsLast, Ended, VerdictIsRight
<1>. QED  BY <1>1, <1>2 DEF Bootstrap

LEMMA StepDoneStep ==
  ASSUME IInv, NEW r \in Runs, StepDone(r)
  PROVE  IInv'
<1>1. pc[r] \in {"intake", "enrichment", "rs", "analysis"}
  BY FiveSteps DEF StepDone
<1>2. <<pc[r]>> \in Speech /\ ToSet(<<pc[r]>>) = {pc[r]}
  BY <1>1, Speeches DEF Kinds
<1>3. /\ pc[r] = "intake" => NextOf(pc[r]) = "enrichment"
      /\ pc[r] = "enrichment" => NextOf(pc[r]) = "rs"
      /\ pc[r] = "rs" => NextOf(pc[r]) = "analysis"
      /\ pc[r] = "analysis" => NextOf(pc[r]) = "pa"
  BY OrderOfSteps
<1>4. NextOf(pc[r]) \in Labels /\ pc[r] \in Labels
  BY <1>1, <1>3, FiveSteps DEF Labels
<1>5. Put(r, <<pc[r]>>) /\ GoTo(r, NextOf(pc[r]))
  BY DEF StepDone
<1>6. SentFollowsThread' /\ VerdictIsRight'
  BY <1>1, <1>2, <1>3, <1>4, <1>5, OtherThreads DEF IInv, SentFollowsThread, VerdictIsRight
<1>. QED  BY <1>1, <1>2, <1>4, <1>5, <1>6, PutStep

LEMMA IsolatedStepRaisesStep ==
  ASSUME IInv, NEW r \in Runs, IsolatedStepRaises(r)
  PROVE  IInv'
<1>1. pc[r] \in {"analysis", "pa"}
  BY DEF IsolatedStepRaises, Isolated
<1>2. <<"error">> \in Speech /\ ToSet(<<"error">>) = {"error"}
  BY Speeches DEF Kinds
<1>3. AfterFailure(pc[r]) \in {"pa", "finish"}
  BY <1>1, OrderOfSteps DEF AfterFailure
<1>4. AfterFailure(pc[r]) \in Labels /\ pc[r] \in Labels
  BY <1>1, <1>3, FiveSteps DEF Labels
<1>5. Put(r, <<"error">>) /\ GoTo(r, AfterFailure(pc[r]))
  BY DEF IsolatedStepRaises
<1>6. SentFollowsThread' /\ VerdictIsRight'
  BY <1>1, <1>2, <1>3, <1>4, <1>5, OtherThreads DEF IInv, SentFollowsThread, VerdictIsRight
<1>. QED  BY <1>1, <1>2, <1>4, <1>5, <1>6, PutStep

LEMMA FinishStep ==
  ASSUME IInv, NEW r \in Runs, Finish(r)
  PROVE  IInv'
<1>. DEFINE kind == IF pc[r] = "finish" THEN "pipeline_done" ELSE "pipeline_error"
<1>1. pc[r] \in {"finish", "abort"} /\ pc[r] \in Labels /\ "cleanup" \in Labels
  BY DEF Finish, Labels
<1>2. kind \in Kinds \ {"end"}
  BY DEF Kinds
<1>3. <<kind, "end">> \in Speech /\ ToSet(<<kind, "end">>) = {kind, "end"}
  BY <1>2, Speeches
<1>4. Put(r, <<kind, "end">>) /\ GoTo(r, "cleanup")
  BY DEF Finish, LastMessages
<1>5. SentFollowsThread'
  BY <1>1, <1>3, <1>4, OtherThreads DEF IInv, SentFollowsThread
<1>6. sent'[r] = sent[r] \cup {kind, "end"} /\ pc'[r] = "cleanup"
  BY <1>1, <1>3, <1>4, OtherThreads
<1>7. \A s \in Runs : s # r => pc'[s] = pc[s] /\ sent'[s] = sent[s]
  BY <1>1, <1>3, <1>4, OtherThreads
<1>8. sent[r] \cap {"pipeline_done", "pipeline_error"} = {} /\ ("rs" \in sent[r] <=> pc[r] = "finish")
  BY <1>1 DEF IInv, SentFollowsThread
<1>9. VerdictIsRight'
  BY <1>1, <1>6, <1>7, <1>8 DEF IInv, VerdictIsRight
<1>. QED  BY <1>1, <1>3, <1>4, <1>5, <1>9, PutStep

(* A step that leaves queues and messages alone and ends or begins no run.   *)
LEMMA SilentStep ==
  ASSUME IInv, NEW r \in Runs, NEW label \in Labels, GoTo(r, label),
         UNCHANGED <<queue, sent>>,
         \/ pc[r] = "none" /\ label = "bootstrap"
         \/ pc[r] \in {"intake", "enrichment", "rs"} /\ label = "abort"
         \/ pc[r] = "cleanup" /\ label = "done"
  PROVE  IInv'
<1>1. pc' \in [Runs -> Labels] /\ pc'[r] = label /\ \A s \in Runs : s # r => pc'[s] = pc[s]
  BY DEF GoTo, IInv, TypeOK
<1>2. SentFollowsThread' /\ VerdictIsRight'
  BY <1>1 DEF IInv, SentFollowsThread, VerdictIsRight
<1>. QED
  BY <1>1, <1>2 DEF IInv, TypeOK, SentinelBehind, SentinelWasSent, EndIsLast, Ended

LEMMA LogStep ==
  ASSUME IInv, NEW r \in Runs, Log(r)
  PROVE  IInv'
<1>. DEFINE m == Message(r, "log")
<1>1. m \in Messages /\ \A s \in Runs : m # Message(s, "end")
  BY DEF Message, Messages, Kinds
<1>2. \A s \in Runs : queue[s] \in Seq(Messages) /\ Len(queue[s]) \in Nat
                         /\ DOMAIN queue[s] = 1..Len(queue[s])
  BY DEF IInv, TypeOK
<1>3. \A s \in Runs : queue'[s] = queue[s] \/ queue'[s] = Append(queue[s], m)
  BY DEF Log
<1>4. pc[r] \notin {"cleanup", "done"}
  BY FiveSteps DEF Log
<1>5. "end" \notin sent[r]
  BY <1>4 DEF IInv, SentFollowsThread
<1>6. ASSUME NEW s \in Runs, queue'[s] = Append(queue[s], m)
      PROVE  /\ queue'[s] \in Seq(Messages) /\ Len(queue'[s]) = Len(queue[s]) + 1
             /\ DOMAIN queue'[s] = 1..(Len(queue[s]) + 1)
             /\ \A i \in 1..Len(queue[s]) : queue'[s][i] = queue[s][i]
             /\ queue'[s][Len(queue[s]) + 1] = m
             /\ ToSet(queue'[s]) = ToSet(queue[s]) \cup {m}
  <2>. HIDE DEF m
  <2>1. /\ queue'[s] \in Seq(Messages) /\ Len(queue'[s]) = Len(queue[s]) + 1
        /\ DOMAIN queue'[s] = 1..(Len(queue[s]) + 1)
        /\ \A i \in 1..Len(queue[s]) : queue'[s][i] = queue[s][i]
        /\ queue'[s][Len(queue[s]) + 1] = m
    BY <1>1, <1>2, <1>6
  <2>2. /\ ToSet(queue'[s]) = {queue'[s][i] : i \in 1..(Len(queue[s]) + 1)}
        /\ ToSet(queue[s]) = {queue[s][i] : i \in 1..Len(queue[s])}
    BY <2>1, <1>2 DEF ToSet
  <2>3. {queue'[s][i] : i \in 1..(Len(queue[s]) + 1)} = {queue[s][i] : i \in 1..Len(queue[s])} \cup {m}
    BY <2>1, <1>2
  <2>. QED  BY <2>1, <2>2, <2>3
<1>. HIDE DEF m
<1>7. queue' \in [Runs -> Seq(Messages)]
  <2>1. queue' = [s \in Runs |-> queue'[s]]
    BY DEF Log
  <2>2. \A s \in Runs : queue'[s] \in Seq(Messages)
    BY <1>2, <1>3, <1>6
  <2>. QED  BY <2>1, <2>2
<1>8. SentinelBehind'
  <2>. SUFFICES ASSUME NEW s \in Runs, NEW i \in DOMAIN queue'[s], NEW j \in DOMAIN queue'[s],
                       queue'[s][i] = Message(s, "end"), i < j
                PROVE  queue'[s][j].run # s
    BY DEF SentinelBehind
  <2>1. CASE queue'[s] = queue[s]
    BY <2>1 DEF IInv, SentinelBehind
  <2>2. CASE queue'[s] = Append(queue[s], m)
    <3>1. i \in 1..Len(queue[s]) /\ queue[s][i] = Message(s, "end")
      BY <2>2, <1>1, <1>2, <1>6
    <3>2. CASE j \in 1..Len(queue[s])
      BY <2>2, <3>1, <3>2, <1>2, <1>6 DEF IInv, SentinelBehind
    <3>3. CASE j = Len(queue[s]) + 1
      <4>1. Message(s, "end") \in ToSet(queue[s])
        BY <3>1, <1>2 DEF ToSet
      <4>2. s # r
        BY <4>1, <1>5 DEF IInv, SentinelWasSent
      <4>. QED  BY <2>2, <3>3, <4>2, <1>6 DEF m, Message
    <3>. QED  BY <2>2, <3>2, <3>3, <1>2, <1>6
  <2>. QED  BY <2>1, <2>2, <1>3
<1>9. SentinelWasSent'
  <2>1. ASSUME NEW s \in Runs, Message(s, "end") \in ToSet(queue'[s])
        PROVE  "end" \in sent[s]
    <3>1. Message(s, "end") \in ToSet(queue[s])
      BY <2>1, <1>1, <1>3, <1>6
    <3>. QED  BY <3>1 DEF IInv, SentinelWasSent
  <2>2. sent' = sent
    BY DEF Log
  <2>. QED  BY <2>1, <2>2 DEF SentinelWasSent
<1>10. EndIsLast'
  <2>. SUFFICES ASSUME NEW s \in Runs, Ended(s)', NEW k \in ToSet(queue'[s])
                PROVE  k.run # s
    BY DEF EndIsLast
  <2>1. sent' = sent /\ Ended(s)
    BY <1>1, <1>3, <1>6 DEF Log, Ended
  <2>2. k \in ToSet(queue[s]) \/ k = m
    BY <1>3, <1>6
  <2>3. s # r
    BY <2>1, <1>5 DEF Ended
  <2>. QED  BY <2>1, <2>2, <2>3 DEF IInv, EndIsLast, m, Message
<1>. QED
  BY <1>7, <1>8, <1>9, <1>10 DEF Log, IInv, TypeOK, SentFollowsThread, VerdictIsRight

LEMMA TakeStep ==
  ASSUME IInv, NEW c \in Clients, Take(c)
  PROVE  IInv'
<1>1. PICK r \in stream[c] : /\ queue[r] # <<>> /\ queue' = [queue EXCEPT ![r] = Tail(@)]
                             /\ UNCHANGED <<pc, sent>>
  BY DEF Take
<1>2. CASE r \notin Runs
  <2>1. queue' = queue
    BY <1>1, <1>2 DEF IInv, TypeOK
  <2>. QED
    BY <2>1, <1>1 DEF IInv, TypeOK, SentFollowsThread, SentinelBehind, SentinelWasSent, EndIsLast,
                      Ended, VerdictIsRight
<1>3. CASE r \in Runs
  <2>1. queue[r] \in Seq(Messages) /\ Len(queue[r]) \in Nat
        /\ DOMAIN queue[r] = 1..Len(queue[r])
    BY <1>3 DEF IInv, TypeOK
  <2>2. /\ queue'[r] = Tail(queue[r]) /\ queue'[r] \in Seq(Messages)
        /\ DOMAIN queue'[r] = 1..(Len(queue[r]) - 1) /\ Len(queue[r]) >= 1
        /\ \A i \in 1..(Len(queue[r]) - 1) : queue'[r][i] = queue[r][i + 1]
    <3>1. queue'[r] = Tail(queue[r])
      BY <1>1, <1>3 DEF IInv, TypeOK
    <3>2. /\ Tail(queue[r]) \in Seq(Messages) /\ Len(Tail(queue[r])) = Len(queue[r]) - 1
          /\ \A i \in 1..Len(Tail(queue[r])) : Tail(queue[r])[i] = queue[r][i + 1]
      BY <1>1, <2>1, HeadTailProperties
    <3>3. Len(queue[r]) >= 1
      BY <1>1, <2>1, EmptySeq
    <3>4. DOMAIN Tail(queue[r]) = 1..Len(Tail(queue[r]))
      BY <3>2, LenProperties
    <3>. QED  BY <3>1, <3>2, <3>3, <3>4
  <2>3. \A s \in Runs : s # r => queue'[s] = queue[s]
    BY <1>1, <1>3 DEF IInv, TypeOK
  <2>4. /\ ToSet(queue[r]) = {queue[r][i] : i \in 1..Len(queue[r])}
        /\ ToSet(queue'[r]) = {queue[r][i + 1] : i \in 1..(Len(queue[r]) - 1)}
    BY <2>1, <2>2 DEF ToSet
  <2>5. ToSet(queue'[r]) \subseteq ToSet(queue[r])
    BY <2>1, <2>2, <2>4
  <2>6. queue' \in [Runs -> Seq(Messages)]
    BY <1>1, <1>3, <2>2 DEF IInv, TypeOK
  <2>7. SentinelBehind'
    <3>. SUFFICES ASSUME NEW s \in Runs, NEW i \in DOMAIN queue'[s], NEW j \in DOMAIN queue'[s],
                         queue'[s][i] = Message(s, "end"), i < j
                  PROVE  queue'[s][j].run # s
      BY DEF SentinelBehind
    <3>1. CASE s # r
      BY <3>1, <2>3 DEF IInv, SentinelBehind
    <3>2. CASE s = r
      <4>1. i + 1 \in DOMAIN queue[r] /\ j + 1 \in DOMAIN queue[r] /\ i + 1 < j + 1
        BY <3>2, <2>1, <2>2
      <4>2. queue[r][i + 1] = Message(r, "end") /\ queue'[r][j] = queue[r][j + 1]
        BY <3>2, <2>2
      <4>3. queue[r][j + 1].run # r
        BY <4>1, <4>2, <1>3 DEF IInv, SentinelBehind
      <4>. QED  BY <3>2, <4>2, <4>3
    <3>. QED  BY <3>1, <3>2
  <2>8. SentinelWasSent'
    BY <1>1, <2>3, <2>5 DEF IInv, SentinelWasSent
  <2>9. EndIsLast'
    <3>. SUFFICES ASSUME NEW s \in Runs, Ended(s)', NEW k \in ToSet(queue'[s])
                  PROVE  k.run # s
      BY DEF EndIsLast
    <3>1. CASE s # r
      BY <3>1, <1>1, <2>3 DEF IInv, EndIsLast, Ended
    <3>2. CASE s = r /\ Ended(r)
      BY <3>2, <2>5 DEF IInv, EndIsLast
    <3>3. CASE s = r /\ ~Ended(r)
      <4>1. Message(r, "end") \in ToSet(queue[r]) /\ Message(r, "end") \notin ToSet(queue'[r])
        BY <3>3, <1>1 DEF Ended
      <4>2. PICK n \in 1..Len(queue[r]) : queue[r][n] = Message(r, "end")
        BY <4>1, <2>4
      <4>3. n = 1
        <5>1. SUFFICES ASSUME n # 1 PROVE FALSE
          OBVIOUS
        <5>2. n - 1 \in 1..(Len(queue[r]) - 1) /\ (n - 1) + 1 = n
          BY <5>1, <2>1
        <5>. QED  BY <5>2, <4>1, <4>2, <2>4
      <4>4. PICK j \in 1..(Len(queue[r]) - 1) : k = queue[r][j + 1]
        BY <3>3, <2>4
      <4>5. j + 1 \in DOMAIN queue[r] /\ 1 \in DOMAIN queue[r] /\ 1 < j + 1
        BY <2>1, <2>2
      <4>. QED  BY <3>3, <4>2, <4>3, <4>4, <4>5, <1>3 DEF IInv, SentinelBehind
    <3>. QED  BY <3>1, <3>2, <3>3
  <2>. QED
    BY <1>1, <2>6, <2>7, <2>8, <2>9 DEF IInv, TypeOK, SentFollowsThread, VerdictIsRight
<1>. QED  BY <1>2, <1>3

-----------------------------------------------------------------------------

(* A run is requested once: its thread exists only after the request.        *)
Statuses == {"absent", "running", "done"}
RequestedOnce ==
    /\ status \in [Runs -> Statuses] /\ pc = [r \in Runs |-> pc[r]]
    /\ \A r \in Runs : pc[r] # "none" => status[r] # "absent"

LEMMA RequestsAreUnique == Spec => []RequestedOnce
<1>1. Init => RequestedOnce
  BY DEF Init, RequestedOnce, Statuses
<1>2. RequestedOnce /\ [Next]_vars => RequestedOnce'
  <2>. SUFFICES ASSUME RequestedOnce, [Next]_vars PROVE RequestedOnce'
    OBVIOUS
  <2>. USE DEF RequestedOnce, Statuses
  <2>1. ASSUME NEW r \in Runs, Request(r) PROVE RequestedOnce'
    BY <2>1 DEF Request, GoTo
  <2>2. ASSUME NEW r \in Runs, NEW label, GoTo(r, label), UNCHANGED status, pc[r] # "none"
        PROVE  RequestedOnce'
    BY <2>2 DEF GoTo
  <2>3. ASSUME NEW r \in Runs, Thread(r) PROVE RequestedOnce'
    <3>1. pc[r] # "none"
      BY <2>3, FiveSteps DEF Thread, Bootstrap, StepDone, StepRaises, IsolatedStepRaises,
                             Isolated, Finish, Cleanup
    <3>2. CASE Bootstrap(r)
      BY <3>1, <3>2, <2>2 DEF Bootstrap
    <3>3. CASE StepDone(r) \/ StepRaises(r) \/ IsolatedStepRaises(r)
      BY <3>1, <3>3, <2>2 DEF StepDone, StepRaises, IsolatedStepRaises
    <3>4. CASE Finish(r)
      BY <3>1, <3>4, <2>2 DEF Finish
    <3>5. CASE Cleanup(r)
      BY <3>5 DEF Cleanup, GoTo
    <3>. QED  BY <2>3, <3>2, <3>3, <3>4, <3>5 DEF Thread
  <2>4. CASE UNCHANGED <<status, pc>>
    BY <2>4
  <2>. QED  BY <2>1, <2>3, <2>4 DEF Next, Log, Take, Connect, vars
<1>. QED  BY <1>1, <1>2, PTL DEF Spec

(* Every state satisfies the invariant: queues, messages and threads fit     *)
(* together.                                                                 *)
THEOREM InvariantHolds == Spec => []IInv
<1>1. IInv /\ RequestedOnce /\ [Next]_vars => IInv'
  <2>. SUFFICES ASSUME IInv, RequestedOnce, [Next]_vars PROVE IInv'
    OBVIOUS
  <2>1. ASSUME NEW r \in Runs, Request(r) PROVE IInv'
    <3>1. "bootstrap" \in Labels /\ UNCHANGED <<queue, sent>> /\ GoTo(r, "bootstrap")
      BY <2>1 DEF Request, Labels
    <3>2. pc[r] = "none"
      BY <2>1 DEF Request, RequestedOnce
    <3>. QED  BY <3>1, <3>2, SilentStep
  <2>2. ASSUME NEW r \in Runs, StepRaises(r) PROVE IInv'
    <3>1. "abort" \in Labels /\ UNCHANGED <<queue, sent>> /\ GoTo(r, "abort")
      BY <2>2 DEF StepRaises, Labels
    <3>2. pc[r] \in {"intake", "enrichment", "rs"}
      BY <2>2, FiveSteps DEF StepRaises, Isolated
    <3>. QED  BY <3>1, <3>2, SilentStep
  <2>3. ASSUME NEW r \in Runs, Cleanup(r) PROVE IInv'
    <3>1. "done" \in Labels /\ UNCHANGED <<queue, sent>> /\ GoTo(r, "done") /\ pc[r] = "cleanup"
      BY <2>3 DEF Cleanup, Labels
    <3>. QED  BY <3>1, SilentStep
  <2>4. ASSUME NEW r \in Runs, NEW c \in Clients, Connect(c, r) PROVE IInv'
    BY <2>4 DEF Connect, IInv, TypeOK, SentFollowsThread, SentinelBehind, SentinelWasSent,
                EndIsLast, Ended, VerdictIsRight
  <2>5. CASE UNCHANGED vars
    BY <2>5 DEF vars, IInv, TypeOK, SentFollowsThread, SentinelBehind, SentinelWasSent,
                EndIsLast, Ended, VerdictIsRight
  <2>. QED
    BY <2>1, <2>2, <2>3, <2>4, <2>5, BootstrapStep, StepDoneStep, IsolatedStepRaisesStep,
       FinishStep, LogStep, TakeStep DEF Next, Thread
<1>. QED  BY <1>1, InitialStates, RequestsAreUnique, PTL DEF Spec

(* For any number of runs and clients the sentinel is the last message of    *)
(* its run: a client that was told the end misses nothing.                   *)
THEOREM EndComesLast == Spec => []EndIsLast
<1>1. IInv => EndIsLast
  BY DEF IInv
<1>. QED  BY <1>1, InvariantHolds, PTL

(* Every run is reported exactly as far as its thread got: done when the     *)
(* third step returned, an error otherwise.                                  *)
THEOREM VerdictsAreRight == Spec => []VerdictIsRight
<1>1. IInv => VerdictIsRight
  BY DEF IInv
<1>. QED  BY <1>1, InvariantHolds, PTL

=============================================================================
