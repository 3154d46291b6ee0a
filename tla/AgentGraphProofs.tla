-------------------------- MODULE AgentGraphProofs ---------------------------
(* Theorems about the agent graph, for every set of agents and every        *)
(* configuration of their dependencies.                                     *)
EXTENDS AgentGraph, TLAPS

\* Tasks that have ended are still among the running ones until collected.
EndedRun == Ended \subseteq running

\* A final decision comes from the decision node of the current execution.
DecisionIsRecorded ==
    decided => \/ Decision \in results
               \/ [node |-> Decision, ok |-> TRUE] \in finished

\* Nothing that rests on the ablated node runs in its shadow execution.
ShadowAvoids ==
    phase = "shadow" =>
      /\ ablated \in Ablatable /\ ablated \notin enabled
      /\ \A n \in running \cup results : ablated \notin Needs(n)

\* An execution that ended by itself has nothing running and nothing to start.
Exhausted == pc = "done" /\ phase # "end" =>
               running = {} /\ \A n \in pending : ~DepsMet(n)

IInv == /\ TypeOK /\ EndedRun /\ UpstreamComplete /\ RunsOnce
        /\ Exhausted /\ DecisionIsRecorded /\ ShadowAvoids
        /\ EssentialNodesScoreFull

-----------------------------------------------------------------------------
\* Every node needs itself.
LEMMA NeedsSelf == ASSUME NEW n \in Nodes PROVE n \in Needs(n)
  BY Zenon DEF Needs

\* A node whose dependencies all do without a does without a, unless it is a.
LEMMA NeedsStep ==
    ASSUME TypeOK, NEW a \in Nodes, NEW n \in Nodes, a # n,
           \A d \in deps[n] : a \notin Needs(d)
    PROVE  a \notin Needs(n)
  <1> DEFINE Without == {m \in Nodes : a \notin Needs(m)}
             X == {n} \cup Without
  <1>1. deps \in [Nodes -> SUBSET Nodes]
    BY DEF TypeOK
  <1>2. deps[n] \subseteq Without
    BY <1>1
  <1>3. ASSUME NEW m \in Without PROVE deps[m] \subseteq Without
    <2>1. PICK Z \in SUBSET Nodes : m \in Z /\ Closed(Z) /\ a \notin Z
      BY <1>3, Zenon DEF Needs
    <2>2. ASSUME NEW d \in deps[m] PROVE d \in Without
      <3>1. d \in Z /\ d \in Nodes
        BY <1>1, <2>1, <2>2 DEF Closed
      <3>2. a \notin Needs(d)
        BY <2>1, <3>1, Zenon DEF Needs
      <3>3. QED BY <3>1, <3>2
    <2>3. QED BY <2>2
  <1>4. Closed(X)
    BY <1>2, <1>3, Zenon DEF Closed
  <1>5. a \notin X
    BY NeedsSelf
  <1>6. X \in SUBSET Nodes
    OBVIOUS
  <1> HIDE DEF X
  <1>7. n \in X
    BY DEF X
  <1>8. QED BY <1>4, <1>5, <1>6, <1>7, Zenon DEF Needs

\* What a node needs changes only with the dependencies.
LEMMA NeedsStable == ASSUME NEW n, UNCHANGED deps PROVE Needs(n)' = Needs(n)
  BY DEF Needs, Closed

-----------------------------------------------------------------------------
\* The initial states satisfy the invariant.
LEMMA InitIInv == Init => IInv
  BY GraphConstants, Zenon
     DEF Init, IInv, TypeOK, EndedRun, UpstreamComplete, RunsOnce, Exhausted,
         DecisionIsRecorded, ShadowAvoids, EssentialNodesScoreFull, Ended

\* The loop head starts exactly what can run.
LEMMA StartReadyStep == IInv /\ StartReady => IInv'
  <1> SUFFICES ASSUME IInv, StartReady PROVE IInv'
    OBVIOUS
  <1> USE DEF IInv
  <1> DEFINE ready == {n \in pending \cap enabled : DepsMet(n)}
  <1>1. /\ pending' = (pending \cap enabled) \ ready
        /\ running' = running \cup ready
        /\ pc' = IF running' = {} THEN "done" ELSE "wait"
        /\ UNCHANGED <<deps, enabled, finished, results, decided, ablation>>
    BY DEF StartReady
  <1>2. TypeOK'
    BY <1>1 DEF TypeOK, ablation
  <1>3. EndedRun'
    BY <1>1 DEF EndedRun, Ended
  <1>4. UpstreamComplete'
    BY <1>1 DEF UpstreamComplete, DepsMet
  <1>5. RunsOnce'
    BY <1>1 DEF RunsOnce
  <1>6. Exhausted'
    <2>1. ASSUME NEW n \in pending' PROVE ~DepsMet(n)
      BY <1>1, <2>1
    <2>2. QED BY <1>1, <2>1 DEF Exhausted, DepsMet
  <1>7. DecisionIsRecorded'
    BY <1>1 DEF DecisionIsRecorded
  <1>8. ShadowAvoids'
    <2> SUFFICES ASSUME phase = "shadow", NEW n \in running' \cup results'
                 PROVE  ablated \notin Needs(n)
      BY <1>1, NeedsStable DEF ShadowAvoids, ablation
    <2>1. CASE n \in running \cup results
      BY <2>1 DEF ShadowAvoids
    <2>2. CASE n \in ready
      <3>1. \A d \in deps[n] : ablated \notin Needs(d)
        BY <2>2 DEF ShadowAvoids, DepsMet
      <3>2. ablated \in Nodes /\ n \in Nodes /\ ablated # n
        BY <2>2, GraphConstants DEF ShadowAvoids, TypeOK
      <3>3. QED BY <3>1, <3>2, NeedsStep
    <2>3. QED BY <1>1, <2>1, <2>2
  <1>9. EssentialNodesScoreFull'
    BY <1>1, NeedsStable DEF EssentialNodesScoreFull, ablation
  <1>10. QED
    BY <1>2, <1>3, <1>4, <1>5, <1>6, <1>7, <1>8, <1>9

\* The end of a node's task.
LEMMA NodeEndsStep == ASSUME IInv, NEW n \in Nodes, NodeEnds(n) PROVE IInv'
  <1> USE DEF IInv
  <1>1. PICK ok \in BOOLEAN :
          /\ finished' = finished \cup {[node |-> n, ok |-> ok]}
          /\ decided' = (decided \/ (ok /\ n = Decision))
    BY DEF NodeEnds
  <1>2. /\ n \in running \ Ended
        /\ UNCHANGED <<deps, enabled, pc, pending, running, results, ablation>>
    BY DEF NodeEnds
  <1>3. TypeOK'
    <2>1. finished' \in SUBSET [node : Nodes, ok : BOOLEAN]
      BY <1>1 DEF TypeOK
    <2>2. decided' \in BOOLEAN
      BY <1>1, Zenon DEF TypeOK
    <2>3. QED
      BY <1>2, <2>1, <2>2, Zenon DEF TypeOK, ablation
  <1>4. EndedRun'
    BY <1>1, <1>2 DEF EndedRun, Ended
  <1>5. UpstreamComplete'
    BY <1>2 DEF UpstreamComplete
  <1>6. RunsOnce'
    <2>1. \A f, g \in finished' : f.node = g.node => f = g
      <3>1. \A f \in finished : f.node # n
        BY <1>2 DEF Ended
      <3>2. QED BY <1>1, <3>1 DEF RunsOnce
    <2>2. QED BY <1>2, <2>1 DEF RunsOnce
  <1>7. Exhausted'
    BY <1>2 DEF Exhausted, DepsMet, ablation
  <1>8. DecisionIsRecorded'
    BY <1>1, <1>2, Zenon DEF DecisionIsRecorded
  <1>9. ShadowAvoids'
    BY <1>2, NeedsStable DEF ShadowAvoids, ablation
  <1>10. EssentialNodesScoreFull'
    BY <1>2, NeedsStable DEF EssentialNodesScoreFull, ablation
  <1>11. QED
    BY <1>3, <1>4, <1>5, <1>6, <1>7, <1>8, <1>9, <1>10

\* The collection of the tasks that are done.
LEMMA CollectStep == IInv /\ Collect => IInv'
  <1> SUFFICES ASSUME IInv, Collect PROVE IInv'
    OBVIOUS
  <1> USE DEF IInv
  <1> DEFINE oks == {f.node : f \in {g \in finished : g.ok}}
  <1>1. /\ pc' = "head"
        /\ results' = results \cup oks
        /\ running' = running \ Ended
        /\ finished' = {}
        /\ UNCHANGED <<deps, enabled, pending, decided, ablation>>
    BY DEF Collect
  <1>2. oks \subseteq Ended /\ Ended \subseteq running
    BY DEF Ended, EndedRun
  <1>3. TypeOK'
    BY <1>1, <1>2 DEF TypeOK, ablation
  <1>4. EndedRun'
    BY <1>1 DEF EndedRun, Ended
  <1>5. UpstreamComplete'
    BY <1>1, <1>2 DEF UpstreamComplete
  <1>6. RunsOnce'
    BY <1>1, <1>2 DEF RunsOnce
  <1>7. Exhausted'
    BY <1>1 DEF Exhausted
  <1>8. DecisionIsRecorded'
    BY <1>1 DEF DecisionIsRecorded
  <1>9. ShadowAvoids'
    BY <1>1, <1>2, NeedsStable DEF ShadowAvoids, ablation
  <1>10. EssentialNodesScoreFull'
    BY <1>1, NeedsStable DEF EssentialNodesScoreFull, ablation
  <1>11. QED
    BY <1>3, <1>4, <1>5, <1>6, <1>7, <1>8, <1>9, <1>10

\* The part of the invariant about a single execution holds on entry and when
\* the graph is left as it is.
LEMMA AblateStep ==
    ASSUME IInv, NEW left \in SUBSET Ablatable, NEW restored \in SUBSET Nodes,
           pc = "done", Ablate(left, restored), UNCHANGED deps,
           score' \in [Ablatable -> {"none", "full", "partial"}],
           \A n \in Ablatable : n \in Needs(Decision) => score'[n] \in {"none", "full"}
    PROVE  IInv'
  <1> USE DEF IInv
  <1>1. EssentialNodesScoreFull'
    BY NeedsStable DEF EssentialNodesScoreFull
  <1>2. CASE left = {}
    <2>1. /\ phase' = "end" /\ enabled' = restored /\ ablated' = NoNode
          /\ todo' = {} /\ UNCHANGED <<wasEnabled, exec>>
      BY <1>2 DEF Ablate
    <2>2. TypeOK'
      BY <2>1 DEF TypeOK, exec
    <2>3. QED
      BY <1>1, <2>1, <2>2
         DEF exec, EndedRun, Ended, UpstreamComplete, RunsOnce, Exhausted,
             DecisionIsRecorded, ShadowAvoids
  <1>3. ASSUME left # {} PROVE IInv'
    <2>1. PICK n \in left :
            /\ phase' = "shadow" /\ ablated' = n
            /\ wasEnabled' = (n \in restored)
            /\ enabled' = restored \ {n}
            /\ todo' = left \ {n}
            /\ Entered(Nodes)
      BY <1>3 DEF Ablate
    <2>2. /\ pc' = "head" /\ pending' = Nodes /\ running' = {}
          /\ finished' = {} /\ results' = {} /\ decided' = FALSE
      BY <2>1 DEF Entered
    <2>3. TypeOK'
      <3>1. wasEnabled' \in BOOLEAN
        <4>1. wasEnabled' = (n \in restored)
          BY <2>1
        <4>2. (n \in restored) \in BOOLEAN
          OBVIOUS
        <4>3. QED BY <4>1, <4>2, Zenon
      <3>2. /\ enabled' \in SUBSET Nodes /\ todo' \in SUBSET Ablatable
            /\ ablated' \in Ablatable \cup {NoNode} /\ n \in Ablatable
        BY <2>1
      <3>3. /\ pending' \in SUBSET Nodes /\ running' \in SUBSET Nodes
            /\ results' \in SUBSET Nodes /\ decided' \in BOOLEAN
            /\ finished' \in SUBSET [node : Nodes, ok : BOOLEAN]
        BY <2>2
      <3>4. phase' = "shadow" /\ pc' = "head" /\ deps' \in [Nodes -> SUBSET Nodes]
        BY <2>1, <2>2 DEF TypeOK
      <3>5. QED
        BY <3>1, <3>2, <3>3, <3>4, Zenon DEF TypeOK
    <2>4. EndedRun' /\ UpstreamComplete' /\ RunsOnce' /\ Exhausted'
          /\ DecisionIsRecorded' /\ ShadowAvoids'
      BY <2>1, <2>2
         DEF EndedRun, Ended, UpstreamComplete, RunsOnce, Exhausted,
             DecisionIsRecorded, ShadowAvoids
    <2>5. QED BY <1>1, <2>3, <2>4
  <1>4. QED BY <1>2, <1>3

\* The end of the baseline execution.
LEMMA BaselineEndsStep == IInv /\ BaselineEnds => IInv'
  <1> SUFFICES ASSUME IInv, BaselineEnds PROVE IInv'
    OBVIOUS
  <1>1. PICK left \in {Ablatable, {}} : Ablate(left, enabled)
    BY Zenon DEF BaselineEnds
  <1>2. left \in SUBSET Ablatable /\ enabled \in SUBSET Nodes
    BY <1>1 DEF IInv, TypeOK
  <1>3. pc = "done" /\ UNCHANGED deps /\ UNCHANGED score
    BY DEF BaselineEnds
  <1>4. /\ score' \in [Ablatable -> {"none", "full", "partial"}]
        /\ \A n \in Ablatable : n \in Needs(Decision) => score'[n] \in {"none", "full"}
    BY <1>3 DEF IInv, TypeOK, EssentialNodesScoreFull
  <1>5. QED BY <1>1, <1>2, <1>3, <1>4, AblateStep

\* The end of a shadow execution: a partial impact needs a shadow decision,
\* which needs a decision that does without the ablated node.
LEMMA ShadowEndsStep == IInv /\ ShadowEnds => IInv'
  <1> SUFFICES ASSUME IInv, ShadowEnds PROVE IInv'
    OBVIOUS
  <1>1. PICK s \in IF decided THEN {"full", "partial"} ELSE {"full"} :
          score' = [score EXCEPT ![ablated] = s]
    BY DEF ShadowEnds
  <1>2. /\ phase = "shadow" /\ pc = "done" /\ UNCHANGED deps
        /\ Ablate(todo, Restored)
    BY DEF ShadowEnds
  <1>3. /\ ablated \in Ablatable /\ todo \in SUBSET Ablatable
        /\ enabled \in SUBSET Nodes
        /\ score \in [Ablatable -> {"none", "full", "partial"}]
    BY <1>2 DEF IInv, TypeOK, ShadowAvoids
  <1>4. Restored \in SUBSET Nodes
    BY <1>3, GraphConstants DEF Restored
  <1>5. ablated \in Needs(Decision) => s = "full"
    <2>1. ASSUME decided PROVE Decision \in running \cup results
      BY <2>1 DEF IInv, DecisionIsRecorded, EndedRun, Ended
    <2>2. QED BY <1>1, <1>2, <2>1 DEF IInv, ShadowAvoids
  <1>6. score' \in [Ablatable -> {"none", "full", "partial"}]
    BY <1>1, <1>3
  <1>7. ASSUME NEW n \in Ablatable, n \in Needs(Decision)
        PROVE  score'[n] \in {"none", "full"}
    BY <1>1, <1>3, <1>5, <1>7 DEF IInv, EssentialNodesScoreFull
  <1>8. QED BY <1>2, <1>3, <1>4, <1>6, <1>7, AblateStep

\* Cancellation.
LEMMA CancelStep == IInv /\ Cancel => IInv'
  <1> SUFFICES ASSUME IInv, Cancel PROVE IInv'
    OBVIOUS
  <1>1. /\ phase' = "end" /\ ablated' = NoNode /\ pc' = "done"
        /\ enabled' = IF phase = "shadow" THEN Restored ELSE enabled
        /\ UNCHANGED <<deps, pending, running, finished, results, decided, todo,
                       wasEnabled, score>>
    BY DEF Cancel
  <1>2. enabled' \in SUBSET Nodes
    BY <1>1, GraphConstants DEF IInv, TypeOK, Restored, ShadowAvoids
  <1>3. TypeOK'
    BY <1>1, <1>2 DEF IInv, TypeOK
  <1>4. EssentialNodesScoreFull'
    BY <1>1, NeedsStable DEF IInv, EssentialNodesScoreFull
  <1>5. QED
    BY <1>1, <1>3, <1>4
       DEF IInv, EndedRun, Ended, UpstreamComplete, RunsOnce, Exhausted,
           DecisionIsRecorded, ShadowAvoids

\* The invariant is inductive.
LEMMA Inductive == IInv /\ [Next]_vars => IInv'
  <1> SUFFICES ASSUME IInv, [Next]_vars PROVE IInv'
    OBVIOUS
  <1>1. ASSUME NEW n \in Nodes, NodeEnds(n) PROVE IInv'
    BY <1>1, NodeEndsStep
  <1>2. CASE UNCHANGED vars
    <2>1. UNCHANGED <<deps, enabled, phase, pc, pending, running, finished,
                      results, decided, todo, ablated, wasEnabled, score>>
      BY <1>2 DEF vars, exec, ablation
    <2>2. EssentialNodesScoreFull' /\ ShadowAvoids'
      BY <2>1, NeedsStable DEF IInv, EssentialNodesScoreFull, ShadowAvoids
    <2>3. QED
      BY <2>1, <2>2
         DEF IInv, TypeOK, EndedRun, Ended, UpstreamComplete, RunsOnce,
             Exhausted, DepsMet, DecisionIsRecorded
  <1>3. QED
    BY <1>1, <1>2, StartReadyStep, CollectStep, BaselineEndsStep,
       ShadowEndsStep, CancelStep DEF Next, NodeTask

\* The invariant holds in every reachable state.
THEOREM Invariance == Spec => []IInv
  BY InitIInv, Inductive, PTL DEF Spec

\* The variables keep their types.
THEOREM TypeCorrect == Spec => []TypeOK
  <1>1. IInv => TypeOK
    BY DEF IInv
  <1>2. QED BY <1>1, Invariance, PTL

\* Every agent gets the results of all it depends on.
THEOREM CompleteInputs == Spec => []UpstreamComplete
  <1>1. IInv => UpstreamComplete
    BY DEF IInv
  <1>2. QED BY <1>1, Invariance, PTL

\* No agent runs twice in an execution.
THEOREM NoRerun == Spec => []RunsOnce
  <1>1. IInv => RunsOnce
    BY DEF IInv
  <1>2. QED BY <1>1, Invariance, PTL

\* An execution that ends by itself leaves nothing that could have run.
THEOREM Exhaustive == Spec => []NothingRunnableLeft
  <1>1. IInv => NothingRunnableLeft
    BY DEF IInv, Exhausted, NothingRunnableLeft, DepsMet
  <1>2. QED BY <1>1, Invariance, PTL

\* The impact of an agent the decision rests on is always the largest.
THEOREM EssentialImpact == Spec => []EssentialNodesScoreFull
  <1>1. IInv => EssentialNodesScoreFull
    BY DEF IInv
  <1>2. QED BY <1>1, Invariance, PTL

\* The ablation restores what it disables, cancelled or not.
THEOREM Restoration == Spec => AblationRestores
  <1> DEFINE original == IF phase = "shadow" THEN Restored ELSE enabled
  <1>1. ASSUME IInv, [Next]_vars PROVE original' = original \/ UNCHANGED vars
    <2>1. CASE StartReady \/ NodeTask \/ Collect
      BY <2>1 DEF StartReady, NodeTask, NodeEnds, Collect, ablation, Restored
    <2>2. ASSUME NEW left, NEW nodes, Ablate(left, nodes)
          PROVE  original' = nodes
      BY <2>2 DEF Ablate, Restored
    <2>3. CASE BaselineEnds
      BY <2>2, <2>3 DEF BaselineEnds
    <2>4. CASE ShadowEnds
      BY <2>2, <2>4 DEF ShadowEnds
    <2>5. CASE Cancel
      BY <2>5 DEF Cancel
    <2>6. QED BY <1>1, <2>1, <2>3, <2>4, <2>5 DEF Next
  <1>2. QED BY <1>1, Invariance, PTL DEF Spec, AblationRestores
=============================================================================
