----------------------------- MODULE AgentGraph ------------------------------
(***************************************************************************)
(* One decision of the agent graph and its ablation                        *)
(* (src/agents/graph.py, src/agents/ablation.py): the baseline execution,  *)
(* then, for each ablatable node, a shadow execution with that node        *)
(* disabled.                                                               *)
(*                                                                         *)
(* execute() is a loop: its head (pc "head") starts every node whose       *)
(* dependencies all have results, then it waits (pc "wait") until at least *)
(* one of the node tasks is done and collects all that are.  Node tasks    *)
(* end with a result or with an exception, which a timeout is one of.      *)
(***************************************************************************)
EXTENDS Naturals, FiniteSets

CONSTANTS
    Nodes,       \* the agents
    Decision,    \* the node that stores context["final_decision"]
    Ablatable,   \* nodes whose type is neither "decision" nor "risk"
    NoNode

ASSUME GraphConstants ==
    /\ Decision \in Nodes
    /\ Ablatable \subseteq Nodes \ {Decision}
    /\ NoNode \notin Nodes

VARIABLES
    deps,       \* config.dependencies of each node
    enabled,    \* nodes with config.enabled
    phase,      \* "baseline", "shadow" or "end"
    pc,         \* "head", "wait" or "done" in the current execution
    pending,    \* nodes not started
    running,    \* running_tasks: started and not collected
    finished,   \* ended tasks not collected yet, [node |-> ok] pairs
    results,    \* nodes with a result
    decided,    \* is there a final decision in the context?
    todo,       \* ablatable nodes to come
    ablated,    \* the node disabled by the current shadow execution
    wasEnabled, \* original_state
    score       \* impact: "none", "full" (1.0) or "partial" (at most 0.5)

exec == <<pc, pending, running, finished, results, decided>>
ablation == <<phase, todo, ablated, wasEnabled, score>>
vars == <<deps, enabled, exec, ablation>>

Ended == {f.node : f \in finished}

\* Mutant: one dependency with a result is enough.
DepsMetByAny(n) == deps[n] = {} \/ deps[n] \cap results # {}

\* Mutant: a disabled dependency does not hold a node back.
DepsMetOrDisabled(n) == deps[n] \cap enabled \subseteq results

DepsMet(n) == deps[n] \subseteq results

-----------------------------------------------------------------------------
(* AgentGraph.execute *)

\* The state in which execute() enters its loop.
Entered(ns) ==
    /\ pc' = "head"
    /\ pending' = ns
    /\ running' = {} /\ finished' = {} /\ results' = {}
    /\ decided' = FALSE

\* Mutant: started nodes are not taken out of pending.
StartReadyKeepsPending ==
    LET ready == {n \in pending \cap enabled : DepsMet(n)}
    IN  /\ pc = "head"
        /\ pending' = pending \cap enabled
        /\ running' = running \cup ready
        /\ pc' = IF running' = {} THEN "done" ELSE "wait"
        /\ UNCHANGED <<deps, enabled, finished, results, decided, ablation>>

\* Mutant: without the check of running_tasks nothing ends a graph whose
\* pending nodes can never start.
StartReadyWaitsForPending ==
    LET ready == {n \in pending \cap enabled : DepsMet(n)}
    IN  /\ pc = "head"
        /\ pending' = (pending \cap enabled) \ ready
        /\ running' = running \cup ready
        /\ pc' = IF running' = {} /\ pending' = {} THEN "done" ELSE "wait"
        /\ UNCHANGED <<deps, enabled, finished, results, decided, ablation>>

\* Mutant: the execution is over when nothing could be started.
StartReadyOrStop ==
    LET ready == {n \in pending \cap enabled : DepsMet(n)}
    IN  /\ pc = "head"
        /\ pending' = (pending \cap enabled) \ ready
        /\ running' = running \cup ready
        /\ pc' = IF ready = {} THEN "done" ELSE "wait"
        /\ UNCHANGED <<deps, enabled, finished, results, decided, ablation>>

\* Disabled nodes leave pending, ready ones start; with nothing running the
\* execution is over, whatever is still pending.
StartReady ==
    LET ready == {n \in pending \cap enabled : DepsMet(n)}
    IN  /\ pc = "head"
        /\ pending' = (pending \cap enabled) \ ready
        /\ running' = running \cup ready
        /\ pc' = IF running' = {} THEN "done" ELSE "wait"
        /\ UNCHANGED <<deps, enabled, finished, results, decided, ablation>>

\* The task of node n ends: with a result, or with an exception or timeout.
NodeEnds(n) ==
    /\ n \in running \ Ended
    /\ \E ok \in BOOLEAN :
         /\ finished' = finished \cup {[node |-> n, ok |-> ok]}
         /\ decided' = (decided \/ (ok /\ n = Decision))
    /\ UNCHANGED <<deps, enabled, pc, pending, running, results, ablation>>

\* asyncio.wait returns and every task that is done by then is processed.
Collect ==
    /\ pc = "wait" /\ finished # {}
    /\ results' = results \cup {f.node : f \in {g \in finished : g.ok}}
    /\ running' = running \ Ended
    /\ finished' = {}
    /\ pc' = "head"
    /\ UNCHANGED <<deps, enabled, pending, decided, ablation>>

-----------------------------------------------------------------------------
(* AblationEngine.evaluate_impact *)

\* Disable the next node and execute the graph without it, or end.
Ablate(left, restored) ==
    IF left = {}
      THEN /\ phase' = "end"
           /\ enabled' = restored
           /\ ablated' = NoNode
           /\ todo' = {}
           /\ UNCHANGED <<wasEnabled, exec>>
      ELSE \E n \in left :
             /\ phase' = "shadow"
             /\ ablated' = n
             /\ wasEnabled' = (n \in restored)
             /\ enabled' = restored \ {n}
             /\ todo' = left \ {n}
             /\ Entered(Nodes)

\* The baseline is over; without a decision there is nothing to ablate.
BaselineEnds ==
    /\ phase = "baseline" /\ pc = "done"
    /\ Ablate(IF decided THEN Ablatable ELSE {}, enabled)
    /\ UNCHANGED <<deps, score>>

\* The enabled nodes once the ablated one is restored.
Restored == IF wasEnabled THEN enabled \cup {ablated} ELSE enabled

\* A shadow execution is over: its impact is 1.0 without a decision, and
\* depends on the two decisions otherwise; the node is restored.
ShadowEnds ==
    /\ phase = "shadow" /\ pc = "done"
    /\ \E s \in IF decided THEN {"full", "partial"} ELSE {"full"} :
         score' = [score EXCEPT ![ablated] = s]
    /\ Ablate(todo, Restored)
    /\ UNCHANGED deps

\* Mutant: a cancelled evaluation does not restore the node.
CancelWithoutRestore ==
    /\ phase # "end" /\ pc = "wait"
    /\ phase' = "end"
    /\ ablated' = NoNode
    /\ pc' = "done"
    /\ UNCHANGED <<deps, enabled, pending, running, finished, results, decided,
                   todo, wasEnabled, score>>

\* The task that runs the decision is cancelled while it waits for the nodes
\* (MarketMonitor.stop): finally restores the node, and the node tasks, which
\* nothing cancels, run on without effect on the graph.
Cancel ==
    /\ phase # "end" /\ pc = "wait"
    /\ phase' = "end"
    /\ enabled' = IF phase = "shadow" THEN Restored ELSE enabled
    /\ ablated' = NoNode
    /\ pc' = "done"
    /\ UNCHANGED <<deps, pending, running, finished, results, decided, todo,
                   wasEnabled, score>>

-----------------------------------------------------------------------------
\* _validate_dag accepts every dependency on an existing node, cycles too.
Init ==
    /\ deps \in [Nodes -> SUBSET Nodes]
    /\ enabled \in SUBSET Nodes
    /\ phase = "baseline"
    /\ pc = "head"
    /\ pending = Nodes
    /\ running = {} /\ finished = {} /\ results = {}
    /\ decided = FALSE
    /\ todo = {} /\ ablated = NoNode /\ wasEnabled = FALSE
    /\ score = [n \in Ablatable |-> "none"]

NodeTask == \E n \in Nodes : NodeEnds(n)

Next == StartReady \/ NodeTask \/ Collect \/ BaselineEnds \/ ShadowEnds \/ Cancel

Spec == Init /\ [][Next]_vars

\* The event loop is fair, and wait_for ends every node by its timeout.
Fairness == /\ WF_vars(StartReady) /\ WF_vars(Collect)
            /\ WF_vars(BaselineEnds) /\ WF_vars(ShadowEnds)
            /\ \A n \in Nodes : WF_vars(NodeEnds(n))

FairSpec == Spec /\ Fairness

-----------------------------------------------------------------------------
(* Properties *)

\* Every variable has its type.
TypeOK ==
    /\ deps \in [Nodes -> SUBSET Nodes]
    /\ enabled \in SUBSET Nodes
    /\ phase \in {"baseline", "shadow", "end"}
    /\ pc \in {"head", "wait", "done"}
    /\ pending \in SUBSET Nodes
    /\ running \in SUBSET Nodes
    /\ finished \in SUBSET [node : Nodes, ok : BOOLEAN]
    /\ results \in SUBSET Nodes
    /\ decided \in BOOLEAN
    /\ todo \in SUBSET Ablatable
    /\ ablated \in Ablatable \cup {NoNode}
    /\ wasEnabled \in BOOLEAN
    /\ score \in [Ablatable -> {"none", "full", "partial"}]

\* No agent runs, or has run, without the results of all it depends on: each
\* gets exactly the upstream results its configuration names.
UpstreamComplete == \A n \in running \cup results : deps[n] \subseteq results

\* An agent runs at most once in an execution.
RunsOnce ==
    /\ pending \cap running = {}
    /\ (pending \cup running) \cap results = {}
    /\ \A f, g \in finished : f.node = g.node => f = g

\* A node is held back only by a dependency without a result: when an
\* execution ends by itself, no node still runs whose result would be lost,
\* and none is left that could have run.
NothingRunnableLeft ==
    pc = "done" /\ phase # "end" =>
      /\ running = {}
      /\ \A n \in pending : \E d \in deps[n] : d \notin results

Closed(X) == \A m \in X : deps[m] \subseteq X

\* What n depends on, directly or not, and n itself.
Needs(n) == {m \in Nodes :
               \A X \in SUBSET Nodes : n \in X /\ Closed(X) => m \in X}

\* The impact of a node the decision rests on is always 1.0, whatever the
\* decisions are: without the node there is no shadow decision to compare.
EssentialNodesScoreFull ==
    \A n \in Ablatable :
      n \in Needs(Decision) => score[n] \in {"none", "full"}

\* The ablation leaves the graph as it found it: whatever fails or is
\* cancelled, the nodes enabled without the current shadow execution are the
\* same throughout.
AblationRestores ==
    [][LET original == IF phase = "shadow" THEN Restored ELSE enabled
       IN  original' = original]_vars

\* Every decision ends, also for a graph with a cycle, with disabled nodes and
\* with nodes that fail.
DecisionEnds == <>(phase = "end")
=============================================================================
