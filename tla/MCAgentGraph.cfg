CONSTANTS
    technical = technical  sentiment = sentiment  decision = decision
    Nodes = {technical, sentiment, decision}
    Decision = decision
    Ablatable = {technical, sentiment}
    NoNode = NoNode
SPECIFICATION FairSpec
INVARIANTS UpstreamComplete RunsOnce NothingRunnableLeft EssentialNodesScoreFull
PROPERTIES AblationRestores DecisionEnds
CHECK_DEADLOCK FALSE
