\* What the comments of the patterns say without exception.
SPECIFICATION Spec
CONSTANTS
    None = None
    Rejected = Rejected
    Worlds = {"w1", "w2", "w3"}
    Atoms = {"p", "q"}
    BackendItems <- MCBackendItems
    Fragments <- MCFragments
    Payloads <- MCPayloads
    Sources <- MCSources
    Sampled <- MCSampled
    Repetitions <- MCRepetitions
    Meanings <- MCMeanings
    Generations <- MCGenerations
    SampleCounts = {4}
    Thresholds = {0, 5000, 13862, 13863}
    Percents = {50, 90, 100}
    Provisions <- MCProvisions
    RuleSets <- MCRuleSets
    WageProvisions <- MCWageProvisions
    Floors <- MCFloors
    Drafts <- MCDrafts
    Questions <- MCQuestions
    Rankings <- MCRankings
    Valuations <- MCValuations
    GraphNodes <- MCNodes
    Graphs <- MCGraphs
    Clauses <- MCClauses
    Symbols <- MCSymbols
INVARIANTS
    ModalityIsNeverInverted
CHECK_DEADLOCK FALSE
