\* One call that is repeated, two agents, kills and answers that the user removes, any number of timeouts.
SPECIFICATION FairSpec
CONSTANTS
    Payloads = {"c5"}
    Agents = {"a1", "a2"}
    MaxFaults = 3
INVARIANTS WaitingIsVisible
PROPERTIES AnswerStands LateAnswersServe
