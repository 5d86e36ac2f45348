\* One generator at a time; users act at every moment.
CONSTANTS
    Keys = {"ec2_stopped", "s3_public"}
    Ec2Keys = {"ec2_stopped"}
    Generators = {"g1"}
    MaxCopies = 2
    MaxRuns = 2
    MaxTime = 2
    MaxActs = 3
SPECIFICATION Spec
CHECK_DEADLOCK FALSE
INVARIANTS OneRowPerKey
PROPERTIES DecisionsSurviveGeneration 
