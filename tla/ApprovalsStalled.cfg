\* Two approvers decide on one request.
CONSTANTS
    a1 = a1
    a2 = a2
    Requests <- OneRequest
    Recs = {"x"}
    Approvers = {a1, a2}
    Admins = {"adm"}
    Reviewers = {}
SPECIFICATION Spec
INVARIANT PartialHasPending
