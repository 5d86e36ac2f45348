\* Two approvers, one admin; a request, and another one after a rejection.
CONSTANTS
    a1 = a1
    a2 = a2
    Requests <- TwoRequests
    Recs = {"x"}
    Approvers = {a1, a2}
    Admins = {"adm"}
    Reviewers = {"adm"}
SPECIFICATION Spec
SYMMETRY Symmetric
INVARIANTS ApprovedSound OpenHasPending
PROPERTIES KeepsUnanimity
