\* One request with a batch of two rows.
CONSTANTS
    a1 = a1
    a2 = a2
    Requests <- OneRequest
    Recs = {"x", "y"}
    Approvers = {a1, a2}
    Admins = {"adm"}
    Reviewers = {"adm"}
SPECIFICATION Spec
SYMMETRY Symmetric
INVARIANTS RowsAuthorised BatchCompletedSound CompletedMeansApplied
