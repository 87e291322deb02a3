CONSTANTS
    sam = sam
    sue = sue
    ann = ann
    head = head
    chief = chief
    aide = aide
    Nobody = Nobody
    Users <- MCUsers
    Curators <- MCOneCurator
    Assistants <- MCOneAssistant
    SignerIds <- MCRowIds
    ApproverIds <- MCRowIds
    AskedSigners <- MCAskedSigners
    AskedApprovers <- MCTwoApprovers
    LateApprovers <- MCLateApprovers
    Callers <- MCCallers
    SkipsApproval = FALSE
    MaxEdits = 0
    MaxUpdates = 0
    MaxLate = 0
    MaxFailures = 0
    Requests = {r1, r2}
SPECIFICATION AnswerSpec
SYMMETRY MCSymmetry
CONSTRAINT MCBound
CHECK_DEADLOCK FALSE
INVARIANTS
    NoLostRegistration
    NoLostApproval
