CONSTANTS
    sam = sam
    sue = sue
    ann = ann
    head = head
    chief = chief
    aide = aide
    Nobody = Nobody
    Users <- MCUsers
    Curators <- MCNone
    Assistants <- MCNoAssistants
    SignerIds <- MCSignerIds
    ApproverIds <- MCApproverIds
    AskedSigners <- MCAskedSigners
    AskedApprovers <- MCAskedApprovers
    LateApprovers <- MCLateApprovers
    Callers <- MCCallers
    SkipsApproval = FALSE
    MaxEdits = 0
    MaxUpdates = 0
    MaxLate = 1
    MaxFailures = 0
SPECIFICATION Spec
INVARIANT RegisteredOnceAllSigned
