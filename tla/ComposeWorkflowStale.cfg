CONSTANTS
    sam = sam
    sue = sue
    ann = ann
    head = head
    chief = chief
    aide = aide
    Nobody = Nobody
    Users <- MCUsers
    Curators <- MCCurators
    Assistants <- MCAssistants
    SignerIds <- MCSignerIds
    ApproverIds <- MCApproverIds
    AskedSigners <- MCAskedSigners
    AskedApprovers <- MCAskedApprovers
    LateApprovers <- MCLateApprovers
    Callers <- MCCallers
    SkipsApproval = FALSE
    MaxEdits = 1
    MaxUpdates = 1
    MaxLate = 0
    MaxFailures = 0
SPECIFICATION Spec
INVARIANT SignedTextIsCurrent
