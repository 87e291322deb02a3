CONSTANTS
    sam = sam
    sue = sue
    ann = ann
    head = head
    chief = chief
    aide = aide
    Nobody = Nobody
    Users <- MCUsers
    Curators <- MCCurators
    Assistants <- MCAssistants
    SignerIds <- MCRowIds
    ApproverIds <- MCRowIds
    AskedSigners <- MCAskedSigners
    AskedApprovers <- MCAskedApprovers
    LateApprovers <- MCLateApprovers
    Callers <- MCCallers
    SkipsApproval = FALSE
    MaxEdits = 1
    MaxUpdates = 0
    MaxLate = 1
    MaxFailures = 1
    Requests = {r1}
SPECIFICATION SerialSpec
CHECK_DEADLOCK FALSE
PROPERTY ImplementsWorkflow
