CONSTANTS
    sam = sam
    sue = sue
    ann = ann
    head = head
    chief = chief
    aide = aide
    Nobody = Nobody
    Users <- MCUsers
    Curators <- MCCurators
    Assistants <- MCAssistants
    SignerIds <- MCSignerIds
    ApproverIds <- MCApproverIds
    AskedSigners <- MCAskedSigners
    AskedApprovers <- MCAskedApprovers
    LateApprovers <- MCLateApprovers
    Callers <- MCCallers
    SkipsApproval = FALSE
    MaxEdits = 2
    MaxUpdates = 0
    MaxLate = 0
    MaxFailures = 0
SPECIFICATION FairSpec
INVARIANT VisibleOnceAllApproved
PROPERTY EventuallyRegistered
