CONSTANTS
    rita = rita
    rob = rob
    r1 = r1
    r2 = r2
    a1 = a1
    a2 = a2
    p1 = p1
    p2 = p2
    Users <- MCUsers
    Assisted <- MCAssisted
    Listed <- MCListed
    ReviewerIds <- MCReviewerIds
    AssignmentIds <- MCAssignmentIds
    AssigneeIds <- MCAssigneeIds
    MaxChanges <- MCMaxChanges
    MaxList = 2
SYMMETRY MCSymmetry
CHECK_DEADLOCK FALSE
SPECIFICATION DocSpec
INVARIANTS
    DocTypeOK
    ReviewInboxExact
    ExecuteInboxOfOneAssignment
PROPERTIES
    AssigneesKeepReviewer
    DoneStaysDone
    PerformedByReader
