CONSTANTS
    Requests <- MCRequests
SPECIFICATION Spec
\* main() returns: Ok, Err or a panic end the process.
CHECK_DEADLOCK FALSE
INVARIANTS
    OkReportsEveryRequest
    ReportFollowsAllSteps
