CONSTANTS
    MaxVias = 3
    Hosts <- MCHosts
    NoHost = NoHost
    Requests <- MCRequests
    MaxForks = 3
SPECIFICATION Spec
INVARIANTS  AnswersGoBack
CHECK_DEADLOCK FALSE
