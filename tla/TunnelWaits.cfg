\* One stream, one request, an answer in two chunks.
CONSTANTS
    Attempts = 1
    Requests = 1
    AnswerLen = 2
SPECIFICATION FairSpec
PROPERTIES
    DeadlinesEndTheWait
CHECK_DEADLOCK FALSE
