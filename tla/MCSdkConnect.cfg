SPECIFICATION Spec
CONSTANTS
    Calls <- MCCalls
    Key <- MCKey
    ServerKey = "psk"
    NoKey = "none"
    Ring = 2
    MaxConns = 2
PROPERTY RetryIsAnswered
CHECK_DEADLOCK FALSE
