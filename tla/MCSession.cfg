\* TCP and SSL sessions, a client that sends up to two messages (the first
\* possibly a websocket upgrade), may do or skip the TLS handshake and may
\* close its side at any time.
CONSTANTS
    Modes <- MCModes
    MaxMessages = 2
    MaxWsCloses = 3
SPECIFICATION Spec
INVARIANTS
    TypeOK
    DeadlineCoversRead
PROPERTY
    ReadTimesOut
\* A session ends: once it is shut down or handed over no handler is left
\* to run and the client has nothing more to send.
CHECK_DEADLOCK FALSE
