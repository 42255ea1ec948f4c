\* The bounds of MCSession.cfg; a client that connects over SSL and never
\* sends the handshake is one of the behaviours.
CONSTANTS
    Modes <- MCModes
    MaxMessages = 2
    MaxWsCloses = 3
SPECIFICATION Spec
PROPERTY
    SilentClientDisconnected
CHECK_DEADLOCK FALSE
