CONSTANTS
    k1 = k1
    k2 = k2
    c1 = c1
    c2 = c2
    c3 = c3
    user = user
    other = other
    agent = agent
    editor = editor
    t1 = t1
    None = None
    Id = {c1, c2, c3}
    Actor = {user, other, agent}
    Agent = {agent}
    Client = {editor}
    Camp = {t1}
    Caller = {k1, k2}
    MaxSerial = 3
    Request <- Commands
SPECIFICATION GatewaySpec
INVARIANTS AnsweredOnce
PROPERTIES ReceiptsKept ThreadFrozen
SYMMETRY Symmetric
CHECK_DEADLOCK FALSE
