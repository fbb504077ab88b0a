SPECIFICATION FairSpec
CONSTANTS
    l1 = l1 l2 = l2 l3 = l3 l4 = l4 p1 = p1 p2 = p2 p3 = p3 p4 = p4
    s1 = s1 s2 = s2 s3 = s3 s4 = s4 camp = camp m1 = m1 m2 = m2 m3 = m3
    None = None
    Lease = {l1, l2, l3}
    Process = {p1, p2, p3}
    Scope = {s1}
    Camp = {camp}
    Member = {m1}
    ScopeOf <- OneScope
    PoliciesOf <- LastNew
    CampOf <- OneCamp
    MemberOf <- OwnMember
    Earlier <- InTurn
    Kinds = {"codex", "dsh"}
    MaxPerMember = 1
    MaxGlobal = 1
    MaxRestart = 0
CONSTRAINTS InOrder Reserved
ACTION_CONSTRAINT Staged
PROPERTIES CleanupSettles WaitersAnswered
CHECK_DEADLOCK FALSE
