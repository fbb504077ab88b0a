SPECIFICATION Spec
CONSTANTS
    l1 = l1 l2 = l2 l3 = l3 l4 = l4 p1 = p1 p2 = p2 p3 = p3 p4 = p4
    s1 = s1 s2 = s2 s3 = s3 s4 = s4 camp = camp m1 = m1 m2 = m2 m3 = m3
    None = None
    Lease = {l1, l2, l3, l4}
    Process = {p1, p2, p3, p4}
    Scope = {s1, s2, s3, s4}
    Camp = {camp}
    Member = {m1, m2, m3}
    ScopeOf <- OwnScope
    PoliciesOf <- SamePolicy
    CampOf <- OneCamp
    MemberOf <- ThreeMembers
    Earlier <- NoneEarlier
    Kinds = {"other"}
    MaxPerMember = 1
    MaxGlobal = 2
    MaxRestart = 0
CONSTRAINT EvictedMeanwhile
SYMMETRY Symmetric
INVARIANT ResidentQuota
CHECK_DEADLOCK FALSE
