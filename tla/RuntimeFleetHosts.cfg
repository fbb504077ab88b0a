SPECIFICATION Spec
CONSTANTS
    l1 = l1 l2 = l2 l3 = l3 l4 = l4 p1 = p1 p2 = p2 p3 = p3 p4 = p4
    s1 = s1 s2 = s2 s3 = s3 s4 = s4 camp = camp m1 = m1 m2 = m2 m3 = m3
    None = None
    Lease = {l1, l2}
    Process = {p1, p2}
    Scope = {s1}
    Camp = {camp}
    Member = {m1}
    ScopeOf <- OneScope
    PoliciesOf <- AnyPolicy
    CampOf <- OneCamp
    MemberOf <- OwnMember
    Earlier <- FirstAlone
    Kinds = {"codex", "hermes", "zcode"}
    MaxPerMember = 1
    MaxGlobal = 1
    MaxRestart = 1
CONSTRAINT Focused
SYMMETRY Symmetric
INVARIANTS FleetAgrees CleanupProven SingleWriter
PROPERTY NoLateWork
CHECK_DEADLOCK FALSE
