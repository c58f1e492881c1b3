CONSTANTS
    p1 = p1
    r1 = r1
    alice = alice
    bob = bob
    pw1 = pw1
    quote = quote
    None = None
    Proxies <- OneProxy
    Relays <- OneRelay
    Names <- TwoNames
    Passwords <- TwoPasswords
    Quoted <- QuotedPassword
    SelectedIds <- TwoIds
    Backlog = 2
    MaxRequests = 3
    MaxKills = 2
SPECIFICATION FairSpec
CHECK_DEADLOCK FALSE
INVARIANTS TypeOK AcknowledgedSurvives IdsStable PlainLoginOnlyForUsers
PROPERTIES StoreSpec CurrentServed
