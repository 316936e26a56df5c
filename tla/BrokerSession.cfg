CONSTANTS
    Client = {c1}
    Plain = {p1}
    Tls = {t1, t2}
    Message = {m1}
    AtMostOnce = {p1}
    Retain = {m1, p1}
    Clearing = {p1}
    Filter = {f1}
    Publisher = {t2}
    None = none
    CleanChoices = {FALSE, TRUE}
    WillChoices = {FALSE, TRUE}
    ExpiryChoices = {FALSE, TRUE}
    LateConnect = FALSE
    QueuedMessageCap = 2
    MaxSubs = 1
SPECIFICATION Spec
CHECK_DEADLOCK FALSE
INVARIANTS
    TablesAgree
    SubscriptionSurvivesReconnect
    NoneMissedOnDisconnect
    RetainedSeen
    WillOnUngracefulEnd
