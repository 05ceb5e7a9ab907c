\* One bot with two slots; what happens in one behaviour is bounded by Scenario.
SPECIFICATION Spec
CONSTANTS
    send = send  edit = edit  far = far  s1 = s1  s2 = s2  b1 = b1  d1 = d1  d2 = d2
    None = None
    Jobs = {send, edit, far}
    Slots = {s1, s2}
    Bots = {b1}
    Dests = {d1, d2}
    BotOf <- OneBot
    DestOf <- Destinations
    Lane <- OneLane
    SendJobs = {send, far}
    RepeatJobs = {edit}
    PrivateJobs = {send, far}
    Facts = {"ok", "already_applied", "migrated", "rate_limited", "bot_conflict", "forbidden", "method_missing", "not_found", "callback_expired", "malformed", "write_unknown", "pre_write", "unclassified"}
    Verdicts = {"send", "superseded", "expired_interaction", "sent_noop", "quarantined", "wait_dependency", "reclassify"}
    MaxToken = 2
    MaxRestarts = 1
SYMMETRY SlotSymmetry
CONSTRAINT Scenario
INVARIANTS TypeOK DestinationExclusion OneProbe
PROPERTIES DestinationCooldownRespected
