\* One send through two claims and a restart, under fairness.
\* A refused fact stops the lane for as long as the process lives.
SPECIFICATION FairSpec
CHECK_DEADLOCK FALSE
CONSTANTS
    send = send  edit = edit  far = far  s1 = s1  s2 = s2  b1 = b1  d1 = d1  d2 = d2
    None = None
    Jobs = {send}
    Slots = {s1, s2}
    Bots = {b1}
    Dests = {d1}
    BotOf <- OneBot
    DestOf <- Destinations
    Lane <- OneLane
    SendJobs = {send}
    RepeatJobs = {}
    PrivateJobs = {send}
    Facts = {"ok", "ok_without_id", "write_unknown"}
    Verdicts = {"send"}
    MaxToken = 2
    MaxRestarts = 1
INVARIANTS NoDuplicateSend RowAgreesWithTelegram SuccessNeverLost
PROPERTIES FinalIsForever PromiseKept LeasesEnd FactsReachTheirRow
