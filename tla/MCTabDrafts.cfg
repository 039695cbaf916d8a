SPECIFICATION FairSpec
CONSTANTS
    w1 = w1
    w2 = w2
    t1 = t1
    t2 = t2
    t3 = t3
    t4 = t4
    Workspaces = {w1, w2}
    Tabs = {t1, t2, t3, t4}
    Home <- HomeOf
    Opened = {t1, t2, t3}
    Linked = {t3}
    NoTab = NoTab
    NoList = NoList
    NoWs = NoWs
    MaxDrafts = 2
    MaxActs = 3
PROPERTIES
    OnlyLateEditsAreLost
    LoadsWhatWasSaved
    Settles
CHECK_DEADLOCK FALSE
