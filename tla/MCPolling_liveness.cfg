\* Two chats, one of which may be configured; a channel that holds one of
\* three updates; one death.
CONSTANTS
    c1 = c1
    c2 = c2
    Chats <- TwoChats
    Explicit <- OneChat
    None = None
    Buffer = 1
    MaxUpdates = 3
    MaxDeaths = 1
SPECIFICATION FairSpec
INVARIANTS TypeOK RepeatsNeedDeaths
PROPERTIES LostOnlyAtDeath BindingIsKept ServesTheStoredChat EveryUpdateIsSeen
