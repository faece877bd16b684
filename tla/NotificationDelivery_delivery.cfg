SPECIFICATION FairSpec
CONSTANTS
    Events = {c1}
    Notices = {}
    Workers = {w1}
    Admins = {a1}
    Operations = {"send", "requeue", "evaluate"}
    Situations = {"skip", "no_recipient", "ready"}
    MaxAttempts = 2
    Window = 1
    StaleAfter = 2
    MaxSettings = 1
PROPERTIES DeliveredOnce MessagesGetOn EventsGetMessages
