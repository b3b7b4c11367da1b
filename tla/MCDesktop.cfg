\* Two clicks, and two changes or failures, as MCInit shares them out; the
\* channels hold fewer than in the code, so that they fill.
CONSTANTS
    Tray = tray
    Worker = {tray, window}
    RequestCapacity = 2
    ResponseCapacity = 1
    Commands = 2
    MaxChanges = 2
    MaxClicks = 2
    NoSnapshot = NoSnapshot
SPECIFICATION MCSpec
INVARIANTS QuitConfirmed AnswersMatchRequests
PROPERTY ViewConverges
CHECK_DEADLOCK FALSE
