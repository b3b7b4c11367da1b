CONSTANT DEBOUNCE = 2
SPECIFICATION FairSpec
INVARIANTS CaptureMatchesDemand NothingFromBefore
PROPERTIES MicrophoneReleased ConsumerServed
