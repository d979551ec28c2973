CONSTANTS
    Sinks = {speaker, headset}
    Streams = {call, monitor}
    Own = own
    Monitors = {monitor}
    Tagged = {}
    MaxChanges = 1
SPECIFICATION MuteSpec
INVARIANTS MutesUndone ChoiceKept RecordingIsPrivate
SYMMETRY Symmetry
