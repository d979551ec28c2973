CONSTANTS
    Letters <- SomeLetters
    Graphemes <- SomeGraphemes
    Texts <- SomeTexts
    MaxSegments = 2
SPECIFICATION Spec
INVARIANTS ScreenIsTranscript CommittedTextKept FallbackOnCleanLine
PROPERTIES ImplementsRecordingText
