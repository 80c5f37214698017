CONSTANTS
    Lines <- MCLines
    Longer <- MCLonger
    Width <- MCWidth
    CommandStrLen = 9
    StrValSize = 32
    DefaultDelay = 3
    BoardType <- MCBoardType
    Meaning <- MCMeaning
    MaxLines = 2
SPECIFICATION Spec
INVARIANTS TypeOK DoesWhatWasMeant AnswersAreOwn NothingInvented TableIsSound
CHECK_DEADLOCK FALSE
