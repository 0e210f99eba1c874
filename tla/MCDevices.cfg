SPECIFICATION DevSpec
CONSTANTS
  NB_COL = 5
  NB_LIG = 3
  TAB = 2
  CLOCK_COL = 3
  MaxTexts = 6
  PRINTF_BUFMAX = 2
  SIXTY = 2
  MAX_HOUR = 0
  TICKS = 1
  Texts <- Printing
  MaxLig = 5
  Commands = {"m", "d", "G", "G wrong", "M fault", "c", "D", "R", "k"}
  BUFMAX = 3
  MaxCommands = 2
  MaxFaults = 2
  Keys <- SomeKeys
  MaxStrokes = 4
  MaxLost = 1
  ULONG = 256
  Arguments = {0, 7, 128, 255}
  Words <- ShortWords
  FieldWidths <- Widths
  Precisions <- SmallPrecisions
  BufferSizes = {4, 1000}
  CELLS = 4
  Letters = {1, 2}
  Delimiters = {2}
INVARIANTS ScreenShowsTheTexts ConversationIsOrderly WrittenRegistersAreKept ConnectedWhileDebugging ProgramFindsItsScreen KeysAreKnown FieldsReadBack StringsAreExact
PROPERTIES BelowTheScreenUntilFormFeed CommandsAreExecuted
CHECK_DEADLOCK FALSE
