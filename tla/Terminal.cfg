CONSTANTS
  TERM_WIDTH = 3
  TERM_HEIGHT = 2
  Planes = {1}
  Chars = {"#"}
  Space = " "
  Solid = {"#"}
  MaxLen = 2
  Reach = 1
  Off = Off
  WindowScreen <- MCScreen
  Places <- MCPlaces
  WindowTexts <- MCTexts
  MaxCalls = 3
  Pid = {1, 2, 3}
  Width = 1
  Height = 2
  MaxTitle = 2
  Lines <- MCLines
  Letters = {"a", "b"}
  Pasted <- MCPasted
  Completions <- MCCompletions
  Histories <- MCHistories
  Defaults <- MCDefaults
  ReplaceChars = {"plain", "*"}
  MaxLine = 4
SPECIFICATION DesktopSpec
CONSTRAINT TwoKinds
INVARIANTS ScreenShowsCells WindowsShown LineShown
PROPERTIES CursorFollows
