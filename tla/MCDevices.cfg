SPECIFICATION DevSpec
INVARIANT TypeOK
INVARIANT LinesAgree
INVARIANT TimersAgree
INVARIANT RingsInOrder
INVARIANT ConversionsExact
INVARIANT ProtocolKept
CHECK_DEADLOCK FALSE
