SPECIFICATION Spec
CONSTANT Byte <- MCByte
CONSTANT Script <- MCScript
CONSTANT BufferSize = 2
CONSTANT Kinds = {TRUE, FALSE}
INVARIANT PromiseIsKept
INVARIANT PipeEofMeansClosed
PROPERTY StatusIsFresh
PROPERTY CallsReturn
PROPERTY EverythingIsTaken
PROPERTY ImplementsChannel
