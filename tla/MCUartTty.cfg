SPECIFICATION Spec
CONSTANT Byte <- MCByte
CONSTANT Script <- MCScript
CONSTANT BufferSize = 2
CONSTANT Kinds = {TRUE}
INVARIANT EofMeansClosed
