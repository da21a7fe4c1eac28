\* Lua: a native callback with one argument still on its frame calls back into script.
CONSTANTS
  Backends = {"lua"}
  Classes = {SampleClass}
  FrameArgs = 1
  MaxArgs = 2
  MaxResults = 2
  MaxCalls = 2
SPECIFICATION Spec
INVARIANT BeginCallAccepted
