\* Lua: a new object of a class not yet registered, pushed as a call argument.
CONSTANTS
  Backends = {"lua"}
  Classes = {SampleClass, NewSampleClass}
  FrameArgs = 0
  MaxArgs = 2
  MaxResults = 2
  MaxCalls = 3
SPECIFICATION Spec
INVARIANT NewObjectArgumentPushed
