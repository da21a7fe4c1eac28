\* Lua and Squirrel: values left on the stack by ExecuteString, EndCall or BeginCall are still there when no call is open.
CONSTANTS
  Backends = {"lua", "squirrel"}
  Classes = {SampleClass, NewSampleClass}
  FrameArgs = 0
  MaxArgs = 2
  MaxResults = 2
  MaxCalls = 3
SPECIFICATION Spec
INVARIANT StackBalancedAtRest
