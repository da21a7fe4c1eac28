\* Squirrel: a failed EndCall followed by ReleaseAfterCall pops below the call.
CONSTANTS
  Backends = {"squirrel"}
  Classes = {SampleClass, NewSampleClass}
  FrameArgs = 0
  MaxArgs = 2
  MaxResults = 2
  MaxCalls = 3
SPECIFICATION Spec
INVARIANT NoFrameUnderflow
