\* Lua, Squirrel and OCaml call mode: the released Stack leaves no function or argument, and GetNumParams counts the stack.
CONSTANTS
  Backends = {"lua", "squirrel", "ocaml"}
  Classes = {SampleClass, NewSampleClass}
  FrameArgs = 0
  MaxArgs = 2
  MaxResults = 2
  MaxCalls = 4
SPECIFICATION Spec
INVARIANTS TypeOK CallFrameReleased
  ParamCountMatchesStack
