\* Spec 4.1: PopInt consumes from the tail of the pending arguments, on every backend.
CONSTANTS
  Backends = {"lua", "gm", "squirrel", "ocaml"}
  Functions <- MCFunctions
  Classes = {SampleClass, NewSampleClass}
  Values = {1, 2}
  MaxArgs = 3
  MaxRegistrations = 3
  MaxCalls = 4
SPECIFICATION Spec
INVARIANT PopsFromTail
