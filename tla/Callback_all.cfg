\* Script-to-native calls on all four backends: argument order on the stack backends, assertion-free well-formed calls, results, the OCaml DLL header.
CONSTANTS
  Backends = {"lua", "gm", "squirrel", "ocaml"}
  Functions <- MCFunctions
  Classes = {SampleClass, NewSampleClass}
  Values = {1, 2}
  MaxArgs = 3
  MaxRegistrations = 3
  MaxCalls = 4
SPECIFICATION Spec
INVARIANTS TypeOK StackBackendsPopFromTail WellFormedCallSucceeds ResultIsPushedValue HeaderListsRegisteredFunctions
