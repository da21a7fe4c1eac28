\* GameMonkey: the host pushes again an object whose handle was collected.
CONSTANTS
  Backends = {"gm"}
  Objects = {o1, o2}
  Classes = {SampleClass, NewSampleClass}
  GC = {SampleClass}
  Embeds = {NewSampleClass}
  HostDeletes = FALSE
  NoClass = NoClass
  MaxDestroyCalls = 2
SPECIFICATION Spec
SYMMETRY ObjectSymmetry
INVARIANT NoUseAfterFree
