\* Squirrel; the sample classes; the host may delete the objects it pushed.
CONSTANTS
  Backends = {"squirrel"}
  Objects = {o1, o2}
  Classes = {SampleClass, NewSampleClass}
  GC = {SampleClass}
  Embeds = {NewSampleClass}
  HostDeletes = TRUE
  NoClass = NoClass
  MaxDestroyCalls = 2
SPECIFICATION Spec
SYMMETRY ObjectSymmetry
INVARIANT DestructorAtMostOnce
