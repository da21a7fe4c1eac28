\* Lua: a method called on an object after Destroy().
CONSTANTS
  Backends = {"lua"}
  Objects = {o1, o2}
  Classes = {SampleClass, NewSampleClass}
  GC = {SampleClass}
  Embeds = {NewSampleClass}
  HostDeletes = FALSE
  NoClass = NoClass
  MaxDestroyCalls = 2
SPECIFICATION Spec
SYMMETRY ObjectSymmetry
INVARIANT NoNullDereference
