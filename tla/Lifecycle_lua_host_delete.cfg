\* Lua: the host deletes an object it pushed, as ScriptObject::Release documents.
CONSTANTS
  Backends = {"lua"}
  Objects = {o1, o2}
  Classes = {SampleClass, NewSampleClass}
  GC = {SampleClass}
  Embeds = {NewSampleClass}
  HostDeletes = TRUE
  NoClass = NoClass
  MaxDestroyCalls = 2
SPECIFICATION Spec
SYMMETRY ObjectSymmetry
INVARIANT NoUseAfterFree
