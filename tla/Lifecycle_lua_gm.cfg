\* Lua and GameMonkey; the sample classes of MultiScriptTest.cpp; the host keeps the objects it pushed.
CONSTANTS
  Backends = {"lua", "gm"}
  Objects = {o1, o2}
  Classes = {SampleClass, NewSampleClass}
  GC = {SampleClass}
  Embeds = {NewSampleClass}
  HostDeletes = FALSE
  NoClass = NoClass
  MaxDestroyCalls = 2
SPECIFICATION Spec
INVARIANT TypeOK
INVARIANT LuaNoUseAfterFree
PROPERTY ImplementsScriptObjectSpec
PROPERTY CollectedObjectsDeleted
