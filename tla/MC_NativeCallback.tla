------------------------- MODULE MC_NativeCallback -------------------------
(* Model-checking instance of NativeCallback: the driver's function        *)
(* descriptors and a three-argument one, which the OCaml backend refuses.  *)
EXTENDS NativeCallback

(* FunctionDesc("PrintInt", PrintInt, 1) and FunctionDesc("MyAdd", MyAdd, *)
(* 2) of MultiScriptTest's main, and a function of three arguments.        *)
MCFunctions ==
  { [name |-> "PrintInt", numParams |-> 1, results |-> 0],
    [name |-> "MyAdd", numParams |-> 2, results |-> 1],
    [name |-> "Add3", numParams |-> 3, results |-> 1] }
=============================================================================
