----------------------------- MODULE CallProtocol -----------------------------
(***************************************************************************)
(* Native code calling script code in call mode (spec 4.1, 4.2): the host *)
(* runs ExecuteString, then BeginCall(name), PushInt for each argument,    *)
(* EndCall, PopInt for the results it wants, and ReleaseAfterCall, which   *)
(* the ScriptCallPtr destructor runs on every exit path of the host        *)
(* function (ExecuteScriptFunction_ScriptAdd returns early when EndCall or *)
(* a PopInt fails).                                                        *)
(*                                                                         *)
(* stack is the interpreter's value stack of the host's current frame,     *)
(* bottom first.  A call frame of a native callback starts with the        *)
(* callback's arguments (FrameArgs of them) still on it; at top level it   *)
(* is empty.  The script's behaviour is the environment: whether the name  *)
(* is a function, whether the chunk or the call raises, how many values it *)
(* returns.  GameMonkey's gmCall runs on its own thread and never touches  *)
(* this stack, and OCaml's Stack keeps the arguments and the result in   *)
(* itself.  The interpreters' API calls are taken by their documented  *)
(* stack effects (lua_pcall, sq_call, sq_get, sq_pop).                     *)
(***************************************************************************)
EXTENDS Integers, Sequences

LOCAL INSTANCE SequencesExt

CONSTANTS
  Backends,    \* the backends: "lua", "gm", "squirrel", "ocaml"
  Classes,     \* class descriptors the host may push objects of
  FrameArgs,   \* values of the enclosing frame on the stack at BeginCall
  MaxArgs,     \* bound on the PushInt calls of one call
  MaxResults,  \* bound on the values a Lua function or chunk returns
  MaxCalls     \* bound on the ExecuteString and BeginCall calls of a run

ASSUME Backends \subseteq {"lua", "gm", "squirrel", "ocaml"}
ASSUME FrameArgs \in Nat /\ MaxArgs \in Nat /\ MaxResults \in Nat
ASSUME MaxCalls \in Nat

VARIABLES
  backend,      \* the backend of the context the host calls into
  registered,   \* classes whose class info is in the context's m_classes
  stack,        \* the interpreter value stack of the frame, bottom first
  phase,        \* "idle": no Stack open; "open": after BeginCall;
                \* "returned": EndCall returned true; "done": the host
                \* function is returning (EndCall or a PopInt failed)
  numPushed,    \* m_numPushed
  numParams,    \* m_numParams (GetNumParams)
  numPopped,    \* GMScriptStack::m_numPopped
  calls,        \* ExecuteString and BeginCall calls so far
  fault         \* "none", "underflow" (a pop below the frame the call
                \* began on) or the MultiScriptAssert that spins: "assert"
                \* (BeginCall), "register" (RegisterUserClass), "lookup"
                \* (Squirrel class lookup), "callmode" (GM), "arity" (OCaml
                \* EndCall), "unsupported" (OCaml objects); "uncaught": an
                \* OCaml exception escaped EndCall and ended the process

vars == <<backend, registered, stack, phase, numPushed, numParams, numPopped,
          calls, fault>>

(* Slots: the root table, a function, an argument, an integer result, a    *)
(* non-integer result (Squirrel's null), an error message, an argument of  *)
(* the enclosing callback frame, a native object's userdata or instance.   *)
Slot == {"root", "fn", "arg", "res", "val", "err", "frame", "obj"}

Frame0 == [i \in 1 .. FrameArgs |-> "frame"]

Repeat(x, n) == [i \in 1 .. n |-> x]

(* sq_pop / lua_pop of n slots; fewer than n above the frame corrupts it.  *)
PopSlots(n) ==
  IF n > Len(stack) - FrameArgs
  THEN /\ fault' = "underflow" /\ UNCHANGED stack
  ELSE /\ stack' = SubSeq(stack, 1, Len(stack) - n) /\ UNCHANGED fault

(* The thunk of the context's backend.                                     *)
ByBackend(lua, gm, squirrel, ocaml) ==
  CASE backend = "lua" -> lua [] backend = "gm" -> gm
    [] backend = "squirrel" -> squirrel [] OTHER -> ocaml

(***************************************************************************)
(* ExecuteString.  outcome: "ok", "syntax" or "runtime"; k: values a Lua   *)
(* chunk returns.                                                          *)
(***************************************************************************)

(* luaL_loadstring pushes the chunk, or the syntax error message, and its  *)
(* result is ignored; lua_pcall(L, 0, LUA_MULTRET) then replaces it by the *)
(* chunk's results or by an error message (calling the message string is  *)
(* itself a runtime error).  Nothing is popped.                            *)
LuaExecuteString(outcome, k) ==
  /\ stack' = stack \o IF outcome = "ok" THEN Repeat("res", k) ELSE <<"err">>
  /\ UNCHANGED fault

(* sq_compile pushes the closure (nothing on a syntax error, returning     *)
(* false); the root table is pushed, sq_call(1, SQFalse) pops it, and the  *)
(* closure is popped.                                                      *)
SquirrelExecuteString(outcome) == UNCHANGED <<stack, fault>>

(* gmMachine::ExecuteString runs on its own thread.                        *)
GMExecuteString(outcome) == UNCHANGED <<stack, fault>>

(* custom_caml_run_code runs the bytecode; no value stack of the host's    *)
(* frame is involved.                                                      *)
OcamlExecuteString(outcome) == UNCHANGED <<stack, fault>>

(***************************************************************************)
(* BeginCall.  lookup: the global is "function", "missing" or "other" (a   *)
(* non-callable value).                                                    *)
(***************************************************************************)

(* A non-empty stack has its top read as a string first (a debugging     *)
(* dereference, harmless for the slots the model puts on top); then       *)
(* MultiScriptAssert(lua_gettop(L) == 0); lua_getfield pushes the global;  *)
(* not a function: it is popped and NULL returned.                         *)
LuaBeginCall(lookup) ==
  IF stack # <<>>
  THEN /\ fault' = "assert" /\ UNCHANGED <<stack, phase>>
  ELSE /\ phase' = IF lookup = "function" THEN "open" ELSE "idle"
       /\ stack' = IF lookup = "function" THEN <<"fn">> ELSE stack
       /\ UNCHANGED fault

(* Root table pushed; sq_get replaces the key by the value, or pops it if  *)
(* the slot is missing; a non-closure on top is popped (the value, or the  *)
(* root table when the slot was missing) and NULL returned; else the root  *)
(* table is pushed again as the call's environment.                        *)
SquirrelBeginCall(lookup) ==
  /\ phase' = IF lookup = "function" THEN "open" ELSE "idle"
  /\ stack' = CASE lookup = "function" -> stack \o <<"root", "fn", "root">>
                [] lookup = "other"    -> stack \o <<"root">>
                [] OTHER               -> stack
  /\ UNCHANGED fault

(* gmCall::BeginGlobalFunction fails for anything but a function.          *)
GMBeginCall(lookup) ==
  /\ phase' = IF lookup = "function" THEN "open" ELSE "idle"
  /\ UNCHANGED <<stack, fault>>

(* caml_named_value(name): NULL when no value was registered under name    *)
(* (Callback.register); otherwise a Stack on it, with no check that it is  *)
(* a closure (the model takes a registered value to be one).               *)
OcamlBeginCall(lookup) ==
  /\ phase' = IF lookup = "missing" THEN "idle" ELSE "open"
  /\ UNCHANGED <<stack, fault>>

(***************************************************************************)
(* EndCall.  failed: the script function raises; k: values it returns.     *)
(***************************************************************************)

(* LuaCall(m_numPushed, LUA_MULTRET): the function and its arguments are   *)
(* replaced by the results or by the error message; on success             *)
(* m_numParams = lua_gettop(L).                                            *)
LuaEndCall(failed, k) ==
  LET base == SubSeq(stack, 1, Len(stack) - numPushed - 1)
      after == base \o IF failed THEN <<"err">> ELSE Repeat("res", k)
  IN  /\ stack' = after
      /\ phase' = IF failed THEN "done" ELSE "returned"
      /\ numParams' = IF failed THEN numParams ELSE Len(after)
      /\ UNCHANGED fault

(* Mutant: the result count taken as topAfter - topBefore.                *)
SquirrelEndCallCountsFromTop(failed, k) ==
  LET topBefore == Len(stack)
      after == SubSeq(stack, 1, Len(stack) - numPushed - 1)
                 \o <<IF k > 0 THEN "res" ELSE "val">>
  IN  IF failed
      THEN LET called == SubSeq(stack, 1, Len(stack) - numPushed - 1)
           IN  /\ phase' = "done"
               /\ UNCHANGED numParams
               /\ IF 2 > Len(called) - FrameArgs
                  THEN fault' = "underflow" /\ stack' = called
                  ELSE /\ stack' = SubSeq(called, 1, Len(called) - 2)
                       /\ UNCHANGED fault
      ELSE /\ stack' = after
           /\ phase' = "returned"
           /\ numParams' = Len(after) - topBefore
           /\ UNCHANGED fault

(* sq_call(m_numPushed + 1, SQTrue) pops the environment and arguments and *)
(* on success pushes the one return value (null when the function returns  *)
(* nothing): m_numParams = topAfter - (topBefore - (m_numPushed + 1)).  On *)
(* failure EndCall pops 2 itself ("root table and function").              *)
SquirrelEndCall(failed, k) ==
  LET topBefore == Len(stack)
      after == SubSeq(stack, 1, Len(stack) - numPushed - 1)
                 \o <<IF k > 0 THEN "res" ELSE "val">>
  IN  IF failed
      THEN LET called == SubSeq(stack, 1, Len(stack) - numPushed - 1)
           IN  /\ phase' = "done"
               /\ UNCHANGED numParams
               /\ IF 2 > Len(called) - FrameArgs
                  THEN fault' = "underflow" /\ stack' = called
                  ELSE /\ stack' = SubSeq(called, 1, Len(called) - 2)
                       /\ UNCHANGED fault
      ELSE /\ stack' = after
           /\ phase' = "returned"
           /\ numParams' = Len(after) - (topBefore - (numPushed + 1))
           /\ UNCHANGED fault

(* m_call->End() whatever the thread did; true is returned.               *)
GMEndCall(failed, k) ==
  /\ phase' = "returned"
  /\ numParams' = IF failed THEN 0 ELSE 1
  /\ UNCHANGED <<stack, fault>>

(* MultiScriptAssert on a call without arguments; else caml_callback,     *)
(* caml_callback2, 3 or N on m_values.  An exception of the closure is    *)
(* raised on through the C frame (caml_callback, not caml_callback_exn)   *)
(* with no handler around it: the process ends.  Otherwise                 *)
(* m_numParams = 1, whatever the closure returned, and true.               *)
OcamlEndCall(failed) ==
  /\ fault' = CASE numPushed = 0 -> "arity" [] failed -> "uncaught"
                 [] OTHER -> "none"
  /\ phase' = IF fault' = "none" THEN "returned" ELSE phase
  /\ numParams' = IF fault' = "none" THEN 1 ELSE numParams
  /\ UNCHANGED stack

(***************************************************************************)
(* Push, pop and release on a call-mode Stack.                             *)
(***************************************************************************)

(* lua_pushinteger / sq_pushinteger; m_numPushed++.                       *)
PushToVM ==
  /\ stack' = Append(stack, "arg")
  /\ numPushed' = numPushed + 1

(* gmCall::AddParamInt keeps the argument in the gmCall.                  *)
GMPushInt == UNCHANGED <<stack, numPushed>>

(* m_values.push_back(Val_int(value)); m_numPushed++.                      *)
OcamlPushInt == UNCHANGED stack /\ numPushed' = numPushed + 1

(* FindClassInfo fails for a class never registered, and RegisterUserClass *)
(* runs first; it ends with MultiScriptAssert(lua_gettop(L) == 0), before  *)
(* m_classes.push_back.  lua_newuserdata, the class metatable set on it,   *)
(* m_numPushed++.                                                          *)
LuaPushNewScriptObject(c) ==
  IF c \notin registered /\ stack # <<>>
  THEN fault' = "register" /\ UNCHANGED <<stack, numPushed, registered>>
  ELSE /\ stack' = Append(stack, "obj")
       /\ numPushed' = numPushed + 1
       /\ registered' = registered \cup {c}
       /\ UNCHANGED fault

(* The class is looked up by name in the slot below the pushed name,       *)
(* sq_get(vm, -2): the slot that was on top, the call's environment before *)
(* the first argument and the last argument after it; anything but the     *)
(* class fails MultiScriptAssert(type == OT_CLASS).  A lazy registration   *)
(* creates the class slot with sq_createslot(vm, -3) in that same top      *)
(* slot, which the model takes only when it is the root table.             *)
SquirrelPushNewScriptObject(c) ==
  /\ c \in registered \/ Last(stack) = "root"
  /\ IF Last(stack) = "root"
     THEN /\ stack' = Append(stack, "obj")
          /\ numPushed' = numPushed + 1
          /\ registered' = registered \cup {c}
          /\ UNCHANGED fault
     ELSE fault' = "lookup" /\ UNCHANGED <<stack, numPushed, registered>>

(* MultiScriptAssert(!m_call): no new objects on a gmCall.                *)
GMPushNewScriptObject(c) ==
  fault' = "callmode" /\ UNCHANGED <<stack, numPushed, registered>>

(* MultiScriptAssert("Will not implement"): OCaml has no class binding.   *)
OcamlPushNewScriptObject(c) ==
  fault' = "unsupported" /\ UNCHANGED <<stack, numPushed, registered>>

(* lua_isnumber(L, -1) / sq_getinteger(vm, -1): only an integer on top is  *)
(* popped (m_numParams--), whatever m_numParams says.  On an empty frame   *)
(* the slot below the frame base is the running function, not a number.   *)
PopFromVM ==
  IF stack # <<>> /\ Last(stack) \in {"res", "frame"}
  THEN /\ PopSlots(1)
       /\ numParams' = numParams - 1
       /\ UNCHANGED <<phase, numPopped>>
  ELSE /\ phase' = "done"
       /\ UNCHANGED <<stack, numParams, numPopped, fault>>

(* m_numPopped == m_numParams: false; else GetReturnedInt of the returned *)
(* variable, an int whenever the function returned.                        *)
GMPopInt ==
  /\ UNCHANGED <<stack, numParams, fault>>
  /\ IF numPopped = numParams
     THEN phase' = "done" /\ UNCHANGED numPopped
     ELSE numPopped' = numPopped + 1 /\ UNCHANGED phase

(* m_numParams == 0: false; else Int_val(m_result), m_numParams--.         *)
OcamlPopInt ==
  /\ UNCHANGED <<stack, numPopped, fault>>
  /\ IF numParams = 0
     THEN phase' = "done" /\ UNCHANGED numParams
     ELSE numParams' = numParams - 1 /\ UNCHANGED phase

(* Mutant: m_numParams-- before the type test.                            *)
LuaPopIntCountsFirst ==
  IF stack # <<>> /\ Last(stack) \in {"res", "frame"}
  THEN /\ PopSlots(1)
       /\ numParams' = numParams - 1
       /\ UNCHANGED <<phase, numPopped>>
  ELSE /\ phase' = "done"
       /\ numParams' = numParams - 1
       /\ UNCHANGED <<stack, numPopped, fault>>

(* Mutant: the integer is read but not popped.                             *)
LuaPopIntKeepsValue ==
  IF stack # <<>> /\ Last(stack) \in {"res", "frame"}
  THEN /\ numParams' = numParams - 1
       /\ UNCHANGED <<stack, fault, phase, numPopped>>
  ELSE /\ phase' = "done"
       /\ UNCHANGED <<stack, numParams, numPopped, fault>>

LuaPopInt == PopFromVM
SquirrelPopInt == PopFromVM

(* delete this: nothing is popped.                                         *)
LuaReleaseAfterCall == UNCHANGED <<stack, fault>>

(* Mutant: only the function is popped.                                   *)
SquirrelReleaseAfterCallPopsOne == PopSlots(1)

(* sq_pop(vm, 2) "Pop function and root table"; delete this.               *)
SquirrelReleaseAfterCall == PopSlots(2)

(* delete this deletes the gmCall.                                         *)
GMReleaseAfterCall == UNCHANGED <<stack, fault>>

(* MultiScriptAssert(m_isCall), true of every Stack BeginCall makes;       *)
(* delete this.                                                            *)
OcamlReleaseAfterCall == UNCHANGED <<stack, fault>>

(***************************************************************************)
(* Actions of the host (ExecuteScriptFunction_ScriptAdd, main).            *)
(***************************************************************************)

ExecuteString ==
  /\ fault = "none" /\ phase = "idle" /\ calls < MaxCalls
  /\ \E outcome \in {"ok", "syntax", "runtime"}, k \in 0 .. MaxResults :
       ByBackend(LuaExecuteString(outcome, k), GMExecuteString(outcome),
                 SquirrelExecuteString(outcome), OcamlExecuteString(outcome))
  /\ calls' = calls + 1
  /\ UNCHANGED <<backend, registered,
       phase, numPushed, numParams, numPopped>>

(* A new Stack in call mode: m_numPushed = 0, and m_numParams the size of *)
(* the (empty) argument vector.                                            *)
NewCallStack == numPushed' = 0 /\ numParams' = 0 /\ numPopped' = 0

BeginCall ==
  /\ fault = "none" /\ phase = "idle" /\ calls < MaxCalls
  /\ \E lookup \in {"function", "missing", "other"} :
       ByBackend(LuaBeginCall(lookup), GMBeginCall(lookup),
                 SquirrelBeginCall(lookup), OcamlBeginCall(lookup))
  /\ calls' = calls + 1
  /\ NewCallStack
  /\ UNCHANGED <<backend, registered>>

PushInt ==
  /\ fault = "none" /\ phase = "open" /\ numPushed < MaxArgs
  /\ ByBackend(PushToVM, GMPushInt, PushToVM, OcamlPushInt)
  /\ UNCHANGED <<backend, registered, phase, numParams, numPopped,
                 calls, fault>>

(* PushNewScriptObject: a new native object of a class c as an argument.  *)
PushNewScriptObject ==
  /\ fault = "none" /\ phase = "open" /\ numPushed < MaxArgs
  /\ \E c \in Classes :
       ByBackend(LuaPushNewScriptObject(c), GMPushNewScriptObject(c),
                 SquirrelPushNewScriptObject(c), OcamlPushNewScriptObject(c))
  /\ UNCHANGED <<backend, phase, numParams, numPopped, calls>>

EndCall ==
  /\ fault = "none" /\ phase = "open"
  /\ \E failed \in BOOLEAN, k \in 0 .. MaxResults :
       ByBackend(LuaEndCall(failed, k), GMEndCall(failed, k),
                 SquirrelEndCall(failed, k), OcamlEndCall(failed))
  /\ numPopped' = 0
  /\ UNCHANGED <<backend, registered, numPushed, calls>>

PopInt ==
  /\ fault = "none" /\ phase = "returned"
  /\ ByBackend(LuaPopInt, GMPopInt, SquirrelPopInt, OcamlPopInt)
  /\ UNCHANGED <<backend, registered, numPushed, calls>>

(* The ScriptCallPtr destructor, on every return of the host function.     *)
ReleaseAfterCall ==
  /\ fault = "none" /\ phase \in {"returned", "done"}
  /\ ByBackend(LuaReleaseAfterCall, GMReleaseAfterCall,
               SquirrelReleaseAfterCall, OcamlReleaseAfterCall)
  /\ phase' = "idle"
  /\ numPushed' = 0 /\ numParams' = 0 /\ numPopped' = 0
  /\ UNCHANGED <<backend, registered, calls>>

(* The host is done with its calls, or an assertion spins.                 *)
Terminated ==
  /\ \/ fault # "none"
     \/ phase = "idle" /\ calls = MaxCalls
  /\ UNCHANGED vars

Init ==
  /\ backend \in Backends
  /\ registered \in SUBSET Classes
  /\ stack = Frame0
  /\ phase = "idle"
  /\ numPushed = 0 /\ numParams = 0 /\ numPopped = 0
  /\ calls = 0
  /\ fault = "none"

Next ==
  \/ ExecuteString \/ BeginCall \/ PushInt \/ PushNewScriptObject
  \/ EndCall \/ PopInt
  \/ ReleaseAfterCall \/ Terminated

Spec == Init /\ [][Next]_vars

(***************************************************************************)
(* Properties.                                                             *)
(***************************************************************************)

TypeOK ==
  /\ backend \in Backends /\ registered \subseteq Classes
  /\ stack \in Seq(Slot)
  /\ phase \in {"idle", "open", "returned", "done"}
  /\ numPushed \in 0 .. MaxArgs
  /\ numParams \in Nat /\ numPopped \in Nat
  /\ calls \in 0 .. MaxCalls
  /\ fault \in {"none", "assert", "underflow", "register", "lookup", "callmode",
                "arity", "uncaught", "unsupported"}

(* Release restores the interpreter's stack (spec 4.1): whenever no call-  *)
(* mode Stack is open, the frame holds exactly what it held before the     *)
(* host started calling, whatever ExecuteString, EndCall and the pops did. *)
StackBalancedAtRest == phase = "idle" => stack = Frame0

(* No call pops a value it did not push: EndCall, PopInt and              *)
(* ReleaseAfterCall never pop into the frame the call began on.            *)
NoFrameUnderflow == fault # "underflow"

(* EndCall and the ScriptCallPtr release together take the call off the  *)
(* stack (spec 4.1): once a Stack is released, neither the function        *)
(* BeginCall looked up nor any integer or object argument pushed to it is  *)
(* left on the interpreter stack, whether the host popped the results or   *)
(* not and whether the call failed (what Lua leaves are results and error  *)
(* messages, StackBalancedAtRest).                                         *)
CallFrameReleased ==
  (phase = "idle" /\ fault = "none") =>
    \A i \in DOMAIN stack : stack[i] \notin {"fn", "arg", "obj"}

(* Re-entrancy "is expected and must be supported" (spec section 5): a     *)
(* native callback may BeginCall into its context while the frame of its   *)
(* own call still holds arguments it has not popped.  BeginCall never      *)
(* spins on its assertion, from the top level or from a callback's frame. *)
BeginCallAccepted == fault # "assert"

(* The results of the call on top of the stack: the values above the      *)
(* slots the call began on.                                                *)
RECURSIVE TrailingResults(_)
TrailingResults(s) ==
  IF s # <<>> /\ Last(s) \in {"res", "val"}
  THEN 1 + TrailingResults(Front(s))
  ELSE 0

(* After EndCall, GetNumParams is the number of values still available to *)
(* pop (spec 4.1): m_numParams, computed by EndCall from the stack height  *)
(* and decremented by each PopInt, equals the call's results still on top  *)
(* of the stack, whatever earlier calls left below them (GM and OCaml     *)
(* keep results off the interpreter stack).                                *)
ParamCountMatchesStack ==
  (backend \in {"lua", "squirrel"} /\ phase = "returned") => numParams = TrailingResults(stack)

(* PushNewScriptObject makes a native object script-visible, resolving or *)
(* creating its class binding on first use (spec 4.1): pushing a new      *)
(* object as an argument of a call never ends in the MultiScriptAssert of *)
(* RegisterUserClass, of the Squirrel class lookup, of GM's call mode or  *)
(* of OCaml's missing class binding.                                       *)
NewObjectArgumentPushed ==
  fault \notin {"register", "lookup", "callmode", "unsupported"}
====
