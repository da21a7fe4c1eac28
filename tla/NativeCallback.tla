---------------------------- MODULE NativeCallback ----------------------------
(***************************************************************************)
(* Script code calling native code in callback mode (spec 4.1, 4.2).  The *)
(* host registers FunctionDescs and ClassDescs with the context while no  *)
(* script runs, then runs ExecuteString; the script calls registered       *)
(* functions, and each call enters the backend's function thunk, which    *)
(* builds a callback-mode Stack over the runtime's argument frame, runs   *)
(* the host function (PopInt for each argument, PushInt for its result),  *)
(* asserts that it returned true and hands the pushed values back to the  *)
(* script.                                                                 *)
(*                                                                         *)
(* The host functions are the driver's PrintInt and MyAdd: pop the        *)
(* declared number of integers, returning false at the first failed pop,  *)
(* then push their sum when the function has a result.  A script may pass *)
(* any number of arguments on Lua, GameMonkey and Squirrel, which never    *)
(* compare it with m_numParams; OCaml's typed externals pass exactly the   *)
(* declared arity.  The OCaml context compiles scripts with ocamlc against *)
(* FakeOcamlDLL.dll, whose header RebuildFakeDLL regenerates from the      *)
(* registered functions; dllFile says whether the built DLL exists.        *)
(***************************************************************************)
EXTENDS Integers, Sequences, FiniteSets

LOCAL INSTANCE SequencesExt

CONSTANTS
  Backends,          \* backends a context may be created for
  Functions,         \* FunctionDescs: [numParams |-> n, results |-> 0 or 1]
  Classes,           \* ClassDescs the host may register
  Values,            \* integers scripts pass as arguments
  MaxArgs,           \* bound on the arguments of one script call
  MaxRegistrations,  \* bound on RegisterFunction and RegisterUserClass calls
  MaxCalls           \* bound on ExecuteString and script-to-native calls

ASSUME Backends \subseteq {"lua", "gm", "squirrel", "ocaml"}
ASSUME \A d \in Functions : d.numParams \in Nat /\ d.results \in {0, 1}
ASSUME Values \subseteq Int
ASSUME MaxArgs \in Nat /\ MaxRegistrations \in Nat /\ MaxCalls \in Nat

VARIABLES
  backend,    \* the language the context was created for
  functions,  \* m_functions: the descriptors of the function infos, in order
  classes,    \* m_classes: the descriptors of the class infos, in order
  dirty,      \* OcamlScriptContext::m_dirtyFakedDLL
  header,     \* the functions listed in FakeDLL.h by the last RebuildFakeDLL
  dllFile,    \* FakeOcamlDLL.dll exists
  phase,      \* "idle", "running" (a script runs), "callback" (a native
              \* function runs under the script), "halted" (an assertion)
  cb,         \* the callback-mode Stack of the running native function
  lastCall,   \* what the last completed native function pushed and what
              \* the script received from it
  calls       \* ExecuteString and script-to-native calls so far

vars == <<backend, functions, classes, dirty, header, dllFile, phase, cb,
          lastCall, calls>>

(* Runtime stack slots by their type tag (lua_type, sq_gettype).           *)
IntSlot(v) == [type |-> "integer", val |-> v]
RootTable == [type |-> "table", val |-> 0]
UserPointer == [type |-> "userpointer", val |-> 0]

(* A callback-mode Stack.  vm is the runtime frame the thunk sees, bottom  *)
(* first (for GameMonkey the values pushed above the thread's parameters). *)
(* popped and pushed are what the host function got and gave; failed: a    *)
(* PopInt or PushInt returned false, so the host function returns false.  *)
NewStack(d, args) ==
  [fn |-> d, args |-> args, vm |-> <<>>, numParams |-> 0, numPopped |-> 0,
   numPushed |-> 0, result |-> "unit", popped |-> <<>>, pushed |-> <<>>,
   failed |-> FALSE]

NoCall == NewStack([numParams |-> 0, results |-> 0], <<>>)

Sum(s) == LET add(a, b) == a + b IN FoldLeft(add, 0, s)

IntSlots(args) == [i \in DOMAIN args |-> IntSlot(args[i])]

ByBackend(lua, gm, squirrel, ocaml) ==
  CASE backend = "lua" -> lua [] backend = "gm" -> gm
    [] backend = "squirrel" -> squirrel [] OTHER -> ocaml

(***************************************************************************)
(* Registration.  Every backend appends a new info on every call.         *)
(***************************************************************************)

(* lua_pushcclosure(LuaFunctionCallback) with the info as upvalue, stored  *)
(* as the global of the descriptor's name, then m_functions.push_back.    *)
LuaRegisterFunction(d) ==
  /\ functions' = Append(functions, d) /\ UNCHANGED <<dirty, header>>

(* RegisterLibraryFunction(GMFunctionCallback) with the info as user data. *)
GMRegisterFunction(d) ==
  /\ functions' = Append(functions, d) /\ UNCHANGED <<dirty, header>>

(* sq_newclosure(SquirrelFunctionCallback) with the info as free variable, *)
(* created as a slot of the root table.                                    *)
SquirrelRegisterFunction(d) ==
  /\ functions' = Append(functions, d) /\ UNCHANGED <<dirty, header>>

OcamlRegisterFunctionKeepsDLL(d) ==
  IF d.numParams > 2 THEN UNCHANGED <<functions, dirty, header>>
  ELSE /\ functions' = Append(functions, d) /\ UNCHANGED <<dirty, header>>

(* A C primitive exists for 0, 1 and 2 arguments only; any other arity is *)
(* refused.  Otherwise the info is appended and the DLL marked dirty.     *)
OcamlRegisterFunction(d) ==
  IF d.numParams > 2 THEN UNCHANGED <<functions, dirty, header>>
  ELSE /\ functions' = Append(functions, d)
       /\ dirty' = TRUE
       /\ UNCHANGED header

(* Metatable, method table, __gc, __tostring, Destroy and __call thunks.   *)
LuaRegisterUserClass(c) == classes' = Append(classes, c)

(* CreateUserType, the method table and the GC callbacks.                  *)
GMRegisterUserClass(c) == classes' = Append(classes, c)

(* sq_newclass with the methods, constructor, AsString and Destroy slots.  *)
SquirrelRegisterUserClass(c) == classes' = Append(classes, c)

(* The info alone: OCaml binds no classes.                                 *)
OcamlRegisterUserClass(c) == classes' = Append(classes, c)

(***************************************************************************)
(* The function thunks: the callback-mode Stack each one builds.          *)
(***************************************************************************)

(* The closure's frame holds the arguments; lua_gettop counts them.        *)
LuaFunctionCallback(d, args) ==
  [NewStack(d, args) EXCEPT !.vm = IntSlots(args), !.numParams = Len(args)]

(* The thread's parameters stay in place; pushes go above them.            *)
GMFunctionCallback(d, args) ==
  [NewStack(d, args) EXCEPT !.numParams = Len(args)]

SquirrelFunctionCallbackKeepsPointer(d, args) ==
  LET frame == <<RootTable>> \o IntSlots(args) \o <<UserPointer>>
  IN  [NewStack(d, args) EXCEPT !.vm = frame, !.numParams = Len(frame) - 1]

(* The frame is the environment (root table), the arguments and the free  *)
(* variable; the thunk pops the info pointer, and the Stack counts the     *)
(* rest except the root table.                                             *)
SquirrelFunctionCallback(d, args) ==
  LET frame == <<RootTable>> \o IntSlots(args)
  IN  [NewStack(d, args) EXCEPT !.vm = frame, !.numParams = Len(frame) - 1]

(* OcamlFunctionCallback<n>: the values a0 .. a(n-1) in order.             *)
OcamlFunctionCallback(d, args) ==
  [NewStack(d, args) EXCEPT !.numParams = Len(args)]

(***************************************************************************)
(* PopInt and PushInt in callback mode.                                    *)
(***************************************************************************)

Failed(c) == [c EXCEPT !.failed = TRUE]

SquirrelPopIntUnchecked(c) ==
  IF c.vm = <<>> THEN Failed(c)
  ELSE [c EXCEPT !.vm = Front(@), !.numParams = @ - 1,
                 !.popped = Append(@, Last(c.vm).val)]

(* lua_isnumber(L, -1), lua_tointeger, lua_pop; Squirrel's sq_getinteger  *)
(* on the top and sq_pop.  Neither compares with m_numParams.             *)
TopPopInt(c) ==
  IF c.vm = <<>> \/ Last(c.vm).type # "integer" THEN Failed(c)
  ELSE [c EXCEPT !.vm = Front(@), !.numParams = @ - 1,
                 !.popped = Append(@, Last(c.vm).val)]

LuaPopInt(c) == TopPopInt(c)
SquirrelPopInt(c) == TopPopInt(c)

GMPopIntFromFront(c) ==
  IF c.numPopped = c.numParams THEN Failed(c)
  ELSE [c EXCEPT !.numPopped = @ + 1,
                 !.popped = Append(@, c.args[c.numPopped + 1])]

(* ParamInt(m_numParams - m_numPopped - 1) after the m_numPopped check.    *)
GMPopInt(c) ==
  IF c.numPopped = c.numParams THEN Failed(c)
  ELSE [c EXCEPT !.numPopped = @ + 1,
                 !.popped = Append(@, c.args[c.numParams - c.numPopped])]

(* m_values[m_values.size() - m_numParams]: the first unread argument.     *)
OcamlPopInt(c) ==
  IF c.numParams = 0 THEN Failed(c)
  ELSE [c EXCEPT !.numParams = @ - 1,
                 !.popped = Append(@, c.args[Len(c.args) - c.numParams + 1])]

(* lua_pushinteger / sq_pushinteger / gmThread::PushInt: a new top slot.   *)
PushSlot(c, v) ==
  [c EXCEPT !.vm = Append(@, IntSlot(v)), !.numPushed = @ + 1,
            !.pushed = Append(@, v)]

LuaPushInt(c, v) == PushSlot(c, v)
SquirrelPushInt(c, v) == PushSlot(c, v)

(* GMScriptStack::PushInt does not count the push.                         *)
GMPushInt(c, v) == [c EXCEPT !.vm = Append(@, IntSlot(v)), !.pushed = Append(@, v)]

(* m_result holds the one result; a second push returns false.             *)
OcamlPushInt(c, v) ==
  IF c.numPushed = 1 THEN Failed(c)
  ELSE [c EXCEPT !.result = v, !.numPushed = @ + 1, !.pushed = Append(@, v)]

(***************************************************************************)
(* What the script receives when the thunk returns.                        *)
(***************************************************************************)

LuaCallbackResultsNone(c) == <<>>

(* return stack.m_numPushed: the top m_numPushed slots are the results.    *)
LuaCallbackResults(c) ==
  [i \in 1 .. c.numPushed |-> c.vm[Len(c.vm) - c.numPushed + i].val]

(* A native closure returning 1 returns the top slot.                       *)
SquirrelCallbackResults(c) ==
  IF c.numPushed > 0 THEN <<Last(c.vm).val>> ELSE <<>>

(* GM_OK: the function's value is the top of what it pushed, if anything. *)
GMCallbackResults(c) == IF c.vm # <<>> THEN <<Last(c.vm).val>> ELSE <<>>

(* CAMLreturn(stack.m_result): Val_unit when nothing was pushed.           *)
OcamlCallbackResults(c) == IF c.numPushed > 0 THEN <<c.result>> ELSE <<>>

(***************************************************************************)
(* OCaml ExecuteString.                                                    *)
(***************************************************************************)

(* Writes every registered function into FakeDLL.h and clears the flag;   *)
(* the DLL itself is rebuilt from the header by hand.                     *)
RebuildFakeDLL ==
  /\ header' = ToSet(functions)
  /\ dirty' = FALSE

(* A dirty context rebuilds the header and gives up when the DLL is        *)
(* missing; then the source is written, compiled with ocamlc, loaded and   *)
(* run, each step able to fail (ok = FALSE).                               *)
OcamlExecuteString(ok) ==
  IF dirty
  THEN /\ RebuildFakeDLL
       /\ phase' = IF dllFile /\ ok THEN "running" ELSE "idle"
  ELSE /\ UNCHANGED <<dirty, header>>
       /\ phase' = IF ok THEN "running" ELSE "idle"

(***************************************************************************)
(* Actions.                                                                *)
(***************************************************************************)

(* The host registers functions and classes while no script runs.          *)
RegisterFunction(d) ==
  /\ phase = "idle"
  /\ Len(functions) + Len(classes) < MaxRegistrations
  /\ ByBackend(LuaRegisterFunction(d), GMRegisterFunction(d),
               SquirrelRegisterFunction(d), OcamlRegisterFunction(d))
  /\ UNCHANGED <<backend, classes, dllFile, phase, cb, lastCall, calls>>

(* The constructor and destructor of every ClassDesc are set, so the       *)
(* assertions at the start of RegisterUserClass hold.                      *)
RegisterUserClass(c) ==
  /\ phase = "idle"
  /\ Len(functions) + Len(classes) < MaxRegistrations
  /\ ByBackend(LuaRegisterUserClass(c), GMRegisterUserClass(c),
               SquirrelRegisterUserClass(c), OcamlRegisterUserClass(c))
  /\ UNCHANGED <<backend, functions, dirty, header, dllFile, phase, cb,
                 lastCall, calls>>

(* ExecuteString: compiling or loading the text may fail.                  *)
ExecuteString ==
  /\ phase = "idle"
  /\ calls < MaxCalls
  /\ calls' = calls + 1
  /\ \E ok \in BOOLEAN :
       IF backend = "ocaml" THEN OcamlExecuteString(ok)
       ELSE /\ phase' = IF ok THEN "running" ELSE "idle"
            /\ UNCHANGED <<dirty, header>>
  /\ UNCHANGED <<backend, functions, classes, dllFile, cb, lastCall>>

(* The running script calls a registered function with integer arguments  *)
(* and the backend's thunk builds the callback-mode Stack.                 *)
ScriptCallsFunction ==
  /\ phase = "running"
  /\ calls < MaxCalls
  /\ \E d \in ToSet(functions) :
     \E args \in IF backend = "ocaml" THEN [1 .. d.numParams -> Values]
                 ELSE BoundedSeq(Values, MaxArgs) :
       /\ cb' = ByBackend(LuaFunctionCallback(d, args),
                          GMFunctionCallback(d, args),
                          SquirrelFunctionCallback(d, args),
                          OcamlFunctionCallback(d, args))
  /\ phase' = "callback"
  /\ calls' = calls + 1
  /\ UNCHANGED <<backend, functions, classes, dirty, header, dllFile,
                 lastCall>>

(* The host function's next PopInt: it pops until it has its arguments.    *)
PopInt ==
  /\ phase = "callback"
  /\ ~cb.failed /\ Len(cb.popped) < cb.fn.numParams
  /\ cb' = ByBackend(LuaPopInt(cb), GMPopInt(cb), SquirrelPopInt(cb),
                     OcamlPopInt(cb))
  /\ UNCHANGED <<backend, functions, classes, dirty, header, dllFile, phase,
                 lastCall, calls>>

(* MyAdd pushes a + b once both pops succeeded.                            *)
PushInt ==
  /\ phase = "callback"
  /\ ~cb.failed /\ Len(cb.popped) = cb.fn.numParams
  /\ Len(cb.pushed) < cb.fn.results
  /\ LET v == Sum(cb.popped)
     IN  cb' = ByBackend(LuaPushInt(cb, v), GMPushInt(cb, v),
                         SquirrelPushInt(cb, v), OcamlPushInt(cb, v))
  /\ UNCHANGED <<backend, functions, classes, dirty, header, dllFile, phase,
                 lastCall, calls>>

(* The host function returns false after a failed PopInt or PushInt, true *)
(* when done; MultiScriptAssert(result) halts on false, otherwise the      *)
(* thunk hands the results to the script.                                  *)
FunctionReturns ==
  /\ phase = "callback"
  /\ \/ cb.failed
     \/ Len(cb.popped) = cb.fn.numParams /\ Len(cb.pushed) = cb.fn.results
  /\ IF cb.failed
     THEN /\ phase' = "halted" /\ UNCHANGED lastCall
     ELSE /\ phase' = "running"
          /\ lastCall' = [pushed |-> cb.pushed,
                          returned |-> ByBackend(LuaCallbackResults(cb),
                                                 GMCallbackResults(cb),
                                                 SquirrelCallbackResults(cb),
                                                 OcamlCallbackResults(cb))]
  /\ UNCHANGED <<backend, functions, classes, dirty, header, dllFile, cb,
                 calls>>

(* The script finishes and ExecuteString returns.                          *)
ScriptEnds ==
  /\ phase = "running"
  /\ phase' = "idle"
  /\ cb' = NoCall
  /\ UNCHANGED <<backend, functions, classes, dirty, header, dllFile,
                 lastCall, calls>>

(* A halted process, or a host with nothing left to do.                    *)
Terminated ==
  /\ \/ phase = "halted"
     \/ phase = "idle" /\ calls = MaxCalls
        /\ Len(functions) + Len(classes) = MaxRegistrations
  /\ UNCHANGED vars

Init ==
  /\ backend \in Backends
  /\ functions = <<>> /\ classes = <<>>
  /\ dirty = TRUE /\ header = {}
  /\ dllFile \in IF backend = "ocaml" THEN BOOLEAN ELSE {TRUE}
  /\ phase = "idle"
  /\ cb = NoCall
  /\ lastCall = [pushed |-> <<>>, returned |-> <<>>]
  /\ calls = 0

Next ==
  \/ \E d \in Functions : RegisterFunction(d)
  \/ \E c \in Classes : RegisterUserClass(c)
  \/ ExecuteString
  \/ ScriptCallsFunction
  \/ PopInt
  \/ PushInt
  \/ FunctionReturns
  \/ ScriptEnds
  \/ Terminated

Spec == Init /\ [][Next]_vars

(***************************************************************************)
(* Properties.                                                             *)
(***************************************************************************)

TypeOK ==
  /\ backend \in Backends
  /\ functions \in Seq(Functions) /\ classes \in Seq(Classes)
  /\ dirty \in BOOLEAN /\ dllFile \in BOOLEAN
  /\ header \subseteq Functions
  /\ phase \in {"idle", "running", "callback", "halted"}
  /\ cb.popped \in Seq(Values) /\ cb.args \in Seq(Values)
  /\ cb.pushed \in Seq(Int)
  /\ lastCall.pushed \in Seq(Int) /\ lastCall.returned \in Seq(Int)
  /\ calls \in 0 .. MaxCalls

(* The first n values of the pending sequence taken from its tail: the     *)
(* last argument first.                                                    *)
RECURSIVE TailFirst(_, _)
TailFirst(s, n) ==
  IF n = 0 \/ s = <<>> THEN <<>>
  ELSE <<Last(s)>> \o TailFirst(Front(s), n - 1)

(* PopInt consumes from the tail of the pending sequence (spec 4.1): the   *)
(* k-th value a native function pops is the k-th argument from the end of  *)
(* the script's call, on every backend.                                    *)
PopsFromTail ==
  phase \in {"callback", "halted"} =>
    cb.popped = TailFirst(cb.args, Len(cb.popped))

(* On the backends whose callback Stack reads the runtime's own frame     *)
(* (Lua and Squirrel from the top, after Squirrel's thunk popped its info  *)
(* pointer; GameMonkey by parameter index), the host function receives the *)
(* script's arguments last first.                                          *)
StackBackendsPopFromTail == backend # "ocaml" => PopsFromTail

(* A native function called with at least as many integer arguments as it *)
(* pops never trips the thunk's MultiScriptAssert(result): only a call     *)
(* with too few arguments makes a PopInt fail.                             *)
WellFormedCallSucceeds ==
  phase = "halted" => Len(cb.args) < cb.fn.numParams

(* The script receives exactly the values the native function pushed: the *)
(* thunk's return count and the backend's result slot agree with the       *)
(* Stack's PushInt calls, whatever arguments were left unpopped below.     *)
ResultIsPushedValue == lastCall.returned = lastCall.pushed

(* Whenever an OCaml script runs, FakeDLL.h lists every function the host  *)
(* registered: RegisterFunction marks the DLL dirty and ExecuteString      *)
(* rebuilds a dirty header before compiling.                               *)
HeaderListsRegisteredFunctions ==
  (backend = "ocaml" /\ phase \in {"running", "callback"})
    => ToSet(functions) \subseteq header
====
