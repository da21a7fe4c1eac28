# TLA+ models of multi-script

multi-script (`src/multiscript/`) is a C++ library that binds native functions
and classes to four scripting languages. It has one abstract interface and one
backend per language: Lua, GameMonkey (GM), Squirrel and OCaml. This directory
holds TLA+ models of the library's state machines and the TLC configurations
that check them.

## The system

| part | code | state | operations |
|---|---|---|---|
| Interface, backend selection | `ScriptInterface.h/.cpp` | none (a factory) | `ScriptContext::Create(name)` |
| Context, one per backend | `*ScriptContext.cpp` | the VM, the registered function infos and class infos, the logger | `ExecuteString`, `BeginCall`, `RegisterFunction`, `RegisterUserClass`, `CollectGarbage`, destructor |
| Stack, the marshaling cursor | `*ScriptStack.cpp` | `m_numParams`, `m_numPushed`, call or callback mode, the VM value stack | `Pop*`, `Push*`, `PushNewScriptObject`, `PushScriptObject`, `EndCall`, `ReleaseAfterCall` |
| Script Object, the proxy | `*ScriptContext.h` | `m_objectPtr`, `m_lockedByScript`, the class info, the script-side handle (Lua userdata, GM user object, Squirrel instance) | `Release` |
| Thunks installed in the VM | `*ScriptContext.cpp` | none of their own | constructor, `Destroy()`, GC finalizer (Lua `__gc`, GM GC callback, Squirrel release hook), class method, to-string, free function |
| Host helpers | `ScriptInterface.h` | `ScriptObjectPtr`, `ScriptCallPtr` | `~ScriptObjectPtr` calls `Release`. `~ScriptCallPtr` calls `ReleaseAfterCall` |
| Host test program | `src/multiscript_test/MultiScriptTest.cpp` | `SampleClass` (garbage collected), `NewSampleClass` (a `BaseScriptableClass` that keeps its proxy in a `ScriptObjectPtr`) | constructors, destructors, methods, `ReplaceCPPObject` |

How the parts interact:

- The host creates a context and registers functions and classes.
- Script code calls a class name. The constructor thunk creates the proxy and
  calls the host's constructor callback.
- Script code calls registered native functions. The function thunk builds a
  callback-mode Stack over the runtime's argument frame. The host function
  pops its arguments and pushes its results, and the thunk returns them to
  the script.
- Script code calls methods. Each thunk looks the proxy up and calls the host
  callback with `m_objectPtr`.
- For a class that is not garbage collected, the script calls `Destroy()`.
  The thunk sets `m_lockedByScript`, so the proxy is not freed while the host
  destructor runs; `~ScriptObjectPtr` calls `Release` inside the destructor.
  The thunk then clears `m_objectPtr`.
- When the handle is collected, the finalizer runs. It destroys the native
  object of a garbage-collected class and then frees the proxy.
- Native functions return host objects through `PushNewScriptObject` (a new
  proxy) or `PushScriptObject` (a proxy the host kept).
- The host calls script functions through `BeginCall` / `Push*` / `EndCall` /
  `Pop*` / `ReleaseAfterCall`, usually inside a `ScriptCallPtr`.

The program is single threaded: every thunk runs to completion inside one VM
instruction. The hard behaviours are therefore *orders of calls*, not
concurrency. Hard cases:

- script-side and host-side deletion of the same object;
- `Destroy()` twice;
- a method call after `Destroy()`;
- a finalizer running after a manual destroy;
- a proxy kept by the host after the script let it go;
- context teardown collecting everything that is left;
- the value stack after a failed call.

## Modules

| module | models | status |
|---|---|---|
| `ScriptObjectSpec` | The abstract promise about a Script Object (spec sections 3, 4.3 and 8), the same for every backend. An object is bound once. A non-collected class is destroyed by an explicit `Destroy()` on a reachable object. Collection destroys exactly the bound objects of collected classes. Teardown collects everything. | done |
| `ObjectLifecycle` | The proxy, native object and handle of each object, under the thunks of the Lua, GM and Squirrel backends and the host's own steps. | done |
| `MC_ObjectLifecycle` | Adds a symmetry set over `Objects` for TLC. | done |
| `CallProtocol` | The call-mode Stack and the interpreter's value stack: `ExecuteString`, `BeginCall`, `PushInt`, `PushNewScriptObject` (with the lazy class registration), `EndCall` (success or failure), `PopInt`, and `ReleaseAfterCall`, which is driven through `ScriptCallPtr`. The backend is a variable, so one run covers Lua, Squirrel and OCaml. | done |
| `NativeCallback` | Script code calling native code on all four backends: `RegisterFunction` and `RegisterUserClass` (the context registries), `ExecuteString` (for OCaml with the fake-DLL rebuild), the function thunks, and `PopInt`/`PushInt` of the callback-mode Stack. | done |
| `MC_NativeCallback` | The driver's function descriptors (`PrintInt`, `MyAdd`) and a three-argument one for TLC. | done |

### ObjectLifecycle in detail

State:

- `obj[o]` is a record for each object slot:
  - `proxy` is the `new XScriptObject` allocation: none, live or freed;
  - `cls`;
  - `ptr` stands for `m_objectPtr != NULL`;
  - `native` is the host object: none, alive or deleted;
  - `handle`: none, reachable, garbage or collected;
  - `hooked` says whether a finalizer is installed;
  - `hostRef` says whether `NewSampleClass::m_scriptObject` holds the proxy;
  - `hostOwned`;
  - `dtorCalls`.
- `status` is running, closing (the context destructor is collecting) or
  closed.
- `fault` records why the program stopped:
  - `MultiScriptAssert` failing (it spins forever);
  - a NULL dereference;
  - a use after free.

Each thunk is one operator with the backend function's name. Each operator
returns the object's new record and a fault. The actions apply the thunk of
the context's backend. `backend` is a variable that `Init` chooses from the
cfg's `Backends`, so one run can cover several backends. The actions are:

- `Construct`
- `Destroy`
- `CallMethod`
- `ConvertToString`
- `PushNew`
- `PushExisting`
- `DropReference`
- `Finalize`
- `HostDelete`
- `CloseContext`
- `CloseDone`

The host callbacks are the sample classes' `Generic_Constructor`,
`Generic_Destructor` and `Generic_SetInt`/`GetInt`. They run inside the thunk's
step, because that is where the code calls them. `ScriptObject::Release` and
`~ScriptObjectPtr` run inside the destructor.

Differences between the backends that the model keeps:

- **Method and to-string thunks.** Lua's do not test `m_objectPtr`. GM's and
  Squirrel's assert it.
- **`Destroy()` thunk.** Squirrel's asserts `m_objectPtr`. Lua's and GM's call
  the destructor again.
- **`PushNewScriptObject`.** Squirrel's installs no release hook.
  `PushNew` pushes objects of `Embeds` classes only. A native function
  reaches `PushNewScriptObject` through `BaseScriptableClass::PushScriptObject`,
  as `ReplaceCPPObject` does with a `NewSampleClass`.
- **`PushScriptObject`.** It is `MultiScriptAssert(false)` in Lua and
  Squirrel. In GM it pushes the kept user object.

`Terminated` is the stuttering step once the context is closed or the program
has stopped. It keeps stopped runs from being reported as deadlocks.

### Runs

All runs use two objects and two classes:

- `SampleClass`: garbage collected, no `ScriptObjectPtr`;
- `NewSampleClass`: manually destroyed, a `BaseScriptableClass`.

They also use `MaxDestroyCalls = 2`. That is enough to reach every case the
code distinguishes:

- both kinds of class;
- one object created by a script and one by native code;
- `Destroy()` twice;
- every order of destroy, drop, collect, re-push, host delete and teardown.

Objects are symmetric (model values) except where a liveness property is
checked.

Passing runs:

| run | shows |
|---|---|
| `lifecycle_lua_gm` | Covers both Lua and GM while the host keeps its objects. Both refine `ScriptObjectSpec`, and every collected-class object is deleted by teardown. Lua never touches freed memory (`LuaNoUseAfterFree`): the Destroy thunk holds `m_lockedByScript` while the host destructor re-enters `ScriptObject::Release` through `~ScriptObjectPtr`, so the proxy outlives the callback. GM violates the same property, see `lifecycle_gm_repush`. |
| `lifecycle_squirrel_hostdelete` | Squirrel, even when the host deletes its objects, calls each class destructor at most once per object, across `Destroy()` twice or `Destroy()` followed by collection (`DestructorAtMostOnce`). This relies on the `Destroy()` assertion together with the finalizer's NULL test. |

Violation runs, each one a finding in `PROJECT.json`:

| run | shows |
|---|---|
| `lifecycle_lua_destroyed_method` | Lua calls a method on a destroyed object with `m_objectPtr == NULL`. The spec says the thunk asserts. |
| `lifecycle_gm_repush` | A `NewSampleClass` pushed by native code, then dropped by the script without `Destroy()`, has its proxy freed by the GM finalizer. The host then pushes the freed proxy again. |
| `lifecycle_lua_host_delete` | A native function pushes a new `NewSampleClass` object, then the host deletes it. `~BaseScriptableClass` destroys its `ScriptObjectPtr`, whose `Release` frees the proxy. The script's handle still points to the proxy, and the next method call reads freed memory. |

The model shows two more disagreements. They are recorded as hazards in
`PROJECT.json` but not kept as runs:

- With `Backends = {"gm"}`, `DestructorAtMostOnce` fails because a second
  `Destroy()` runs the destructor again.
- With `Backends = {"squirrel"}`, `CollectedObjectsDeleted` fails because a
  natively pushed object gets no release hook.

Each property of a passing run has a mutant in `PROJECT.json`: a plausible bug
in a mapped thunk that TLC must catch. The mutants are:

- a `Destroy()` thunk that does not set the lock;
- a finalizer that ignores `m_garbageCollect`;
- a finalizer that has no NULL test;
- a method thunk without its assertion;
- a context that frees the interpreter without collecting the remaining
  handles.

### CallProtocol in detail

The host's side follows `ExecuteScriptFunction_ScriptAdd` and the second loop
of `main`:

1. `ExecuteString` to define the function.
2. `BeginCall`.
3. `PushInt` or `PushNewScriptObject` for each argument.
4. `EndCall`.
5. `PopInt` for the results.
6. `ReleaseAfterCall`, from the `ScriptCallPtr` destructor on every return,
   including the early returns after a failed `EndCall` or `PopInt`.

The script is the environment. Each step chooses:

- whether the chunk has a syntax error, raises, or returns `k` values;
- whether the global name is a function, missing, or a non-callable value;
- whether the called function raises, and how many values it returns.

The host also chooses which class a new object argument has. `registered`
holds the classes whose class info the context has (`FindClassInfo`). `Init`
starts from any subset, because the host may or may not have called
`RegisterUserClass` before the call. `PushNewScriptObject` registers a missing
class lazily, as the code does. Each backend's push has its own outcome:

- **Lua.** `RegisterUserClass` ends with `MultiScriptAssert(lua_gettop(L) ==
  0)`.
- **Squirrel.** The class is looked up with `sq_get(vm, -2)` in the slot that
  was on top, so only the first argument finds it. The model leaves out the
  lazy registration of a class on any top other than the root table. That is
  an API error whose stack effect the Squirrel sources would have to settle.
- **GM.** It asserts `!m_call`.
- **OCaml.** It asserts "Will not implement": OCaml has no class binding.

OCaml's call-mode Stack (`OcamlScriptStack` with a closure) keeps its
arguments in `m_values` and its result in `m_result`, so none of its
operations touches `stack`:

- `BeginCall` returns NULL when `caml_named_value` finds nothing under the
  name. Otherwise it opens a Stack on the registered value, which the model
  takes to be a closure (`"other"` opens a Stack too).
- `EndCall` asserts when no argument was pushed. Otherwise it calls
  `caml_callback`, `caml_callback2`, `caml_callback3` or `caml_callbackN`.
  An exception of the closure is not caught there, so the process ends
  (`fault = "uncaught"`). On return it sets `m_numParams = 1`.
- `PopInt` fails once `m_numParams` is 0.

State:

- `stack` is the interpreter's value stack of the host's frame, as a sequence
  of slot kinds: root table, function, argument, new object, integer
  result, null result, error message, or an argument of the enclosing
  callback.
- `phase` is the host's position in the protocol.
- `numPushed`, `numParams` and `numPopped` are the Stack's fields.
- `fault` is set by a failing assertion or by a pop below the frame.

The interpreters' sources are not in the repository. `lua_pcall`, `sq_call`,
`sq_get` and `sq_pop` are therefore taken by their documented stack effects.
For example, a failed `sq_call` pops its parameters, and a successful one
pushes exactly one value. GameMonkey's `gmCall` runs on its own thread, so
GM's operations leave `stack` alone.

| run | expect | shows |
|---|---|---|
| `call_stack_backends` | pass | Covers Lua, Squirrel and OCaml, with integer and new-object arguments. Once `ScriptCallPtr` has released a Stack, neither the called function nor any argument is left on the stack, whether the call failed and whether the host popped its results (`CallFrameReleased`). `GetNumParams` always equals the results still on the stack: on Squirrel the count `topAfter - (topBefore - (m_numPushed + 1))` is exactly the one result, even when earlier calls leaked slots below it. Squirrel pops below the call's frame after a failed call, see `call_squirrel_double_pop`. OCaml satisfies every property of the run; `GetNumParams` is checked on Lua and Squirrel only, because OCaml's count is not a stack height. The run also reaches OCaml's two ways of halting in `EndCall`, the zero-argument assertion and the uncaught exception. Both are hazards in `PROJECT.json`, without a run of their own. |
| `call_stack_leftover` | violation | Covers Lua and Squirrel. A failed `ExecuteString` leaves its error message on the Lua stack, and so does a failed `EndCall`, since `ReleaseAfterCall` pops nothing. On Squirrel, `BeginCall` of a non-callable global leaves the root table; that is the trace TLC reports with `Backends = {"squirrel"}`. `main` calls `ExecuteScriptFunction_ScriptAdd` right after an `ExecuteString` that may have failed, and the next `BeginCall` then stops on `MultiScriptAssert(lua_gettop(L) == 0)`. |
| `call_lua_new_object` | violation | An object of a class not yet registered, pushed as a call argument, makes Lua register the class lazily. `RegisterUserClass` then asserts `lua_gettop(L) == 0` with the function `BeginCall` pushed still on the stack. Spec 4.1 says `PushNewObject` creates the binding lazily. |
| `call_lua_nested` | violation | `FrameArgs = 1`: a native callback with one argument still on its frame calls back into script. Lua's `BeginCall` asserts at once. Spec section 5 says re-entrant calls must be supported. |
| `call_squirrel_double_pop` | violation | A failed `sq_call` makes `EndCall` pop the root table and the function. The `ScriptCallPtr` release then pops two more slots, below the call. |

Bounds:

- `MaxArgs = 2`;
- `MaxResults = 2`;
- 3 to 4 `ExecuteString`/`BeginCall` calls per run.

These are enough for several calls in a row, each with zero to two arguments
and results, so leftovers of one call reach the next. Two classes let one be
registered and the other not. `FrameArgs = 0` means the host calls from top
level, as `main` does. `call_lua_nested` uses `FrameArgs = 1`.

Outside the run set:

- GM's `EndCall` returns true after a script error (`GMEndCall`), and with
  `Backends = {"gm"}` `NewObjectArgumentPushed` fails.
- With `Backends = {"squirrel"}`, `NewObjectArgumentPushed` fails when a new
  object is not the first argument.
- OCaml's `EndCall` halts the host on a call without arguments, and on an
  exception of the called closure. Spec 4.1 asks for `false` in the second
  case.

All three are hazards in `PROJECT.json`.

### NativeCallback in detail

The backend is a variable chosen in `Init` from `Backends`, so one run covers
all four backends. Its state:

- `functions` and `classes` are `m_functions` and `m_classes`, as the
  sequence of descriptors of the appended infos. Every backend appends on
  every call. OCaml refuses a descriptor with more than two parameters, and
  marks `m_dirtyFakedDLL` (`dirty`) on every registration.
- `header` is the set of functions `RebuildFakeDLL` last wrote to
  `FakeDLL.h`. `dllFile` says whether `FakeOcamlDLL.dll` exists; it is fixed
  in `Init`, because the DLL is rebuilt by hand.
- `cb` is the callback-mode Stack of the running native function. Its field
  `vm` is the runtime frame the thunk sees, as typed slots:
  - for Lua, the arguments;
  - for Squirrel, the root table and the arguments, after the thunk popped
    its info pointer;
  - for GM, the values pushed above the thread's parameters;
  - for OCaml it is unused, because the Stack reads `m_values` by index.

  Ghost fields record what the host function popped and pushed.
- `lastCall` holds what the last native function pushed, and what the script
  got back from the thunk's return.

The actions:

- `RegisterFunction` and `RegisterUserClass` run while no script runs, as in
  `main`.
- `ExecuteString`: compiling or running may fail. For OCaml, a dirty context
  rebuilds the header, then gives up if the DLL is missing.
- `ScriptCallsFunction`: the script calls a registered function. On Lua, GM
  and Squirrel it may pass any number of arguments up to `MaxArgs`, since no
  thunk compares the count with `m_numParams`. OCaml's typed externals pass
  exactly the declared arity.
- `PopInt` and `PushInt`: the host function, `PrintInt` or `MyAdd`, pops its
  declared number of integers and pushes their sum if it has a result. It
  returns false at the first failed call.
- `FunctionReturns`: the thunk asserts the result, or hands the results back
  (Lua: the top `m_numPushed` slots; Squirrel and GM: the top slot; OCaml:
  `m_result`).
- `ScriptEnds`.

| run | expect | shows |
|---|---|---|
| `callback` | pass | Lua, GM and Squirrel give a native function its arguments last first (`StackBackendsPopFromTail`). On every backend, a call with enough arguments never trips the thunk's assertion (`WellFormedCallSucceeds`), and the script receives exactly what the function pushed (`ResultIsPushedValue`). An OCaml script only runs when every registered function is in `FakeDLL.h` (`HeaderListsRegisteredFunctions`). |
| `callback_pop_order` | violation | The OCaml Stack reads `m_values[size - m_numParams]`, so `MyAdd(1, 2)` pops 1 first. Spec 4.1 says pops take from the tail. The other backends do so, and `MyAdd` hides the difference by being commutative. |

Bounds:

- `Values = {1, 2}` and `MaxArgs = 3`: three arguments, one more than `MyAdd`
  pops, leave an unpopped argument below the result.
- `MaxRegistrations = 3` allows registering a function after a script has
  run, and registering a descriptor twice.
- `MaxCalls = 4` allows two scripts with a call each, or one script with
  three calls.
- The three-argument descriptor reaches OCaml's refusal, which `RegisterFunction` reports through its return value.

Outside the run set, each a hazard in `PROJECT.json` with a note:

- A retried OCaml `ExecuteString` skips the DLL check that failed the first
  time, because `RebuildFakeDLL` already cleared the flag.
- Two registrations of one descriptor leave two infos. Spec 4.2 says
  registration is idempotent.
- A host function that pushes before it pops reads its own result on Lua and
  Squirrel. `ScriptInterface.h` line 21 prescribes popping first.

### Fairness

`main` in `MultiScriptTest.cpp` always ends by deleting the context, and the
context destructor collects every handle. For Lua this is `lua_close`. For GM
it is `delete gmMachine`. For Squirrel it is `sq_close`. So the model assumes
weak fairness of:

- `CloseContext`;
- `CloseDone`;
- each `Finalize` during closing.

It assumes no fairness of collection while running, because the code never
forces it.

## Not modelled

- **OCaml compiler, loader and runtime.** They are the environment of
  `OcamlExecuteString`, and each may fail. The call mode is modelled in
  `CallProtocol`, with the closure's behaviour as the environment: it raises
  or returns one integer. A unit or tuple result, which `m_numParams = 1`
  misreports, is left out. Also not modelled:
  - `s_instance` with several live contexts (the driver creates one context
    at a time);
  - objects, which are not modelled because the OCaml backend asserts on
    every object operation.
- **Logging and formatting.** `MultiScriptPrintf`, `MultiScriptSprintf`, the
  print callbacks and the error handlers produce text only.
- **The interpreters.** Their garbage collectors are abstracted as "a garbage
  handle may be collected at any step, and every handle is collected at
  teardown".
- **Lazy class registration in callback mode.** `CallProtocol` models it for
  call-mode arguments. `ObjectLifecycle` pushes objects of registered classes
  only, because the driver registers every class before it runs a script.
- **Other value types.** `PushString` and `PopScriptObject` are not modelled,
  in either mode. `PushString` has `PushInt`'s stack effect.
