--------------------------- MODULE ObjectLifecycle ---------------------------
(***************************************************************************)
(* Life cycle of a Script Object: the proxy (LuaScriptObject,              *)
(* GMScriptObject, SquirrelScriptObject) that binds a native object        *)
(* (m_objectPtr) to a script-side handle (Lua userdata, GM user object,    *)
(* Squirrel instance) in one script context.                               *)
(*                                                                         *)
(* One action per thunk the binding layer installs (constructor, Destroy,  *)
(* GC finalizer, class method, to-string), per Stack call that exposes a   *)
(* native object (PushNewScriptObject, PushScriptObject), per host step    *)
(* (deleting a host-owned object, closing the context), plus the script   *)
(* dropping its last reference.  Every thunk runs to completion in one     *)
(* step: the system is single threaded and the host callbacks the thunks   *)
(* call are the sample classes of MultiScriptTest.cpp, modelled inside the *)
(* step.  A thunk that reaches undefined behaviour (a freed proxy or a     *)
(* deleted native object touched, NULL dereferenced) or a failing          *)
(* MultiScriptAssert (an endless loop) ends the run, with the cause in    *)
(* fault.                                                                  *)
(***************************************************************************)
EXTENDS Naturals, FiniteSets

CONSTANTS
  Backends,        \* ScriptContext::Create keys: "lua", "gm", "squirrel"
  Objects,         \* identities of the proxies that may be created
  Classes,         \* registered ClassDesc descriptors
  GC,              \* classes with m_garbageCollect = true
  Embeds,          \* classes whose native object holds a ScriptObjectPtr
                   \* to its own proxy (BaseScriptableClass)
  HostDeletes,     \* whether the host deletes the objects it created
  NoClass,         \* cls of a proxy slot not yet used
  MaxDestroyCalls  \* bound on the Destroy()/finalizer calls per object

ASSUME Backends \subseteq {"lua", "gm", "squirrel"}
ASSUME GC \subseteq Classes /\ Embeds \subseteq Classes
ASSUME NoClass \notin Classes
ASSUME HostDeletes \in BOOLEAN /\ MaxDestroyCalls \in Nat \ {0}

VARIABLES
  backend, \* the backend the context was created for
  obj,     \* obj[o]: the proxy o, its native object and its handles
  status,  \* "running", "closing" (context destructor), "closed"
  fault    \* "none", or why the program stopped: "assert" (a failed
           \* MultiScriptAssert spins), "nullDeref", "useAfterFree"

vars == <<backend, obj, status, fault>>

Faults == {"none", "assert", "nullDeref", "useAfterFree"}

(***************************************************************************)
(* Fields of obj[o]:                                                       *)
(*   proxy     the ScriptObject allocation: "none", "live", "freed"        *)
(*   cls       its ClassDesc                                               *)
(*   ptr       m_objectPtr # NULL                                          *)
(*   native    the host object: "none", "alive", "deleted"                 *)
(*   handle    the script-side handle: "none", "reachable", "garbage"      *)
(*             (unreachable, not yet collected), "collected"               *)
(*   hooked    the runtime calls the GC callback when it collects handle   *)
(*   hostRef   the native object's ScriptObjectPtr m_scriptObject holds o  *)
(*   hostOwned the host created the native object and keeps a pointer     *)
(*   dtorCalls number of calls of the class's m_destructor on o            *)
(***************************************************************************)
ObjRecord ==
  [proxy: {"none", "live", "freed"}, cls: Classes \cup {NoClass},
   ptr: BOOLEAN, native: {"none", "alive", "deleted"},
   handle: {"none", "reachable", "garbage", "collected"},
   hooked: BOOLEAN, hostRef: BOOLEAN, hostOwned: BOOLEAN,
   dtorCalls: 0 .. MaxDestroyCalls]

Unused ==
  [proxy |-> "none", cls |-> NoClass, ptr |-> FALSE, native |-> "none",
   handle |-> "none", hooked |-> FALSE, hostRef |-> FALSE,
   hostOwned |-> FALSE, dtorCalls |-> 0]

(* The result of a thunk: the new record of its object and a fault.       *)
Ok(r) == [r |-> r, fault |-> "none"]
Fail(r, f) == [r |-> r, fault |-> f]

(***************************************************************************)
(* Host side: ScriptObject::Release, ScriptObjectPtr and the sample       *)
(* classes' constructor and destructor.                                    *)
(***************************************************************************)

(* LuaScriptObject::Release (same in GM and Squirrel): delete this unless  *)
(* a destructor thunk holds m_lockedByScript.  Reading the flag of a freed *)
(* proxy is a use after free.                                              *)
Release(r, lockedByScript) ==
  IF r.proxy = "freed" THEN Fail(r, "useAfterFree")
  ELSE IF lockedByScript THEN Ok(r)
  ELSE Ok([r EXCEPT !.proxy = "freed"])

(* ~ScriptObjectPtr, run when a BaseScriptableClass object is deleted.     *)
ScriptObjectPtrDestructor(r, lockedByScript) ==
  IF r.hostRef
  THEN LET rel == Release(r, lockedByScript)
       IN  [rel EXCEPT !.r.hostRef = FALSE]
  ELSE Ok(r)

(* A new proxy of class c bound to a new native object and pushed to the  *)
(* script; a BaseScriptableClass object keeps it in its ScriptObjectPtr.   *)
BoundProxy(c, hooked, hostOwned) ==
  [proxy |-> "live", cls |-> c, ptr |-> TRUE, native |-> "alive",
   handle |-> "reachable", hooked |-> hooked, hostRef |-> c \in Embeds,
   hostOwned |-> hostOwned, dtorCalls |-> 0]

(* Generic_Constructor of SampleClass / NewSampleClass: new native object, *)
(* SetScriptObject(scriptObject) for a BaseScriptableClass, m_objectPtr.   *)
(* The constructor thunk has made the proxy and gives it a finalizer.      *)
Generic_Constructor(c) == BoundProxy(c, TRUE, FALSE)

(* Generic_Destructor: returns at once when m_objectPtr is NULL, else      *)
(* deletes the native object (whose ScriptObjectPtr releases the proxy).   *)
Generic_Destructor(r, lockedByScript) ==
  LET called == [r EXCEPT !.dtorCalls = @ + 1]
  IN  IF ~r.ptr THEN Ok(called)
      ELSE IF r.native = "deleted" THEN Fail(called, "useAfterFree")
      ELSE ScriptObjectPtrDestructor([called EXCEPT !.native = "deleted"],
                                     lockedByScript)
(***************************************************************************)
(* Thunks of the binding layer, one operator per backend function.         *)
(***************************************************************************)

LuaClassConstructorCallback(c) == Generic_Constructor(c)

(* GM: PushNewUser, then the constructor; GC callbacks set at registration *)
GMClassConstructorCallback(c) == Generic_Constructor(c)

(* Squirrel: sq_setinstanceup and sq_setreleasehook after the constructor *)
SquirrelClassConstructorCallback(c) == Generic_Constructor(c)

(* Mutant: the Destroy thunk does not set m_lockedByScript.               *)
LockedDestroyUnlocked(r) ==
  LET d == Generic_Destructor(r, FALSE)
  IN  IF d.fault # "none" THEN d
      ELSE IF d.r.proxy = "freed" THEN Fail(d.r, "useAfterFree")
      ELSE Ok([d.r EXCEPT !.ptr = FALSE])

(* m_lockedByScript = true; m_destructor; m_lockedByScript = false;        *)
(* m_objectPtr = NULL.  The last two write to the proxy.                   *)
LockedDestroy(r) ==
  LET d == Generic_Destructor(r, TRUE)
  IN  IF d.fault # "none" THEN d
      ELSE IF d.r.proxy = "freed" THEN Fail(d.r, "useAfterFree")
      ELSE Ok([d.r EXCEPT !.ptr = FALSE])

(* Destroy(): PopObjectData reads the proxy; no test of m_objectPtr.       *)
LuaClassDestructorCallback(r) ==
  IF r.proxy = "freed" THEN Fail(r, "useAfterFree") ELSE LockedDestroy(r)

(* Destroy(): ThisUser_NoChecks; no test of m_objectPtr.                   *)
GMClassDestructorCallback(r) ==
  IF r.proxy = "freed" THEN Fail(r, "useAfterFree") ELSE LockedDestroy(r)

(* Mutant: Squirrel's Destroy() without its assertion.                     *)
SquirrelDestroyUnchecked(r) ==
  IF r.proxy = "freed" THEN Fail(r, "useAfterFree") ELSE LockedDestroy(r)

(* Destroy(): MultiScriptAssert(scriptObject->m_objectPtr) first.          *)
SquirrelClassDestructorCallback(r) ==
  IF r.proxy = "freed" THEN Fail(r, "useAfterFree")
  ELSE IF ~r.ptr THEN Fail(r, "assert")
  ELSE LockedDestroy(r)

(* Mutant: the finalizer destroys whatever the class's m_garbageCollect.  *)
ClassGCCallbackIgnoresFlag(r) ==
  IF r.proxy = "freed" THEN Fail(r, "useAfterFree")
  ELSE IF ~r.ptr THEN Ok([r EXCEPT !.proxy = "freed"])
  ELSE LET d == Generic_Destructor(r, TRUE)
       IN  IF d.fault # "none" THEN d ELSE Ok([d.r EXCEPT !.proxy = "freed"])

(* Mutant: the finalizer has no early return for a destroyed object.      *)
ClassGCCallbackNoNullTest(r) ==
  IF r.proxy = "freed" THEN Fail(r, "useAfterFree")
  ELSE IF r.cls \in GC \/ ~r.ptr
       THEN LET d == Generic_Destructor(r, TRUE)
            IN  IF d.fault # "none" THEN d
                ELSE Ok([d.r EXCEPT !.proxy = "freed"])
       ELSE Ok([r EXCEPT !.proxy = "freed"])

(* The finalizer: a proxy already destroyed is only freed; a live one of a *)
(* garbage collected class is destroyed (lock set, never cleared) and      *)
(* freed; a live one of a manually destroyed class is freed and its        *)
(* native object left alone.                                               *)
LuaClassGCCallback(r) ==
  IF r.proxy = "freed" THEN Fail(r, "useAfterFree")
  ELSE IF ~r.ptr THEN Ok([r EXCEPT !.proxy = "freed"])
  ELSE IF r.cls \in GC
       THEN LET d == Generic_Destructor(r, TRUE)
            IN  IF d.fault # "none" THEN d
                ELSE Ok([d.r EXCEPT !.proxy = "freed"])
       ELSE Ok([r EXCEPT !.proxy = "freed"])

(* Same control flow as the Lua finalizer.                                 *)
GMClassGCCallback(r) == LuaClassGCCallback(r)

(* Same control flow as the Lua finalizer (the release hook).              *)
SquirrelClassGCCallback(r) == LuaClassGCCallback(r)

(* A method or to-string thunk calling the host callback on r with result *)
(* ok.  checksPtr: the thunk asserts m_objectPtr before the call; without  *)
(* it the host callback dereferences NULL.                                 *)
InvokeOnObject(r, ok, checksPtr) ==
  IF r.proxy = "freed" THEN Fail(r, "useAfterFree")
  ELSE IF ~r.ptr THEN Fail(r, IF checksPtr THEN "assert" ELSE "nullDeref")
  ELSE IF r.native = "deleted" THEN Fail(r, "useAfterFree")
  ELSE IF ~ok THEN Fail(r, "assert")
  ELSE Ok(r)

LuaClassMethodCallback(r, ok) == InvokeOnObject(r, ok, FALSE)
LuaClassToStringMethodCallback(r, ok) == InvokeOnObject(r, ok, FALSE)
GMClassMethodCallback(r, ok) == InvokeOnObject(r, ok, TRUE)
GMClassToStringMethodCallback(r, ok) == InvokeOnObject(r, ok, TRUE)
SquirrelClassMethodCallback(r, ok) == InvokeOnObject(r, ok, TRUE)
SquirrelClassToStringMethodCallback(r, ok) == InvokeOnObject(r, ok, TRUE)

(* Stack::PushNewScriptObject from a native callback: a proxy for a host   *)
(* object.  Lua sets the metatable (with __gc), GM makes a user object of  *)
(* the class's type; Squirrel sets no release hook.                        *)
LuaPushNewScriptObject(c) == BoundProxy(c, TRUE, TRUE)
GMPushNewScriptObject(c) == BoundProxy(c, TRUE, TRUE)
SquirrelPushNewScriptObject(c) == BoundProxy(c, FALSE, TRUE)

(* Stack::PushScriptObject of a proxy the host kept: unimplemented in Lua  *)
(* and Squirrel (MultiScriptAssert(false)); GM pushes its user object.     *)
LuaPushScriptObject(r) == Fail(r, "assert")
SquirrelPushScriptObject(r) == Fail(r, "assert")
GMPushScriptObject(r) ==
  IF r.proxy = "freed" THEN Fail(r, "useAfterFree")
  ELSE Ok([r EXCEPT !.handle = "reachable"])

(* The thunk of the context's backend.                                     *)
ByBackend(lua, gm, squirrel) ==
  CASE backend = "lua" -> lua [] backend = "gm" -> gm [] OTHER -> squirrel

(***************************************************************************)
(* Actions.                                                                *)
(***************************************************************************)

(* Installs the outcome of a thunk run on o.                               *)
Apply(o, out) ==
  /\ obj' = [obj EXCEPT ![o] = out.r]
  /\ fault' = out.fault
  /\ UNCHANGED <<backend, status>>

(* Script code calls the class name: the constructor thunk.                *)
Construct(o, c) ==
  /\ status = "running" /\ fault = "none"
  /\ obj[o].proxy = "none"
  /\ Apply(o, Ok(ByBackend(LuaClassConstructorCallback(c),
                           GMClassConstructorCallback(c),
                           SquirrelClassConstructorCallback(c))))

(* Script code calls o.Destroy(), installed for non collected classes.     *)
Destroy(o) ==
  /\ status = "running" /\ fault = "none"
  /\ obj[o].handle = "reachable"
  /\ obj[o].cls \notin GC
  /\ obj[o].dtorCalls < MaxDestroyCalls
  /\ Apply(o, ByBackend(LuaClassDestructorCallback(obj[o]),
                        GMClassDestructorCallback(obj[o]),
                        SquirrelClassDestructorCallback(obj[o])))

(* Script code calls a registered method of o; its host callback returns ok *)
CallMethod(o, ok) ==
  /\ status = "running" /\ fault = "none"
  /\ obj[o].handle = "reachable"
  /\ Apply(o, ByBackend(LuaClassMethodCallback(obj[o], ok),
                        GMClassMethodCallback(obj[o], ok),
                        SquirrelClassMethodCallback(obj[o], ok)))

(* Script code converts o to a string (__tostring / AsString()).           *)
ConvertToString(o, ok) ==
  /\ status = "running" /\ fault = "none"
  /\ obj[o].handle = "reachable"
  /\ Apply(o, ByBackend(LuaClassToStringMethodCallback(obj[o], ok),
                        GMClassToStringMethodCallback(obj[o], ok),
                        SquirrelClassToStringMethodCallback(obj[o], ok)))

(* A native function (ReplaceCPPObject) creates a host object of class c   *)
(* and returns it through BaseScriptableClass::PushScriptObject, whose     *)
(* m_scriptObject is still NULL: PushNewScriptObject.  Only a              *)
(* BaseScriptableClass object takes this path.                             *)
PushNew(o, c) ==
  /\ status = "running" /\ fault = "none"
  /\ c \in Embeds
  /\ obj[o].proxy = "none"
  /\ Apply(o, Ok(ByBackend(LuaPushNewScriptObject(c),
                           GMPushNewScriptObject(c),
                           SquirrelPushNewScriptObject(c))))

(* A native function returns a host object it pushed before:               *)
(* BaseScriptableClass::PushScriptObject with m_scriptObject set.          *)
PushExisting(o) ==
  /\ status = "running" /\ fault = "none"
  /\ obj[o].hostOwned /\ obj[o].native = "alive" /\ obj[o].hostRef
  /\ Apply(o, ByBackend(LuaPushScriptObject(obj[o]),
                        GMPushScriptObject(obj[o]),
                        SquirrelPushScriptObject(obj[o])))

(* Script code drops its last reference to o.                              *)
DropReference(o) ==
  /\ status = "running" /\ fault = "none"
  /\ obj[o].handle = "reachable"
  /\ obj' = [obj EXCEPT ![o].handle = "garbage"]
  /\ UNCHANGED <<backend, status, fault>>

(* The runtime collects o's handle: any GC step while running, and every   *)
(* handle while the context is being destroyed.  The finalizer runs only  *)
(* if one was installed.                                                   *)
Finalize(o) ==
  /\ fault = "none"
  /\ \/ status = "running" /\ obj[o].handle = "garbage"
     \/ status = "closing" /\ obj[o].handle \in {"reachable", "garbage"}
  /\ LET r == [obj[o] EXCEPT !.handle = "collected"]
     IN  Apply(o, IF r.hooked
                  THEN ByBackend(LuaClassGCCallback(r), GMClassGCCallback(r),
                                 SquirrelClassGCCallback(r))
                  ELSE Ok(r))

(* The host deletes an object it created (a game entity going away);       *)
(* ~BaseScriptableClass releases the proxy through its ScriptObjectPtr.    *)
HostDelete(o) ==
  /\ HostDeletes
  /\ fault = "none"
  /\ obj[o].hostOwned /\ obj[o].native = "alive"
  /\ LET out == ScriptObjectPtrDestructor(
                  [obj[o] EXCEPT !.native = "deleted", !.hostOwned = FALSE],
                  FALSE)
     IN  Apply(o, out)

(* delete context: lua_close / CollectGarbage(true) and delete gmMachine / *)
(* sq_close collect every handle.                                          *)
CloseContext ==
  /\ fault = "none"
  /\ status = "running"
  /\ status' = "closing"
  /\ UNCHANGED <<backend, obj, fault>>

(* Mutant: the context frees the interpreter without collecting the       *)
(* handles that are left (no lua_close / sq_close / full GC first).        *)
CloseDoneWithoutCollect ==
  /\ fault = "none"
  /\ status = "closing"
  /\ status' = "closed"
  /\ UNCHANGED <<backend, obj, fault>>

CloseDone ==
  /\ fault = "none"
  /\ status = "closing"
  /\ \A o \in Objects : obj[o].handle \notin {"reachable", "garbage"}
  /\ status' = "closed"
  /\ UNCHANGED <<backend, obj, fault>>

(* The program has ended: the context is gone or an assertion spins.       *)
Terminated ==
  /\ status = "closed" \/ fault # "none"
  /\ UNCHANGED vars

Init ==
  /\ backend \in Backends
  /\ obj = [o \in Objects |-> Unused]
  /\ status = "running"
  /\ fault = "none"

Next ==
  \/ \E o \in Objects, c \in Classes : Construct(o, c) \/ PushNew(o, c)
  \/ \E o \in Objects, ok \in BOOLEAN : CallMethod(o, ok) \/ ConvertToString(o, ok)
  \/ \E o \in Objects :
       \/ Destroy(o) \/ PushExisting(o) \/ DropReference(o)
       \/ Finalize(o) \/ HostDelete(o)
  \/ CloseContext \/ CloseDone \/ Terminated

(* The host ends by deleting the context (MultiScriptTest main), and the   *)
(* context destructor collects every handle.                               *)
Fairness ==
  /\ WF_vars(CloseContext)
  /\ WF_vars(CloseDone)
  /\ \A o \in Objects : WF_vars(status = "closing" /\ Finalize(o))

Spec == Init /\ [][Next]_vars /\ Fairness

(***************************************************************************)
(* Properties.                                                             *)
(***************************************************************************)

TypeOK ==
  /\ backend \in Backends
  /\ obj \in [Objects -> ObjRecord]
  /\ status \in {"running", "closing", "closed"}
  /\ fault \in Faults

(* Memory safety of the binding layer (spec section 1): no thunk, finalizer *)
(* or host release ever reads or frees a proxy that was freed, or uses or   *)
(* deletes a native object that was deleted.                                *)
NoUseAfterFree == fault # "useAfterFree"

(* A method or to-string callback never runs on a destroyed object         *)
(* (m_objectPtr = NULL): the thunk stops on its assertion first (spec      *)
(* 4.3, step 2).                                                           *)
NoNullDereference == fault # "nullDeref"

(* On Lua a proxy freed by its finalizer is never reached again while the *)
(* host keeps its objects: LuaScriptStack::PushScriptObject asserts, so a  *)
(* kept proxy is never pushed again (GM's is, after its finalizer freed    *)
(* it).                                                                    *)
LuaNoUseAfterFree == backend = "lua" => NoUseAfterFree

(* Idempotent destruction (spec section 8): the class destructor runs at   *)
(* most once per object, whether by Destroy() twice or Destroy() then GC.  *)
DestructorAtMostOnce == \A o \in Objects : obj[o].dtorCalls <= 1

(* No leak for collected classes (spec section 1): every native object of a *)
(* garbage collected class is eventually deleted, at the latest when the    *)
(* context is destroyed, unless the program halted first.                   *)
CollectedObjectsDeleted ==
  \A o \in Objects :
    (obj[o].cls \in GC /\ obj[o].native = "alive")
      ~> (obj[o].native = "deleted" \/ fault # "none")

(* The promise of ScriptObjectSpec, under the mapping: the native object's *)
(* state is the object's life, the handle its script reference, and the    *)
(* context closes when its destructor starts.                              *)
LifeOf(r) ==
  CASE r.native = "none" -> "unbound"
    [] r.native = "alive" -> "bound"
    [] OTHER -> "destroyed"

Abstract ==
  INSTANCE ScriptObjectSpec WITH
    life <- [o \in Objects |-> LifeOf(obj[o])],
    kind <- [o \in Objects |-> obj[o].cls],
    ref <- [o \in Objects |-> obj[o].handle],
    closing <- status # "running"

(* Every step of the binding layer is a step of ScriptObjectSpec: objects  *)
(* are destroyed once, Destroy() destroys only manually destroyed classes, *)
(* and collecting a handle destroys exactly the bound collected ones.      *)
ImplementsScriptObjectSpec == Abstract!Spec
=============================================================================
