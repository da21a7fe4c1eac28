--------------------------- MODULE ScriptObjectSpec ---------------------------
(***************************************************************************)
(* What the binding layer promises about a Script Object (spec sections 3  *)
(* and 4.3), whatever the backend: a native object is bound once, and is   *)
(* destroyed at most once, by an explicit Destroy() while the script holds *)
(* it if its class is not garbage collected, or by the collection of its   *)
(* handle if it is.  Collecting a handle destroys a bound object of a      *)
(* collected class and never one of a manually destroyed class.  When the  *)
(* context is destroyed every handle is collected.                         *)
(***************************************************************************)
EXTENDS Naturals

CONSTANTS Objects, Classes, GC, NoClass

VARIABLES
  life,     \* life[o]: "unbound", "bound" (native object alive), "destroyed"
  kind,     \* kind[o]: the class o was bound with
  ref,      \* ref[o]: the script's handle: "none", "reachable", "garbage",
            \* "collected"
  closing   \* the context is being (or has been) destroyed

absVars == <<life, kind, ref, closing>>

Init ==
  /\ life = [o \in Objects |-> "unbound"]
  /\ kind = [o \in Objects |-> NoClass]
  /\ ref = [o \in Objects |-> "none"]
  /\ closing = FALSE

(* A native object is bound to a new handle (script constructor, or a      *)
(* native function pushing a new object).                                  *)
Bind(o, c) ==
  /\ ~closing /\ life[o] = "unbound"
  /\ life' = [life EXCEPT ![o] = "bound"]
  /\ kind' = [kind EXCEPT ![o] = c]
  /\ ref' = [ref EXCEPT ![o] = "reachable"]
  /\ UNCHANGED closing

Drop(o) ==
  /\ ~closing /\ ref[o] = "reachable"
  /\ ref' = [ref EXCEPT ![o] = "garbage"]
  /\ UNCHANGED <<life, kind, closing>>

(* The host hands a bound object back to the script.                       *)
Expose(o) ==
  /\ ~closing /\ life[o] = "bound" /\ ref[o] \in {"reachable", "garbage"}
  /\ ref' = [ref EXCEPT ![o] = "reachable"]
  /\ UNCHANGED <<life, kind, closing>>

DestroyExplicit(o) ==
  /\ ~closing /\ life[o] = "bound" /\ ref[o] = "reachable"
  /\ kind[o] \notin GC
  /\ life' = [life EXCEPT ![o] = "destroyed"]
  /\ UNCHANGED <<kind, ref, closing>>

Collect(o) ==
  /\ \/ ref[o] = "garbage"
     \/ closing /\ ref[o] = "reachable"
  /\ ref' = [ref EXCEPT ![o] = "collected"]
  /\ life' = IF life[o] = "bound" /\ kind[o] \in GC
             THEN [life EXCEPT ![o] = "destroyed"] ELSE life
  /\ UNCHANGED <<kind, closing>>

Teardown ==
  /\ ~closing
  /\ closing' = TRUE
  /\ UNCHANGED <<life, kind, ref>>

Next ==
  \/ \E o \in Objects, c \in Classes : Bind(o, c)
  \/ \E o \in Objects :
       Drop(o) \/ Expose(o) \/ DestroyExplicit(o) \/ Collect(o)
  \/ Teardown

Spec == Init /\ [][Next]_absVars
=============================================================================
