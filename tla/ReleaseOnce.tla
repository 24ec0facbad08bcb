---------------------------- MODULE ReleaseOnce ----------------------------
(***************************************************************************)
(* What core.Lifecycle promises about the resources that its Connect       *)
(* closure acquires: a resource is acquired at most once by a Start call,  *)
(* and its stop closure is invoked at most once, only after it has been    *)
(* acquired (core/lifecycle.go, "exactly-once stopping semantics").        *)
(***************************************************************************)
CONSTANT Owners     \* the Start calls, each of which may acquire a resource

VARIABLE resource   \* what became of each one's resource

States == {"absent", "open", "released"}

TypeOK == resource \in [Owners -> States]

Init == resource = [o \in Owners |-> "absent"]

Acquire(o) ==
  /\ resource[o] = "absent"
  /\ resource' = [resource EXCEPT ![o] = "open"]

Release(o) ==
  /\ resource[o] = "open"
  /\ resource' = [resource EXCEPT ![o] = "released"]

Next == \E o \in Owners : Acquire(o) \/ Release(o)

Spec == Init /\ [][Next]_resource
=============================================================================
