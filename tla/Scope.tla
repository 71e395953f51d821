------------------------------- MODULE Scope -------------------------------
(***************************************************************************)
(* Scope of assembler/assembler.py: the parameters and local variables     *)
(* declared between ENTER and LVRET.  The code keeps two lists of names and*)
(* sizes; here a slot also has the bytes of its kind that were declared    *)
(* before it, which get_value adds up.  The frame is what ENTER builds     *)
(* below the arguments: at BP + 1 to BP + 6 are the old BP, the two byte   *)
(* counts and the address to return to.                                    *)
(***************************************************************************)
EXTENDS Integers

Kinds == {"parameter", "variable"}
Sizes == {1, 2}

\* None: a line outside of every scope.
NoScope == [none |-> TRUE]

\* ENTER max_parameters max_variables
NewScope(max_parameters, max_variables) ==
    [max |-> [parameter |-> max_parameters, variable |-> max_variables],
     byte_count |-> [parameter |-> 0, variable |-> 0],
     slots |-> [name \in {} |-> 0]]

IsDeclared(scope, name) == name \in DOMAIN scope.slots

\* Faulty variant of HasRoom: one byte too many is let through.
HasRoomOffByOne(scope, kind, size) == scope.byte_count[kind] + size <= scope.max[kind] + 1

\* No ScopeError("Too many ...").
HasRoom(scope, kind, size) == scope.byte_count[kind] + size <= scope.max[kind]

\* add_parameter and add_variable, of a name that is not declared and has room.
AddSlot(scope, kind, name, size) ==
    [max |-> scope.max,
     byte_count |-> [scope.byte_count EXCEPT ![kind] = @ + size],
     slots |-> [n \in DOMAIN scope.slots \union {name} |->
                   IF n = name
                   THEN [kind |-> kind, size |-> size, before |-> scope.byte_count[kind]]
                   ELSE scope.slots[n]]]

\* _get_param and _get_var: its lowest byte, relative to BP. Arguments are pushed
\* in the order of the parameters, so the first is the furthest.
Offset(scope, name) ==
    LET slot == scope.slots[name]
    IN  IF slot.kind = "parameter"
        THEN 6 + scope.max.parameter - slot.before - (slot.size - 1)
        ELSE 1 - (slot.before + slot.size)

SlotBytes(scope, name) ==
    Offset(scope, name) .. Offset(scope, name) + scope.slots[name].size - 1

-----------------------------------------------------------------------------
(* What a scope promises *)

\* Every slot lies in the part of the frame that ENTER reserved for its kind, and
\* no two share a byte.
SlotsApart(scope) ==
    /\ \A n \in DOMAIN scope.slots :
          SlotBytes(scope, n) \subseteq
              IF scope.slots[n].kind = "parameter" THEN 7 .. 6 + scope.max.parameter
              ELSE 1 - scope.max.variable .. 0
    /\ \A n, m \in DOMAIN scope.slots :
          n # m => SlotBytes(scope, n) \intersect SlotBytes(scope, m) = {}
=============================================================================
