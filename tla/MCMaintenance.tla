-------------------------- MODULE MCMaintenance --------------------------
(* Small instances of Maintenance: two graph databases, and a few           *)
(* operations and commands in every history.                                *)
EXTENDS Maintenance

CONSTANTS g1, g2, attempt, direct, load, submit, dumpAll, upgrade, drop, dump, dropControl

MCGraphOrder == <<g1, g2>>
MCOpKind == [o \in Ops |-> CASE o = attempt -> "attempt" [] o = direct -> "direct"
                             [] o = load -> "load" [] o = submit -> "submit"]
MCOpGraph == [o \in Ops |-> IF o = direct THEN g2 ELSE g1]
MCCommandKind == [c \in Commands |-> CASE c = dumpAll -> "dump_all" [] c = upgrade -> "upgrade"
                                       [] c = dump -> "dump" [] OTHER -> "drop"]
MCTarget == [c \in Commands |-> IF c \in {dumpAll, dropControl} THEN Control ELSE g1]

MCCasts == {{attempt, direct, dumpAll, upgrade}, {attempt, submit, dumpAll, drop},
            {attempt, load, dumpAll, dump}, {load, upgrade, dump},
            {load, dropControl}}
LoadAndDrop == {{load, drop}}
=============================================================================
