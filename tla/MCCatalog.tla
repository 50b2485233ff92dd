------------------------------- MODULE MCCatalog -------------------------------
(***************************************************************************)
(* A small catalog for TLC: one branch, one resource with two windows and  *)
(* a policy, a service, a holiday and an appointment.                      *)
(***************************************************************************)
EXTENDS CatalogProperties, TLC

CONSTANTS b1, r1, s1, a1

SmallIds ==
    [ t \in Tables |->
        CASE t = "branches" -> {b1}
          [] t \in {"resources", "agenda_policies"} -> {r1}
          [] t = "services" -> {s1}
          [] t = "appointments" -> {a1}
          [] t = "availability" -> 1 .. 2
          [] t = "holidays" -> 1 .. 1
          [] OTHER -> {} ]

Row(refs, first, second) == [refs |-> refs, first |-> first, second |-> second]

Branch == <<"branches", b1>>
Resource == <<"resources", r1>>
Service == <<"services", s1>>

\* A window is 9 to 12 or is cut short at either end; the service and the
\* appointment take half a second.
SmallRows ==
    [ t \in Tables |->
        CASE t = "branches" -> {Row({}, 0, 0)}
          [] t = "resources" -> {Row({Branch}, 0, 0)}
          [] t = "services" -> {Row({}, 1, 0)}
          [] t = "agenda_policies" -> {Row({Resource}, 3, 1)}
          [] t = "availability" -> {Row({Resource}, 9, 12), Row({Resource}, 9, 10),
                                    Row({Resource}, 11, 12)}
          [] t = "holidays" -> {Row({Branch}, 0, 0)}
          [] t = "appointments" -> {Row({Resource, Service}, 1, 0)}
          [] OTHER -> {} ]

CallerSymmetry == Permutations(Callers)

===============================================================================
