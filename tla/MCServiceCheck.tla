--------------------------- MODULE MCServiceCheck ---------------------------
(***************************************************************************)
(* Instances of ServiceCheck for TLC: two storage services, one of each    *)
(* other kind; exclusions of one storage and one network service.          *)
(***************************************************************************)
EXTENDS ServiceCheck

CONSTANTS s1, s2

TwoServices == {s1, s2}
FewServices == [k \in Kind |-> IF k = "storage" THEN {s1, s2} ELSE {s1}]
FewExclusions == {{}, {<<"storage", s1>>}, {<<"storage", s2>>, <<"network", s1>>}}
=============================================================================
