-------------------------- MODULE AtomicPromotion --------------------------
(***************************************************************************)
(* What Delivery V2 promises of staged layers: the application changes     *)
(* from the content of one package to that of another in one step, however *)
(* many steps, attempts and executors prepared it, and a package is        *)
(* confirmed only while it is the one that is live.                        *)
(***************************************************************************)
CONSTANTS
    Pkgs,          \* packages
    First,         \* the package that is live initially
    ContentOf(_)   \* the content of a package

VARIABLES
    content,       \* what the application runs
    confirmed      \* packages reported as deployed

vars == <<content, confirmed>>

Init == content = ContentOf(First) /\ confirmed = {}

Promote(p) == content' = ContentOf(p) /\ UNCHANGED confirmed

Confirm(p) ==
    /\ content = ContentOf(p)
    /\ confirmed' = confirmed \cup {p}
    /\ UNCHANGED content

Next == \E p \in Pkgs : Promote(p) \/ Confirm(p)

Spec == Init /\ [][Next]_vars
=============================================================================
