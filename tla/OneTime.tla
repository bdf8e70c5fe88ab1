------------------------------ MODULE OneTime ------------------------------
(***************************************************************************)
(* What every one-time credential of the crate promises: it is granted at  *)
(* most once, and a credential that is void (expired, or claimed by a call *)
(* that failed) is never granted afterwards.  MagicLink, SamlReplay and    *)
(* TwoFactor are shown to implement this.                                  *)
(***************************************************************************)
EXTENDS Naturals

CONSTANT Credentials

VARIABLES
    uses,  \* how often each credential was granted
    void   \* credentials that were never granted and never will be

oneTimeVars == <<uses, void>>

Init ==
    /\ uses = [c \in Credentials |-> 0]
    /\ void = {}

\* Only a credential that was never granted becomes void, and it stays so.
VoidGrows ==
    /\ void \subseteq void'
    /\ void' \subseteq {c \in Credentials : uses'[c] = 0}

\* Granting a credential may void others, such as the codes before it.
Grant(c) ==
    /\ uses[c] = 0
    /\ c \notin void
    /\ uses' = [uses EXCEPT ![c] = 1]
    /\ VoidGrows

Void ==
    /\ VoidGrows
    /\ UNCHANGED uses

Next == Void \/ \E c \in Credentials : Grant(c)

Spec == Init /\ [][Next]_oneTimeVars

AtMostOnce == \A c \in Credentials : uses[c] \in {0, 1}
=============================================================================
