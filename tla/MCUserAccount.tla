--------------------------- MODULE MCUserAccount ---------------------------
(***************************************************************************)
(* Small instances of the UserAccount controller: two subjects a and b.    *)
(***************************************************************************)
EXTENDS UserAccountController

MCClaims == {"a", "b"}

Account(d, s, o, u) ==
    [disabled |-> d, claims |-> [Sub |-> s, OriginalSub |-> o, UserID |-> u]]

\* One claim; the same disabled; two claims by way of the original subject; the
\* user's ID first
MCSpecs ==
    {Account(FALSE, "a", "none", "a"), Account(TRUE, "a", "none", "a"),
     Account(FALSE, "a", "b", "none"), Account(FALSE, "b", "none", "a")}

\* Enabled and disabled, with two Identities
ToggleSpecs == {Account(FALSE, "a", "none", "b"), Account(TRUE, "a", "none", "b")}
===========================================================================
