----------------------------- MODULE TokenIssuer -----------------------------
(***************************************************************************)
(* Abstract specification of the TokenIssuer / Validator of spec.md 4.2:  *)
(* issue(identity) returns a fresh token never handed out before and      *)
(* binds it to the identity; validate is a lookup; revoke removes the     *)
(* binding (Issued -> Revoked is terminal).  This module states what the  *)
(* component promises; AuthManager is checked against it.                 *)
(***************************************************************************)
EXTENDS Sequences, SequencesExt

CONSTANTS Identities, TokenValues

VARIABLES
    live,       \* token -> identity, for tokens neither revoked nor expired
    issued      \* every token issue() returned, in order

vars == <<live, issued>>

Init ==
    /\ live = <<>>
    /\ issued = <<>>

(* issue: a token value never returned before, bound to the identity. *)
Issue(i) ==
    \E t \in TokenValues :
        /\ ~Contains(issued, t)
        /\ live' = (t :> i) @@ live
        /\ issued' = Append(issued, t)

(* revoke: drop the binding; revoking twice is not an error. *)
Revoke(t) ==
    /\ live' = [x \in DOMAIN live \ {t} |-> live[x]]
    /\ UNCHANGED issued

Next ==
    \/ \E i \in Identities : Issue(i)
    \/ \E t \in TokenValues : Revoke(t)

Spec == Init /\ [][Next]_vars
=============================================================================
