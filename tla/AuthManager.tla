----------------------------- MODULE AuthManager -----------------------------
(***************************************************************************)
(* The AuthManager of src/deconet/Efficiency/epic_auth/authentication.rs:  *)
(* a username -> password map and a token -> username map, with the three *)
(* methods register_user, authenticate_user and validate_token.  Every    *)
(* method takes &mut self or &self, so calls are atomic and a behaviour   *)
(* is an interleaving of whole calls made by several callers.             *)
(*                                                                         *)
(* Ghost variables record what the callers saw, so that properties can    *)
(* speak of who obtained which token and which credentials were used.     *)
(***************************************************************************)
EXTENDS Naturals, Sequences, FiniteSets, TLC

CONSTANTS
    Usernames,      \* usernames callers may use (strings)
    Passwords,      \* passwords callers may use (strings)
    Callers,        \* the parties calling the manager (model values)
    BogusToken,     \* a token string no username formats to
    None,           \* Option::None
    MaxAuth         \* bound on successful authentications (tokens handed out)

ASSUME MaxAuth \in Nat \ {0}

VARIABLES
    users,          \* AuthManager.users : HashMap<String, String>
    tokens,         \* AuthManager.tokens : HashMap<String, String>
    returned,       \* ghost: Seq of [caller, token] returned by authenticate_user
    registered,     \* ghost: pairs <<u, p>> for which register_user returned
    presented,      \* ghost: pairs <<u, p>> presented to authenticate_user
    lastValidate    \* ghost: the last validate_token call and its result

vars == <<users, tokens, returned, registered, presented, lastValidate>>

(* format!("{}_token", username) *)
TokenOf(u) == u \o "_token"

(* The strings a caller may present to validate_token: any formatted      *)
(* token, since the format is public, and one that matches no user.       *)
CandidateTokens == {TokenOf(u) : u \in Usernames} \cup {BogusToken}

(* HashMap::insert: the new binding replaces any old one for the key. *)
Insert(m, k, v) == (k :> v) @@ m

(* The tokens a caller has been handed by authenticate_user. *)
Held(c) == {returned[i].token : i \in {j \in DOMAIN returned : returned[j].caller = c}}

NoValidate == [caller |-> None, token |-> None, user |-> None]

TypeOK ==
    /\ DOMAIN users \subseteq Usernames
    /\ \A u \in DOMAIN users : users[u] \in Passwords
    /\ DOMAIN tokens \subseteq {TokenOf(u) : u \in Usernames}
    /\ \A t \in DOMAIN tokens : tokens[t] \in Usernames
    /\ returned \in Seq([caller : Callers, token : DOMAIN tokens])
    /\ registered \subseteq Usernames \X Passwords
    /\ presented \subseteq Usernames \X Passwords
    /\ lastValidate \in [caller : Callers \cup {None},
                         token : CandidateTokens \cup {None},
                         user : Usernames \cup {None}]

(* AuthManager::new *)
Init ==
    /\ users = <<>>
    /\ tokens = <<>>
    /\ returned = <<>>
    /\ registered = {}
    /\ presented = {}
    /\ lastValidate = NoValidate

(* Fault: key and value swapped in the insert. *)
RegisterUserSwapped(c, u, p) ==
    /\ users' = Insert(users, p, u)
    /\ registered' = registered \cup {<<u, p>>}
    /\ UNCHANGED <<tokens, returned, presented, lastValidate>>

(* register_user: insert (username, password), replacing an existing user. *)
RegisterUser(c, u, p) ==
    /\ users' = Insert(users, u, p)
    /\ registered' = registered \cup {<<u, p>>}
    /\ UNCHANGED <<tokens, returned, presented, lastValidate>>

(* Fault: the password comparison left out. *)
AuthenticateUserOkNoPasswordCheck(c, u, p) ==
    /\ Len(returned) < MaxAuth
    /\ u \in DOMAIN users
    /\ tokens' = Insert(tokens, TokenOf(u), u)
    /\ returned' = Append(returned, [caller |-> c, token |-> TokenOf(u)])
    /\ presented' = presented \cup {<<u, p>>}
    /\ UNCHANGED <<users, registered, lastValidate>>

(* authenticate_user, password matches: insert and return the token. *)
AuthenticateUserOk(c, u, p) ==
    /\ Len(returned) < MaxAuth
    /\ u \in DOMAIN users
    /\ users[u] = p
    /\ tokens' = Insert(tokens, TokenOf(u), u)
    /\ returned' = Append(returned, [caller |-> c, token |-> TokenOf(u)])
    /\ presented' = presented \cup {<<u, p>>}
    /\ UNCHANGED <<users, registered, lastValidate>>

(* authenticate_user, unknown user or wrong password: return None. *)
AuthenticateUserFail(c, u, p) ==
    /\ ~(u \in DOMAIN users /\ users[u] = p)
    /\ presented' = presented \cup {<<u, p>>}
    /\ UNCHANGED <<users, tokens, returned, registered, lastValidate>>

(* validate_token: look the token up, return the username or None. *)
ValidateToken(c, t) ==
    /\ lastValidate' = [caller |-> c, token |-> t,
                        user |-> IF t \in DOMAIN tokens THEN tokens[t] ELSE None]
    /\ UNCHANGED <<users, tokens, returned, registered, presented>>

Next ==
    \E c \in Callers :
        \/ \E u \in Usernames, p \in Passwords :
              \/ RegisterUser(c, u, p)
              \/ AuthenticateUserOk(c, u, p)
              \/ AuthenticateUserFail(c, u, p)
        \/ \E t \in CandidateTokens : ValidateToken(c, t)

Spec == Init /\ [][Next]_vars

-----------------------------------------------------------------------------
(* Properties *)

(* A token that validate_token accepts for user u was obtained by         *)
(* presenting to authenticate_user a password that register_user stored   *)
(* for u: the token map is only filled behind the password comparison.    *)
ValidatedTokenBackedByCredential ==
    lastValidate.user # None =>
        \E p \in Passwords : <<lastValidate.user, p>> \in presented \cap registered

(* Spec 3 and 9: a token is unforgeable, so validate_token accepts a token *)
(* only from a caller to whom authenticate_user handed that token.        *)
(* authenticate_user builds the token as format!("{}_token", username).   *)
TokensUnforgeable ==
    lastValidate.user # None => lastValidate.token \in Held(lastValidate.caller)

(* Spec 4.2: the manager implements the abstract TokenIssuer, in which    *)
(* every issued token is fresh.  authenticate_user returns the same       *)
(* formatted token on every login of a user.                               *)
TokenIssuerAbs == INSTANCE TokenIssuer WITH
    Identities <- Usernames,
    TokenValues <- {TokenOf(u) : u \in Usernames},
    live <- tokens,
    issued <- [i \in DOMAIN returned |-> returned[i].token]

ImplementsTokenIssuer == TokenIssuerAbs!Spec
=============================================================================
