---------------------------- MODULE UserDirectory ----------------------------
(***************************************************************************)
(* The user directory of src/deconet/Efficiency/epic_process/             *)
(* authentication/login.rs: a HashMap<String, User> managed through the   *)
(* associated functions add_user (+ the insert main does), delete_user,  *)
(* get_user and update_user, and the User methods login, change_password *)
(* and reset_password applied to the entry of a username.  Every call     *)
(* takes the map or the User by reference, so calls are atomic steps.    *)
(***************************************************************************)
EXTENDS Naturals, FiniteSets, TLC

CONSTANTS
    Usernames,      \* usernames (strings)
    Passwords,      \* passwords an owner may choose (strings)
    Emails,         \* email addresses (model values)
    None

(* The literal that reset_password assigns (login.rs line 45). *)
ResetValue == "new_password"

(* What a caller may present to login: the owners' passwords and the     *)
(* reset literal, which anyone who has read the source knows.            *)
Guesses == Passwords \cup {ResetValue}

VARIABLES
    user_map,       \* HashMap<String, User>: username -> [password, email, is_admin]
    lastLogin       \* ghost: [user, password, ok] of the last login, or None

vars == <<user_map, lastLogin>>

UserRec == [password : Guesses, email : Emails, is_admin : BOOLEAN]

TypeOK ==
    /\ DOMAIN user_map \subseteq Usernames
    /\ \A u \in DOMAIN user_map : user_map[u] \in UserRec
    /\ lastLogin = None \/ lastLogin \in [user : Usernames, password : Guesses, ok : BOOLEAN]

(* main: HashMap::new() *)
Init ==
    /\ user_map = <<>>
    /\ lastLogin = None

(* add_user builds User::new(...); main inserts it under its username,   *)
(* replacing any user of that name.                                       *)
AddUser(u, p, e, a) ==
    /\ user_map' = (u :> [password |-> p, email |-> e, is_admin |-> a]) @@ user_map
    /\ UNCHANGED lastLogin

(* delete_user: user_map.remove(username); absent keys are ignored. *)
DeleteUser(u) ==
    /\ user_map' = [x \in DOMAIN user_map \ {u} |-> user_map[x]]
    /\ UNCHANGED lastLogin

(* update_user: if let Some(user) = get_mut(username), set email and     *)
(* is_admin; otherwise nothing.                                          *)
UpdateUser(u, e, a) ==
    /\ \/ /\ u \in DOMAIN user_map
          /\ user_map' = [user_map EXCEPT ![u].email = e, ![u].is_admin = a]
       \/ /\ u \notin DOMAIN user_map
          /\ UNCHANGED user_map
    /\ UNCHANGED lastLogin

(* change_password on the user stored under u. *)
ChangePassword(u, p) ==
    /\ u \in DOMAIN user_map
    /\ user_map' = [user_map EXCEPT ![u].password = p]
    /\ UNCHANGED lastLogin

(* Fault: the password cleared to "" instead of the literal. *)
ResetPasswordEmpty(u) ==
    /\ u \in DOMAIN user_map
    /\ user_map' = [user_map EXCEPT ![u].password = ""]
    /\ UNCHANGED lastLogin

(* reset_password on the user stored under u: the fixed literal. *)
ResetPassword(u) ==
    /\ u \in DOMAIN user_map
    /\ user_map' = [user_map EXCEPT ![u].password = ResetValue]
    /\ UNCHANGED lastLogin

(* get_user(username) then user.login(username, password): the stored   *)
(* username equals the key, so login compares the password.              *)
Login(u, p) ==
    /\ lastLogin' = [user |-> u, password |-> p,
                     ok |-> u \in DOMAIN user_map /\ user_map[u].password = p]
    /\ UNCHANGED user_map

Next ==
    \E u \in Usernames :
        \/ \E p \in Passwords, e \in Emails, a \in BOOLEAN : AddUser(u, p, e, a)
        \/ DeleteUser(u)
        \/ \E e \in Emails, a \in BOOLEAN : UpdateUser(u, e, a)
        \/ \E p \in Passwords : ChangePassword(u, p)
        \/ ResetPassword(u)
        \/ \E p \in Guesses : Login(u, p)

Spec == Init /\ [][Next]_vars

=============================================================================
